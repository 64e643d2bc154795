---------------------------- MODULE MinimaxClips ----------------------------
(***************************************************************************)
(* The MiniMax text-to-video providers of a process (minimax/minimax.py):  *)
(* a load in the background under the class's lock, then one clip, made in *)
(* an executor's thread behind the class's inference semaphore, whose      *)
(* frames are streamed.  close() cancels the clip, but the load and the    *)
(* thread go on.                                                           *)
(***************************************************************************)
EXTENDS Naturals, FiniteSets

CONSTANTS
  Clip,        \* the providers
  Custom,      \* those whose parameters name another model than the default
  ClipFrames   \* frames of a clip

ASSUME ClipAssumption == ClipFrames \in Nat \ {0}

NoPipe == "none"

\* self.model
WantedPipe(p) == IF p \in Custom THEN "custom" ELSE "default"

VARIABLES
  loader,      \* _run_load: "none", "waiting" (for _shared_lock), "building", "loaded", "failed"
  sharedPipe,  \* _shared_pipe, with its _shared_model_id
  pipe,        \* self.pipe
  generation,  \* _generation_task
  threads,     \* providers whose _generate runs in the executor
  streamed,    \* frames put in output_queue
  closedClip,  \* providers whose close() was called
  late         \* history: those it was called on before the load was over

clipVars == <<loader, sharedPipe, pipe, generation, threads, streamed, closedClip, late>>

(***************************************************************************)
(*  generation  "none", "waiting" (for the semaphore), "generating",       *)
(*              "streaming", "over", "cancelled"                           *)
(***************************************************************************)
ClipTypeOK ==
  /\ loader \in [Clip -> {"none", "waiting", "building", "loaded", "failed"}]
  /\ sharedPipe \in {NoPipe, "custom", "default"}
  /\ pipe \in [Clip -> {NoPipe, "custom", "default"}]
  /\ generation \in [Clip -> {"none", "waiting", "generating", "streaming", "over", "cancelled"}]
  /\ threads \subseteq Clip
  /\ streamed \in [Clip -> 0 .. ClipFrames]
  /\ closedClip \subseteq Clip /\ late \subseteq closedClip

ClipInit ==
  /\ loader = [p \in Clip |-> "none"]
  /\ sharedPipe = NoPipe /\ pipe = [p \in Clip |-> NoPipe]
  /\ generation = [p \in Clip |-> "none"]
  /\ threads = {} /\ streamed = [p \in Clip |-> 0]
  /\ closedClip = {} /\ late = {}

\* A connection that ends while it prepares its models may close one first.
ConnectClip(p) ==
  /\ loader[p] = "none"
  /\ loader' = [loader EXCEPT ![p] = "waiting"]
  /\ UNCHANGED <<sharedPipe, pipe, generation, threads, streamed, closedClip, late>>

\* load() returned with `shared` in self.pipe, and the clip is begun.
Loads(p, shared) ==
  /\ loader' = [loader EXCEPT ![p] = "loaded"]
  /\ pipe' = [pipe EXCEPT ![p] = shared]
  /\ generation' = [generation EXCEPT ![p] = "waiting"]

\* Mutant: whatever pipe is there is taken.
EnterAnyClip(p) ==
  IF sharedPipe # NoPipe THEN Loads(p, sharedPipe)
  ELSE loader' = [loader EXCEPT ![p] = "building"] /\ UNCHANGED <<pipe, generation>>

\* setup() in the lock: the pipe it wants is there, or has to be built.
EnterClip(p) ==
  IF sharedPipe = WantedPipe(p) THEN Loads(p, sharedPipe)
  ELSE loader' = [loader EXCEPT ![p] = "building"] /\ UNCHANGED <<pipe, generation>>

\* The lock is free.
EnterSetup(p) ==
  /\ loader[p] = "waiting" /\ \A q \in Clip : loader[q] # "building"
  /\ EnterClip(p)
  /\ UNCHANGED <<sharedPipe, threads, streamed, closedClip, late>>

PipeBuilt(p) ==
  /\ loader[p] = "building"
  /\ sharedPipe' = WantedPipe(p)
  /\ Loads(p, WantedPipe(p))
  /\ UNCHANGED <<threads, streamed, closedClip, late>>

PipeFails(p) ==
  /\ loader[p] = "building"
  /\ loader' = [loader EXCEPT ![p] = "failed"]
  /\ UNCHANGED <<sharedPipe, pipe, generation, threads, streamed, closedClip, late>>

\* The semaphore is free; a task that was cancelled has released it.
StartsThread(p) ==
  /\ generation[p] = "waiting" /\ \A q \in Clip : generation[q] # "generating"
  /\ generation' = [generation EXCEPT ![p] = "generating"]
  /\ threads' = threads \union {p}
  /\ UNCHANGED <<loader, sharedPipe, pipe, streamed, closedClip, late>>

\* _generate returned, or raised, at once when close() has taken the pipe
\* away before it began.
ThreadEnds(p) ==
  /\ p \in threads
  /\ threads' = threads \ {p}
  /\ \E ends \in {"streaming", "over"} :
       generation' = [generation EXCEPT ![p] = IF @ = "generating" THEN ends ELSE @]
  /\ UNCHANGED <<loader, sharedPipe, pipe, streamed, closedClip, late>>

StreamsFrame(p) ==
  /\ generation[p] = "streaming"
  /\ streamed' = [streamed EXCEPT ![p] = @ + 1]
  /\ generation' = [generation EXCEPT ![p] = IF streamed'[p] = ClipFrames THEN "over" ELSE @]
  /\ UNCHANGED <<loader, sharedPipe, pipe, threads, closedClip, late>>

\* close(): a task that is there is cancelled, a load is not.
CloseClip(p) ==
  /\ p \notin closedClip
  /\ closedClip' = closedClip \union {p}
  /\ late' = IF loader[p] \in {"none", "waiting", "building"} THEN late \union {p} ELSE late
  /\ generation' = [generation EXCEPT ![p] = IF @ \in {"none", "over"} THEN @ ELSE "cancelled"]
  /\ pipe' = [pipe EXCEPT ![p] = NoPipe]
  /\ UNCHANGED <<loader, sharedPipe, threads, streamed>>

ClipNext ==
  \E p \in Clip :
    \/ ConnectClip(p) \/ EnterSetup(p) \/ PipeBuilt(p) \/ PipeFails(p)
    \/ StartsThread(p) \/ ThreadEnds(p) \/ StreamsFrame(p)
    \/ CloseClip(p)

ClipSpec == ClipInit /\ [][ClipNext]_clipVars

-----------------------------------------------------------------------------
\* However loads, clips and closes of several connections interleave, a
\* provider makes its clip with the model it was asked for, whichever was
\* loaded last, and a close() that did not come before the end of the load
\* leaves neither a pipe nor a clip; two threads run at once only if one of
\* them is of a clip that close() cancelled, which released the semaphore
\* (minimax.py:68-107, 225-229, model.py:283-296).
OwnClip ==
  /\ ClipTypeOK
  /\ \A p \in Clip :
       /\ pipe[p] \in {NoPipe, WantedPipe(p)}
       /\ p \in closedClip \ late =>
            pipe[p] = NoPipe /\ generation[p] \in {"none", "over", "cancelled"}
  /\ \A p, q \in threads : p = q \/ {p, q} \intersect closedClip # {}
=============================================================================
