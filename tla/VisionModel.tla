---------------------------- MODULE VisionModel ----------------------------
(***************************************************************************)
(* The vision providers (providers/vision_model.py, as yolo and sam3 build *)
(* on it: one model shared by all instances of the class) with the parts   *)
(* of Model they use: run_shared_inference and notify_detections           *)
(* (model.py).                                                             *)
(*                                                                         *)
(* A provider instance belongs to one connection.  Its connection's video  *)
(* task calls send() with each frame; inference runs in tasks of its own,  *)
(* one executor call at a time for all the instances of the class.  A      *)
(* frame is its number: the value of frame_count when it arrived.          *)
(***************************************************************************)
EXTENDS Naturals, Sequences, FiniteSets

CONSTANTS
  Provider,   \* the instances of one provider class, one per connection
  Sampling,   \* Sampling[p]: sampling_rate, a parameter of each instance
  QueueMax,   \* 10 in the code
  MaxFrames,  \* bound on frame_count
  Labels      \* what inference can detect

ASSUME VisionAssumption ==
  /\ Sampling \in [Provider -> Nat \ {0}]
  /\ QueueMax \in Nat \ {0}
  /\ MaxFrames \in Nat
  /\ "None" \notin Labels

VARIABLES
  loadTask,    \* _run_load: "none", "running", "done"
  ready,       \* self.model / self.reader is not None
  count,       \* frame_count
  processing,  \* _processing
  pending,     \* _pending_frame, 0 for None
  jobs,        \* jobs[p]: the frames of the _run_process_frame tasks of p
  line,        \* who holds (first) and awaits the shared inference semaphore
  inputOn,     \* input_enabled
  outputOn,    \* output_enabled
  out,         \* output_queue
  came,        \* ghost: the frames put in it behind the last one read
  overlay,     \* the detection state drawn by the provider
  last,        \* _last_detections, {"None"} for None
  heard        \* what the last detection event said

vars == <<loadTask, ready, count, processing, pending, jobs, line, inputOn,
          outputOn, out, came, overlay, last, heard>>

Frames == 1 .. MaxFrames
NoDetections == {"None"}

TypeOK ==
  /\ loadTask \in [Provider -> {"none", "running", "done"}]
  /\ ready \in [Provider -> BOOLEAN]
  /\ count \in [Provider -> 0 .. MaxFrames]
  /\ processing \in [Provider -> BOOLEAN]
  /\ pending \in [Provider -> 0 .. MaxFrames]
  /\ jobs \in [Provider -> SUBSET Frames]
  /\ line \in Seq(Provider \X Frames)
  /\ inputOn \in [Provider -> BOOLEAN]
  /\ outputOn \in [Provider -> BOOLEAN]
  /\ out \in [Provider -> Seq(Frames)]
  /\ came \in [Provider -> SUBSET Frames]
  /\ overlay \in [Provider -> SUBSET Labels]
  /\ last \in [Provider -> (SUBSET Labels) \union {NoDetections}]
  /\ heard \in [Provider -> (SUBSET Labels) \union {NoDetections}]

Init ==
  /\ loadTask = [p \in Provider |-> "none"]
  /\ ready = [p \in Provider |-> FALSE]
  /\ count = [p \in Provider |-> 0]
  /\ processing = [p \in Provider |-> FALSE]
  /\ pending = [p \in Provider |-> 0]
  /\ jobs = [p \in Provider |-> {}]
  /\ line = <<>>
  /\ inputOn = [p \in Provider |-> TRUE]
  /\ outputOn = [p \in Provider |-> TRUE]
  /\ out = [p \in Provider |-> <<>>]
  /\ came = [p \in Provider |-> {}]
  /\ overlay = [p \in Provider |-> {}]
  /\ last = [p \in Provider |-> NoDetections]
  /\ heard = [p \in Provider |-> NoDetections]

flightVars == <<processing, pending, jobs>>
outputVars == <<out, came>>
detectionVars == <<overlay, last, heard>>
switchVars == <<inputOn, outputOn>>

-----------------------------------------------------------------------------
(* Loading and closing                                                     *)

\* connect() only starts the load in the background.
Connect(p) ==
  /\ loadTask[p] = "none"
  /\ loadTask' = [loadTask EXCEPT ![p] = "running"]
  /\ UNCHANGED <<ready, count, flightVars, line, switchVars, outputVars, detectionVars>>

\* load() ends: with a model, or with an exception that is only logged.
Loaded(p) ==
  /\ loadTask[p] = "running"
  /\ loadTask' = [loadTask EXCEPT ![p] = "done"]
  /\ ready' \in {ready, [ready EXCEPT ![p] = TRUE]}
  /\ UNCHANGED <<count, flightVars, line, switchVars, outputVars, detectionVars>>

\* The provider's close(), which waits for nothing.
Close(p) ==
  /\ loadTask[p] # "none"
  /\ ready' = [ready EXCEPT ![p] = FALSE]
  /\ UNCHANGED <<loadTask, count, flightVars, line, switchVars, outputVars, detectionVars>>

\* enable_/disable_input/output, called by scripts.
SwitchInput(p) ==
  /\ inputOn' = [inputOn EXCEPT ![p] = ~@]
  /\ UNCHANGED <<loadTask, ready, count, flightVars, line, outputOn, outputVars, detectionVars>>

SwitchOutput(p) ==
  /\ outputOn' = [outputOn EXCEPT ![p] = ~@]
  /\ UNCHANGED <<loadTask, ready, count, flightVars, line, inputOn, outputVars, detectionVars>>

-----------------------------------------------------------------------------
(* Frames                                                                  *)

Sampled(p, f) == Sampling[p] = 1 \/ f % Sampling[p] = 1

PickNoGuard(p, f) ==
  /\ processing' = [processing EXCEPT ![p] = TRUE]
  /\ jobs' = [jobs EXCEPT ![p] = @ \union {f}]
  /\ UNCHANGED pending

\* A sampled frame starts an inference task, or replaces the pending frame
\* when one is in flight.
Pick(p, f) ==
  IF processing[p]
  THEN /\ pending' = [pending EXCEPT ![p] = f]
       /\ UNCHANGED <<processing, jobs>>
  ELSE /\ processing' = [processing EXCEPT ![p] = TRUE]
       /\ jobs' = [jobs EXCEPT ![p] = @ \union {f}]
       /\ UNCHANGED pending

\* The input is disabled: the pending frame and the detections are forgotten.
Forget(p) ==
  /\ pending' = [pending EXCEPT ![p] = 0]
  /\ overlay' = [overlay EXCEPT ![p] = {}]
  /\ last' = [last EXCEPT ![p] = NoDetections]
  /\ UNCHANGED <<processing, jobs, heard>>

\* Mutant: the newest frame finds no room.
PutIfRoom(q, f) == IF Len(q) >= QueueMax THEN q ELSE Append(q, f)

\* limit_queue_size and put: the oldest frame makes room.
Put(q, f) == Append(IF Len(q) >= QueueMax THEN Tail(q) ELSE q, f)

Forward(p, f) ==
  IF outputOn[p]
  THEN /\ out' = [out EXCEPT ![p] = Put(@, f)]
       /\ came' = [came EXCEPT ![p] = @ \union {f}]
  ELSE UNCHANGED outputVars

\* send() of the next frame; frames are ignored while there is no model.
Send(p) ==
  LET f == count[p] + 1 IN
  /\ ready[p]
  /\ count[p] < MaxFrames
  /\ count' = [count EXCEPT ![p] = f]
  /\ \/ inputOn[p] /\ Sampled(p, f) /\ Pick(p, f) /\ UNCHANGED detectionVars
     \/ inputOn[p] /\ ~Sampled(p, f) /\ UNCHANGED <<flightVars, detectionVars>>
     \/ ~inputOn[p] /\ Forget(p)
  /\ Forward(p, f)
  /\ UNCHANGED <<loadTask, ready, line, switchVars>>

\* recv(): the connection's receiver task takes a frame.
Recv(p) ==
  /\ out[p] # <<>>
  /\ out' = [out EXCEPT ![p] = Tail(@)]
  /\ came' = [came EXCEPT ![p] = {f \in @ : f > Head(out[p])}]
  /\ UNCHANGED <<loadTask, ready, count, flightVars, line, switchVars, detectionVars>>

-----------------------------------------------------------------------------
(* Inference                                                               *)

FinishForgetsPending(p, f) ==
  /\ jobs' = [jobs EXCEPT ![p] = @ \ {f}]
  /\ processing' = [processing EXCEPT ![p] = FALSE]
  /\ UNCHANGED pending

\* The finally clause of _run_process_frame: the task of f ends and the
\* pending frame, if any, gets a task.
Finish(p, f) ==
  /\ pending' = [pending EXCEPT ![p] = 0]
  /\ processing' = [processing EXCEPT ![p] = pending[p] # 0]
  /\ jobs' = [jobs EXCEPT ![p] = (@ \ {f}) \union ({pending[p]} \ {0})]

\* run_shared_inference: tasks wait in order of arrival for the semaphore the
\* instances of the class share.
Enqueue(p, f) == line' = Append(line, <<p, f>>)

\* The task of frame f starts.  process_frame returns at once when close()
\* took the model; else it queues for the shared model.
Begin(p, f) ==
  /\ f \in jobs[p]
  /\ <<p, f>> \notin {line[i] : i \in 1 .. Len(line)}
  /\ IF ready[p]
     THEN Enqueue(p, f) /\ UNCHANGED flightVars
     ELSE Finish(p, f) /\ UNCHANGED line
  /\ UNCHANGED <<loadTask, ready, count, switchVars, outputVars, detectionVars>>

NotifyAlways(p, L) ==
  /\ last' = [last EXCEPT ![p] = L]
  /\ heard' = IF heard[p] = NoDetections THEN [heard EXCEPT ![p] = L] ELSE heard

\* notify_detections: an event only when the labels changed.
Notify(p, L) ==
  IF last[p] # L
  THEN last' = [last EXCEPT ![p] = L] /\ heard' = [heard EXCEPT ![p] = L]
  ELSE UNCHANGED <<last, heard>>

\* The executor call of the first in line returns with labels L.
Inferred(L) ==
  /\ line # <<>>
  /\ LET p == Head(line)[1] IN
       /\ overlay' = [overlay EXCEPT ![p] = L]
       /\ Notify(p, L)
       /\ Finish(p, Head(line)[2])
  /\ line' = Tail(line)
  /\ UNCHANGED <<loadTask, ready, count, switchVars, outputVars>>

\* The executor call raises; the exception is logged.
InferenceFails ==
  /\ line # <<>>
  /\ Finish(Head(line)[1], Head(line)[2])
  /\ line' = Tail(line)
  /\ UNCHANGED <<loadTask, ready, count, switchVars, outputVars, detectionVars>>

-----------------------------------------------------------------------------
Next ==
  \/ \E p \in Provider :
       \/ Connect(p) \/ Loaded(p) \/ Close(p)
       \/ SwitchInput(p) \/ SwitchOutput(p)
       \/ Send(p) \/ Recv(p)
       \/ \E f \in Frames : Begin(p, f)
  \/ \E L \in SUBSET Labels : Inferred(L)
  \/ InferenceFails

Spec == Init /\ [][Next]_vars

\* The event loop runs every task that is ready and the executor call of an
\* inference returns or raises.
Fairness ==
  /\ \A p \in Provider, f \in Frames : WF_vars(Begin(p, f))
  /\ WF_vars((\E L \in SUBSET Labels : Inferred(L)) \/ InferenceFails)

LiveSpec == Spec /\ Fairness

-----------------------------------------------------------------------------
\* "At most one frame is being run through inference at a time": there is a
\* task exactly when _processing says so, and never two, whatever arrives
\* while one waits for the shared model (vision_model.py:130-136, 172-178).
SingleFlight ==
  \A p \in Provider :
    /\ processing[p] <=> jobs[p] # {}
    /\ \A f, g \in jobs[p] : f = g

\* What is pending is newer than what is in flight, and something is in
\* flight to take it over (vision_model.py:131-133).
PendingIsNewer ==
  \A p \in Provider : pending[p] # 0 =>
    jobs[p] # {} /\ \A f \in jobs[p] : f < pending[p]

\* The output queue holds, in order, the newest frames that were put in it: a
\* frame its reader has not passed is missing only because QueueMax newer ones
\* wait (vision_model.py:150, utils.py:86-92).
QueueIsRecent ==
  \A p \in Provider :
    LET queued == {out[p][i] : i \in 1 .. Len(out[p])} IN
    /\ Len(out[p]) <= QueueMax /\ queued \subseteq came[p]
    /\ \A i, j \in 1 .. Len(out[p]) : i < j => out[p][i] < out[p][j]
    /\ \A f \in came[p] \ queued : Len(out[p]) = QueueMax /\ \A g \in queued : f < g

\* One frame of a provider in flight, the newest sampled one pending and the
\* newest ones kept for the reader.
FlightSound == TypeOK /\ SingleFlight /\ PendingIsNewer /\ QueueIsRecent

\* The listeners' last event and the drawn overlay agree with the last
\* notified detection: a change is never swallowed, also when a result arrives
\* after the input was disabled and enabled again, and nothing stays drawn
\* once the detections are forgotten (model.py:232-238, yolo.py:57, 97-100).
HeardIsLast ==
  \A p \in Provider :
    IF last[p] = NoDetections THEN overlay[p] = {}
    ELSE heard[p] = last[p] /\ overlay[p] = last[p]

\* Each provider keeps the promise of its docstring: it implements
\* LatestFrame (vision_model.py:40-47).
Latest(p) == INSTANCE LatestFrame WITH
  inFlight <- jobs[p], next <- pending[p], newest <- count[p]

ImplementsLatest ==
  /\ \A p \in Provider : Latest(p)!LatestInit
  /\ [][\A p \in Provider : [Latest(p)!LatestNext]_(Latest(p)!frameVars)]_<<jobs, pending, count>>

\* The strengthening the proofs need: what waits has arrived, and each entry
\* of the line is the frame in flight of a provider of its own.
VisionInv ==
  /\ TypeOK /\ SingleFlight /\ PendingIsNewer
  /\ \A p \in Provider : pending[p] <= count[p] /\ \A f \in jobs[p] : f <= count[p]
  /\ \A i \in 1 .. Len(line) : line[i][2] \in jobs[line[i][1]]
  /\ \A i, j \in 1 .. Len(line) : line[i][1] = line[j][1] => i = j

\* No pending frame waits for ever: the provider that is behind takes it up
\* (vision_model.py:174-178).
PendingTaken == \A p \in Provider : pending[p] # 0 ~> pending[p] = 0
=============================================================================
