----------------------------- MODULE MujocoSim -----------------------------
(***************************************************************************)
(* The MuJoCo provider (mujoco/visual.py): a loop task that has an         *)
(* executor of one thread step, render and stop the simulation, one job    *)
(* after the other, and key events that the event loop's own thread        *)
(* applies while a step runs.  One key moves one joint of the arm; `r`     *)
(* resets it, which blocks the event loop until it is done.                *)
(***************************************************************************)
EXTENDS Naturals, Sequences

CONSTANTS
  Highest,          \* end of the joint's range, in steps of _KEY_DELTA
  StepsPerFrame,    \* steps between two renderings
  QueueSize,        \* maxsize of _frame_queue
  MaxRendered       \* bound on the frames rendered

ASSUME SimAssumption ==
  /\ {Highest, StepsPerFrame, MaxRendered} \subseteq Nat
  /\ QueueSize \in Nat \ {0}

Home == 0           \* the joint in the "home" key frame

VARIABLES
  loop,         \* where connect() and then _sim_loop are
  stepsDone,    \* steps of the frame it is at
  jobs,         \* the executor's jobs, the one that runs first
  inStep,       \* where the step that runs is
  value,        \* the joint's target it has read
  renderer,     \* _renderer: "none", "open", "closed"
  target,       \* _target_qpos of the joint
  qpos,         \* _data.qpos of the joint
  resetting,    \* `r` holds the lock: the data are reset, the target not yet
  held,         \* _held_keys has its key
  rendered,     \* frames rendered
  frameQueue,   \* _frame_queue
  yielded,      \* frames recv() has yielded
  simCloser,    \* close(): "open", "stopping" (awaits the loop), "closed"
  early,        \* history: close() was called before the loop's first step
  moved,        \* history: moves of the joint since the last reset, up to Highest + 1
  raced,        \* history: a step in flight wrote qpos while `r` was resetting
  overrun       \* history: raced, or a step in flight stored what it read before

jointVars == <<target, qpos, resetting, held, moved, raced, overrun>>
frameVars == <<rendered, frameQueue, yielded>>
simVars == <<loop, stepsDone, jobs, inStep, value, renderer, jointVars, frameVars, simCloser, early>>

(***************************************************************************)
(*  loop    "none", "starting" (connect() awaits start), "spawned",        *)
(*          "deciding", "awaiting" (a job), "stopping" (its last), "over", *)
(*          "dead" (cancelled before its first step, or start() raised),   *)
(*          "refused" (connect() after close(): the executor is shut down) *)
(*  inStep  "no", "read" (has read the target), "stored", "written" (qpos) *)
(***************************************************************************)
SimTypeOK ==
  /\ loop \in {"none", "starting", "spawned", "deciding", "awaiting", "stopping", "over", "dead", "refused"}
  /\ stepsDone \in 0 .. StepsPerFrame
  /\ jobs \in Seq({"start", "step", "render", "stop"})
  /\ inStep \in {"no", "read", "stored", "written"}
  /\ renderer \in {"none", "open", "closed"}
  /\ {target, value, qpos} \subseteq 0 .. Highest
  /\ {held, early, resetting, raced, overrun} \subseteq BOOLEAN
  /\ rendered \in 0 .. MaxRendered
  /\ frameQueue \in Seq(1 .. MaxRendered) /\ yielded \in Seq(1 .. MaxRendered)
  /\ simCloser \in {"open", "stopping", "closed"}
  /\ moved \in 0 .. Highest + 1

SimInit ==
  /\ loop = "none" /\ stepsDone = 0 /\ jobs = <<>> /\ inStep = "no" /\ value = Home
  /\ renderer = "none" /\ target = Home /\ qpos = Home /\ resetting = FALSE /\ held = FALSE
  /\ rendered = 0 /\ frameQueue = <<>> /\ yielded = <<>>
  /\ simCloser = "open" /\ early = FALSE /\ moved = 0 /\ raced = FALSE /\ overrun = FALSE

\* _running
running == (simCloser = "open" /\ loop # "none") \/ loop = "refused"
Submits(job) == jobs' = Append(jobs, job)

-----------------------------------------------------------------------------
(* The loop task                                                           *)

\* A connection that ends while it prepares its models may close one first.
Connect ==
  /\ loop = "none"
  /\ \/ simCloser = "open" /\ loop' = "starting" /\ Submits("start")
     \/ simCloser = "closed" /\ loop' = "refused" /\ UNCHANGED jobs
  /\ UNCHANGED <<stepsDone, inStep, value, renderer, jointVars, frameVars, simCloser, early>>

\* start() returned: the loop's task is made.
Connected ==
  /\ loop = "starting" /\ jobs = <<>>
  /\ loop' = "spawned"
  /\ UNCHANGED <<stepsDone, jobs, inStep, value, renderer, jointVars, frameVars, simCloser, early>>

LoopStarts ==
  /\ loop = "spawned"
  /\ loop' = "deciding"
  /\ UNCHANGED <<stepsDone, jobs, inStep, value, renderer, jointVars, frameVars, simCloser, early>>

\* The next step, or the frame after StepsPerFrame of them.
LoopSubmits ==
  /\ loop = "deciding" /\ running /\ rendered < MaxRendered
  /\ Submits(IF stepsDone = StepsPerFrame THEN "render" ELSE "step")
  /\ loop' = "awaiting"
  /\ UNCHANGED <<stepsDone, inStep, value, renderer, jointVars, frameVars, simCloser, early>>

\* What the executor was given last is done.  A full queue drops its oldest
\* frame; a step that raised ends the frame.
LoopResumes ==
  /\ loop = "awaiting" /\ jobs = <<>>
  /\ loop' = "deciding"
  /\ \/ /\ stepsDone < StepsPerFrame
        /\ stepsDone' \in {stepsDone + 1, 0}
        /\ UNCHANGED frameVars
     \/ /\ stepsDone = StepsPerFrame
        /\ stepsDone' = 0 /\ rendered' = rendered + 1
        /\ frameQueue' = Append(IF Len(frameQueue) = QueueSize THEN Tail(frameQueue) ELSE frameQueue, rendered')
        /\ UNCHANGED yielded
  /\ UNCHANGED <<jobs, inStep, value, renderer, jointVars, simCloser, early>>

\* Mutant: the renderer is left open.
StopsNothing == UNCHANGED jobs

\* The last job, if the executor still takes jobs; one that it has not begun
\* may be cancelled with the loop.
Stops ==
  IF simCloser = "closed" THEN UNCHANGED jobs
  ELSE \E left \in {jobs} \union (IF inStep = "no" THEN {<<>>} ELSE {}) : jobs' = Append(left, "stop")

\* It was cancelled or sees that it no longer runs.  The job it awaited goes
\* on; stop() comes after it.
LoopEnds ==
  /\ loop \in {"deciding", "awaiting"} /\ simCloser # "open"
  /\ loop' = "stopping"
  /\ Stops
  /\ UNCHANGED <<stepsDone, inStep, value, renderer, jointVars, frameVars, simCloser, early>>

LoopOver ==
  /\ loop = "stopping" /\ jobs = <<>>
  /\ loop' = "over"
  /\ UNCHANGED <<stepsDone, jobs, inStep, value, renderer, jointVars, frameVars, simCloser, early>>

-----------------------------------------------------------------------------
(* The executor's thread                                                   *)

Runs(job) == jobs # <<>> /\ Head(jobs) = job

\* start() and stop().
ThreadOpens ==
  /\ Runs("start")
  /\ jobs' = Tail(jobs) /\ renderer' = "open"
  /\ UNCHANGED <<loop, stepsDone, inStep, value, jointVars, frameVars, simCloser, early>>

ThreadCloses ==
  /\ Runs("stop")
  /\ jobs' = Tail(jobs) /\ renderer' = "closed"
  /\ UNCHANGED <<loop, stepsDone, inStep, value, jointVars, frameVars, simCloser, early>>

\* start() raised, and connect() with it.
ThreadFailsToOpen ==
  /\ Runs("start")
  /\ jobs' = Tail(jobs) /\ loop' = "dead"
  /\ UNCHANGED <<stepsDone, inStep, value, renderer, jointVars, frameVars, simCloser, early>>

\* _apply_held_keys takes the keys under the lock and reads the target ...
ThreadReads ==
  /\ Runs("step") /\ inStep = "no" /\ ~resetting
  /\ IF held THEN inStep' = "read" /\ value' = target ELSE inStep' = "stored" /\ UNCHANGED value
  /\ UNCHANGED <<loop, stepsDone, jobs, renderer, jointVars, frameVars, simCloser, early>>

Clipped(v) == IF v > Highest THEN Highest ELSE v

\* ... and stores it moved, and clipped to its range.
ThreadStores ==
  /\ inStep = "read"
  /\ inStep' = "stored"
  /\ target' = Clipped(value + 1)
  /\ moved' = IF moved > Highest THEN moved ELSE moved + 1
  /\ overrun' = (overrun \/ value > moved)
  /\ UNCHANGED <<loop, stepsDone, jobs, value, renderer, qpos, resetting, held, raced, frameVars, simCloser, early>>

\* The position is set to the target, without the lock.
ThreadWrites ==
  /\ inStep = "stored"
  /\ inStep' = "written"
  /\ qpos' = target /\ value' = target
  /\ raced' = (raced \/ resetting)
  /\ UNCHANGED <<loop, stepsDone, jobs, renderer, target, resetting, held, moved, overrun, frameVars, simCloser, early>>

\* mj_step, or the rendering, is over.  mj_step leaves the position, or, when a
\* reset came meanwhile, may have written back what it began with.
ThreadSteps ==
  /\ Runs("step") /\ inStep = "written"
  /\ jobs' = Tail(jobs) /\ inStep' = "no" /\ value' = Home
  /\ qpos' \in {qpos, value}
  /\ raced' = (raced \/ resetting)
  /\ UNCHANGED <<loop, stepsDone, renderer, target, resetting, held, moved, overrun, frameVars, simCloser, early>>

ThreadRenders ==
  /\ Runs("render")
  /\ jobs' = Tail(jobs)
  /\ UNCHANGED <<loop, stepsDone, inStep, value, renderer, jointVars, frameVars, simCloser, early>>

-----------------------------------------------------------------------------
(* send(), recv() and close()                                              *)

KeyDown ==
  /\ running /\ ~held /\ held' = TRUE
  /\ UNCHANGED <<loop, stepsDone, jobs, inStep, value, renderer, target, qpos, resetting, moved, raced, overrun,
                 frameVars, simCloser, early>>

KeyUp ==
  /\ running /\ held /\ held' = FALSE
  /\ UNCHANGED <<loop, stepsDone, jobs, inStep, value, renderer, target, qpos, resetting, moved, raced, overrun,
                 frameVars, simCloser, early>>

\* The `r` key, under the lock: mj_resetDataKeyframe ...  Before start() there
\* is no model, and it raises.
ResetKey ==
  /\ running /\ renderer = "open"
  /\ qpos' = Home /\ resetting' = TRUE /\ raced' = FALSE
  /\ UNCHANGED <<loop, stepsDone, jobs, inStep, value, renderer, target, held, moved, overrun,
                 frameVars, simCloser, early>>

\* ... and then the positions are the new targets.
ResetCopies ==
  /\ resetting
  /\ target' = qpos /\ resetting' = FALSE
  /\ moved' = 0 /\ overrun' = raced
  /\ UNCHANGED <<loop, stepsDone, jobs, inStep, value, renderer, qpos, held, raced,
                 frameVars, simCloser, early>>

Yields ==
  /\ running /\ frameQueue # <<>>
  /\ yielded' = Append(yielded, Head(frameQueue)) /\ frameQueue' = Tail(frameQueue)
  /\ UNCHANGED <<loop, stepsDone, jobs, inStep, value, renderer, jointVars, rendered, simCloser, early>>

\* close() cancels the loop's task, if there is one.
SimClose ==
  /\ simCloser = "open"
  /\ simCloser' = IF loop \in {"none", "starting", "dead"} THEN "closed" ELSE "stopping"
  /\ early' = (loop \in {"none", "starting", "spawned"})
  /\ loop' = IF loop = "spawned" THEN "dead" ELSE loop
  /\ UNCHANGED <<stepsDone, jobs, inStep, value, renderer, jointVars, frameVars>>

\* The loop's task is over: the executor takes no more jobs.
SimClosed ==
  /\ simCloser = "stopping" /\ loop \in {"over", "dead"}
  /\ simCloser' = "closed"
  /\ UNCHANGED <<loop, stepsDone, jobs, inStep, value, renderer, jointVars, frameVars, early>>

LoopNext ==
  Connect \/ Connected \/ LoopStarts \/ LoopSubmits \/ LoopResumes \/ LoopEnds \/ LoopOver

ThreadNext ==
  \/ ThreadOpens \/ ThreadFailsToOpen \/ ThreadCloses
  \/ ThreadReads \/ ThreadStores \/ ThreadWrites \/ ThreadSteps \/ ThreadRenders

CallNext == KeyDown \/ KeyUp \/ ResetKey \/ Yields \/ SimClose \/ SimClosed

SimNext ==
  \/ ~resetting /\ (LoopNext \/ CallNext)
  \/ ResetCopies
  \/ ThreadNext

SimSpec == SimInit /\ [][SimNext]_simVars

-----------------------------------------------------------------------------
\* When close() is over the renderer is closed and the thread is idle, unless
\* it came before the loop's task had begun, and the thread never steps or
\* renders without a renderer (visual.py:400-408, 436-446).
SimStops ==
  /\ simCloser = "closed" /\ ~early => renderer # "open" /\ jobs = <<>>
  /\ jobs # <<>> /\ Head(jobs) \in {"step", "render", "stop"} => renderer = "open"

\* After a reset the joint is where the held key has moved it since, unless a
\* step was in flight that had taken its keys before: it may write the position
\* while the reset has not yet copied it, and the reset is lost, or store what
\* it had read.  The lock covers the keys and the reset, not that step's reads
\* and writes (visual.py:186-201, 253-261, 276-287, 297-314).
ResetHomes == ~overrun => target = Clipped(moved)

\* recv() yields frames in the order they were rendered.
FramesInOrder == \A i \in 1 .. Len(yielded) - 1 : yielded[i] < yielded[i + 1]

\* What a client may rely on (visual.py:253-314, 400-446).
SimSound == SimTypeOK /\ SimStops /\ ResetHomes /\ FramesInOrder
=============================================================================
