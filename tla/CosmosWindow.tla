---------------------------- MODULE CosmosWindow ----------------------------
(***************************************************************************)
(* The sliding window of the Cosmos provider (cosmos/cosmos.py): frames    *)
(* are sampled by the clock, kept for `Window` ticks and given together to *)
(* an inference, at most one in flight, every Window - Overlap ticks.      *)
(* clear_overlay empties the window; close() awaits the inference.  That   *)
(* one connection's process_frame runs to its end without an await, and    *)
(* that the shared inference is serialised, is VisionModel's.              *)
(***************************************************************************)
EXTENDS Integers, Sequences, SequencesExt

CONSTANTS
  Window,     \* window_seconds, in ticks of the clock
  Overlap,    \* overlap_seconds
  Interval,   \* 1 / fps
  MaxClock    \* bound on the clock

ASSUME CosmosAssumption ==
  /\ Window \in Nat \ {0} /\ Interval \in Nat \ {0} /\ MaxClock \in Nat
  /\ Overlap \in 0 .. Window - 1

Never == -1
Stride == Window - Overlap

VARIABLES
  clock,
  frames,         \* _frames: their times
  lastCapture,    \* _last_capture
  firstCapture,   \* _first_capture
  lastDispatch,   \* _last_dispatch
  inference,      \* the window in flight, <<>> for none
  waits,          \* the inference waits for the shared model
  closing,        \* close(): "open", "awaiting", "closed"
  awaited,        \* close() waits for the inference in flight
  cleared,        \* history: time of the last clear_overlay
  previous        \* history: the window dispatched before this one

cosmosVars == <<clock, frames, lastCapture, firstCapture, lastDispatch,
                inference, waits, closing, awaited, cleared, previous>>

Time == 0 .. MaxClock

CosmosTypeOK ==
  /\ clock \in Time
  /\ frames \in Seq(Time) /\ inference \in Seq(Time) /\ previous \in Seq(Time)
  /\ {lastCapture, firstCapture, lastDispatch, cleared} \subseteq Time \union {Never}
  /\ waits \in BOOLEAN /\ awaited \in BOOLEAN /\ closing \in {"open", "awaiting", "closed"}

CosmosInit ==
  /\ clock = 0 /\ frames = <<>>
  /\ lastCapture = Never /\ firstCapture = Never /\ lastDispatch = Never
  /\ inference = <<>> /\ waits = FALSE
  /\ closing = "open" /\ awaited = FALSE /\ cleared = Never /\ previous = <<>>

CosmosTick ==
  /\ clock < MaxClock
  /\ clock' = clock + 1
  /\ UNCHANGED <<frames, lastCapture, firstCapture, lastDispatch, inference, waits, closing, awaited, cleared, previous>>

\* Mutant: the frames older than the window are kept.
KeptAll(queue) == queue

\* The frames older than Window ticks are taken from the front; the newest
\* is not one of them.
Kept(queue) ==
  LET first == CHOOSE k \in 1 .. Len(queue) :
                 /\ queue[k] >= clock - Window
                 /\ \A i \in 1 .. k - 1 : queue[i] < clock - Window
  IN SubSeq(queue, first, Len(queue))

\* process_frame: a sampled frame joins the window, which is dispatched when
\* it spans Window ticks, the stride is over and no inference is in flight.
ProcessFrame ==
  LET first == IF firstCapture = Never THEN clock ELSE firstCapture
      window == Kept(Append(frames, clock))
      dispatches == /\ inference = <<>>
                    /\ clock - first >= Window
                    /\ lastDispatch = Never \/ clock - lastDispatch >= Stride
  IN /\ closing # "closed"
     /\ lastCapture = Never \/ clock - lastCapture >= Interval
     /\ lastCapture' = clock /\ firstCapture' = first /\ frames' = window
     /\ IF dispatches
        THEN inference' = window /\ waits' = TRUE /\ lastDispatch' = clock
        ELSE UNCHANGED <<inference, waits, lastDispatch>>
     /\ UNCHANGED <<clock, closing, awaited, cleared, previous>>

\* The shared model is free: _generate runs in the executor.
Generates ==
  /\ inference # <<>> /\ waits
  /\ waits' = FALSE
  /\ UNCHANGED <<clock, frames, lastCapture, firstCapture, lastDispatch, inference, closing, awaited, cleared, previous>>

\* It answered, and the detections are notified, or raised.
InferenceEnds ==
  /\ inference # <<>> /\ ~waits
  /\ inference' = <<>> /\ previous' = inference /\ awaited' = FALSE
  /\ UNCHANGED <<clock, frames, lastCapture, firstCapture, lastDispatch, waits, closing, cleared>>

Cleared ==
  /\ frames' = <<>> /\ cleared' = clock
  /\ firstCapture' = Never /\ lastDispatch' = Never

\* clear_overlay: the input was disabled.
ClearOverlay ==
  /\ closing # "closed"
  /\ Cleared
  /\ UNCHANGED <<clock, lastCapture, inference, waits, closing, awaited, previous>>

CosmosClose ==
  /\ closing = "open"
  /\ closing' = "awaiting" /\ awaited' = (inference # <<>>)
  /\ UNCHANGED <<clock, frames, lastCapture, firstCapture, lastDispatch, inference, waits, cleared, previous>>

\* The inference it found is over.  Another that a frame started meanwhile
\* finds no model and raises.
CosmosClosed ==
  /\ closing = "awaiting" /\ ~awaited
  /\ closing' = "closed"
  /\ Cleared
  /\ UNCHANGED <<clock, lastCapture, inference, waits, awaited, previous>>

CosmosNext ==
  \/ CosmosTick \/ ProcessFrame \/ Generates \/ InferenceEnds
  \/ ClearOverlay \/ CosmosClose \/ CosmosClosed

CosmosSpec == CosmosInit /\ [][CosmosNext]_cosmosVars

-----------------------------------------------------------------------------
\* A window given to the model holds frames of the last Window ticks, sampled
\* at least Interval apart; it was dispatched at least Window ticks after the
\* last clear_overlay, or before it, and Stride ticks after the window before,
\* so that the two share at most Overlap ticks (cosmos.py:114-120, 263-288).
WindowsSound ==
  /\ CosmosTypeOK
  /\ inference # <<>> =>
       /\ Head(inference) >= Last(inference) - Window
       /\ \A i \in 2 .. Len(inference) : inference[i] - inference[i - 1] >= Interval
       /\ cleared = Never \/ cleared >= Last(inference) \/ cleared <= Last(inference) - Window
       /\ previous # <<>> => Last(inference) - Last(previous) >= Stride
=============================================================================
