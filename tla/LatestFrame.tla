---------------------------- MODULE LatestFrame ----------------------------
(***************************************************************************)
(* What a vision provider promises about the frames it analyses            *)
(* (providers/vision_model.py, the docstring of VisionModel): one frame at *)
(* a time, in the order of arrival, and behind it at most one pending      *)
(* frame, the newest that was picked.                                      *)
(***************************************************************************)
EXTENDS Naturals

VARIABLES
  inFlight,   \* the frames being analysed: none or one
  next,       \* the pending frame, 0 for none
  newest      \* the last frame that arrived

frameVars == <<inFlight, next, newest>>

LatestInit == inFlight = {} /\ next = 0 /\ newest = 0

\* A frame arrives and is passed over, or starts to be analysed, or becomes
\* the pending one, or makes what is pending forgotten.
Arrive ==
  /\ newest' > newest
  /\ \/ UNCHANGED <<inFlight, next>>
     \/ inFlight = {} /\ inFlight' = {newest'} /\ UNCHANGED next
     \/ inFlight # {} /\ next' = newest' /\ UNCHANGED inFlight
     \/ next' = 0 /\ UNCHANGED inFlight

\* The analysis of a frame ends; the pending one is next.
Finish ==
  /\ inFlight # {}
  /\ inFlight' = IF next = 0 THEN {} ELSE {next}
  /\ next' = 0
  /\ UNCHANGED newest

LatestNext == Arrive \/ Finish

LatestSpec == LatestInit /\ [][LatestNext]_frameVars
=============================================================================
