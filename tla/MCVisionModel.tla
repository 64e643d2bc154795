-------------------------- MODULE MCVisionModel --------------------------
(***************************************************************************)
(* Instance of VisionModel for TLC: two providers of a class, one of which *)
(* takes every frame and the other every second one.  The output queues of *)
(* two providers do not meet: p2, whose output is disabled before its first*)
(* frame, has none, and contends for the shared model only.                *)
(***************************************************************************)
EXTENDS VisionModel

CONSTANTS p1, p2

Rates == [p \in Provider |-> IF p = p1 THEN 1 ELSE 2]

WithoutOutput(p) ==
  /\ outputOn'[p] => outputOn[p]
  /\ outputOn[p] => count'[p] = count[p]

SharedSpec ==
  /\ Init /\ [][Next /\ WithoutOutput(p2)]_vars
  /\ Fairness
=============================================================================
