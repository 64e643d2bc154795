--------------------------- MODULE SessionMembers ---------------------------
(***************************************************************************)
(* What audio, video and messages of a session have in common: the members *)
(* that publish() delivers to (session.py), and the bounded queue in which *)
(* a member's loop or track finds the frames (connection.py).              *)
(***************************************************************************)
EXTENDS Naturals, Sequences

CONSTANTS
  Conn,        \* connections of the session
  MaxQueue     \* MAX_QUEUE_FRAMES

ASSUME QueueAssumption == MaxQueue \in Nat \ {0}

VARIABLE attached     \* Session.connections

\* Mutant: the source is not left out.
ListenersAll(c) == IF c \in attached THEN attached ELSE {}

\* The members publish() delivers to; a connection that left has no session.
Listeners(c) == IF c \in attached THEN attached \ {c} ELSE {}

\* Mutant: a full queue refuses the new frame.
PutDroppingNewest(queue, item) ==
  IF Len(queue) < MaxQueue THEN Append(queue, item) ELSE queue

\* A full queue loses its oldest frame.
PutDroppingOldest(queue, item) ==
  Append(IF Len(queue) < MaxQueue THEN queue ELSE Tail(queue), item)
=============================================================================
