----------------------------- MODULE MCRouting -----------------------------
(***************************************************************************)
(* Instances for TLC of what the connections of one session pass to each   *)
(* other.  Audio, video and messages share the session and its members and *)
(* nothing else, so that each behaviour follows one of the three, chosen   *)
(* in the initial state.                                                   *)
(***************************************************************************)
EXTENDS AudioRouting, VideoRouting, MessageRouting, TLC

CONSTANTS c1, c2

VARIABLE plane

\* Either c1 has two models that take messages and Simli and c2 joined without,
\* or c1 has Simli alone and c2 has one.
ModelCounts == {[c \in Conn |-> IF c = c1 THEN 2 * n ELSE 1 - n] : n \in 0 .. 1}

ownAudio == <<made, outputQueue, buffer, learned, track, heard, came, cut>>
ownVideo ==
  <<now, frames, pts, complete, sessionPts, trackPts, videoQueue, firstPts, announced, sent>>
ownMessages == <<readyState, accepted, messages, relaying, tasks, shown, modelHeard>>

RoutingInit ==
  /\ plane \in {"audio", "video", "messages"}
  /\ Init /\ VideoInit /\ MessageInit

RoutingNext ==
  /\ UNCHANGED plane
  /\ \/ plane = "audio" /\ Next /\ UNCHANGED <<ownVideo, ownMessages>>
     \/ plane = "video" /\ VideoNext /\ UNCHANGED <<ownAudio, ownMessages>>
     \/ plane = "messages" /\ MessageNext /\ UNCHANGED <<ownAudio, ownVideo>>

RoutingSpec ==
  RoutingInit /\ [][RoutingNext]_<<plane, attached, ownAudio, ownVideo, ownMessages>>

Symmetry == Permutations(Channel)
=============================================================================
