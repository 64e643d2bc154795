-------------------------- MODULE SessionBroadcast --------------------------
(***************************************************************************)
(* What the audio of a session promises its participants: every frame is   *)
(* addressed to some of them when it is made, a participant's own          *)
(* microphone never to himself; each hears frames addressed to him only,   *)
(* in the order they were made and each at most once.  Frames may be lost. *)
(***************************************************************************)
EXTENDS Naturals, Sequences

CONSTANT Conn   \* participants

VARIABLES
  made,    \* the frames made so far: by whom, of what kind and for whom
  heard    \* heard[c]: the last frame c heard, 0 for none

Frame == [from : Conn, kind : {"mic", "answer"}, to : SUBSET Conn]

BroadcastInit ==
  /\ made = <<>>
  /\ heard = [c \in Conn |-> 0]

Make ==
  /\ \E f \in Frame :
       /\ f.kind = "mic" => f.from \notin f.to
       /\ made' = Append(made, f)
  /\ UNCHANGED heard

Hear(c) ==
  /\ \E f \in heard[c] + 1 .. Len(made) :
       /\ c \in made[f].to
       /\ heard' = [heard EXCEPT ![c] = f]
  /\ UNCHANGED made

BroadcastNext == Make \/ \E c \in Conn : Hear(c)

broadcastVars == <<made, heard>>

BroadcastSpec == BroadcastInit /\ [][BroadcastNext]_broadcastVars
=============================================================================
