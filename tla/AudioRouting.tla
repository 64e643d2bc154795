---------------------------- MODULE AudioRouting ----------------------------
(***************************************************************************)
(* The audio of the connections of one session (connection.py, session.py):*)
(* microphones and answers of models are published to the other members    *)
(* and wait in bounded queues; each connection's loop cuts them into       *)
(* pieces of AUDIO_PTIME for its sending track, from which the peer        *)
(* connection takes them; an interruption empties the queues.              *)
(*                                                                         *)
(* A frame is its position in made; Piece units of sound make a piece.     *)
(* What the models do with the frames handed to them is theirs; that a     *)
(* connection's loop and track end with its peer connection is not an      *)
(* action, as any of them may take no further step.                        *)
(***************************************************************************)
EXTENDS SessionMembers, FiniteSets, SequencesExt

CONSTANTS
  Avatar,      \* those with a model that has send_audio
  Sending,     \* those with a send_audio_track
  Piece,       \* units in AUDIO_PTIME
  Lengths,     \* units a frame may hold
  MaxFrames    \* bound on the frames made

ASSUME AudioAssumption ==
  /\ Avatar \subseteq Conn /\ Sending \subseteq Conn
  /\ Piece \in Nat \ {0}
  /\ Lengths \subseteq Nat \ {0} /\ MaxFrames \in Nat

VARIABLES
  made,         \* the frames made so far
  outputQueue,  \* output_audio_queue of each connection
  buffer,       \* buffer of run_send_audio_track: the frame of each unit
  learned,      \* connections whose loop knows the sample rate
  track,        \* send_audio_track.queue: the pieces, <<>> for silence
  heard,        \* last frame the peer was sent a piece of
  came,         \* history: frames that came since the queue was last read
  cut           \* history: the frames made before the last interruption

vars == <<attached, made, outputQueue, buffer, learned, track, heard, came, cut>>

FrameIds == 1 .. MaxFrames

TypeOK ==
  /\ attached \subseteq Conn /\ learned \subseteq Conn
  /\ Len(made) <= MaxFrames
  /\ made \in Seq([from : Conn, kind : {"mic", "answer"}, to : SUBSET Conn, len : Lengths])
  /\ outputQueue \in [Conn -> Seq(FrameIds)]
  /\ buffer \in [Conn -> Seq(FrameIds)]
  /\ track \in [Conn -> Seq(Seq(FrameIds))]
  /\ heard \in [Conn -> 0 .. MaxFrames]
  /\ came \in [Conn -> SUBSET FrameIds]
  /\ cut \in [Conn -> 0 .. MaxFrames]

Init ==
  /\ attached = Conn
  /\ learned = {}
  /\ made = <<>>
  /\ outputQueue = [c \in Conn |-> <<>>]
  /\ buffer = [c \in Conn |-> <<>>]
  /\ track = [c \in Conn |-> <<>>]
  /\ heard = [c \in Conn |-> 0]
  /\ came = [c \in Conn |-> {}]
  /\ cut = [c \in Conn |-> 0]

\* Frame f is queued at the listeners and at `own`.
Queued(f, listeners, own) ==
  /\ outputQueue' = [c \in Conn |-> IF c \in listeners \union own
                                    THEN PutDroppingOldest(outputQueue[c], f)
                                    ELSE outputQueue[c]]
  /\ came' = [c \in Conn |-> IF c \in listeners \union own THEN came[c] \union {f} ELSE came[c]]

Makes(c, kind, to, len) ==
  /\ Len(made) < MaxFrames
  /\ made' = Append(made, [from |-> c, kind |-> kind, to |-> to, len |-> len])

-----------------------------------------------------------------------------
(* Frames come                                                             *)

\* A frame of the microphone is published if somebody listens.
Microphone(c, len) ==
  LET f == Len(made) + 1 IN
  /\ c \in Sending
  /\ Listeners(c) # {}
  /\ Makes(c, "mic", Listeners(c), len)
  /\ Queued(f, Listeners(c), {})
  /\ UNCHANGED <<attached, buffer, learned, track, heard, cut>>

\* A frame of a model's answer: of the avatar where there is one, as it speaks
\* the other models' answers.  It is queued like any other, since avatar_model
\* is looked up among the models but this one and so is never the model itself.
Answer(c, len) ==
  LET f == Len(made) + 1 IN
  /\ Makes(c, "answer", Listeners(c) \union {c}, len)
  /\ Queued(f, Listeners(c), {c})
  /\ UNCHANGED <<attached, buffer, learned, track, heard, cut>>

-----------------------------------------------------------------------------
(* Frames go                                                               *)

\* A round of the loop takes a frame when a piece is not there.
Refills(c) == Len(buffer[c]) < Piece /\ outputQueue[c] # <<>>

\* One round of run_send_audio_track: a piece, or silence, for the track, which
\* gets nothing in a connection with an avatar.
SendPiece(c) ==
  LET taken == IF Refills(c) THEN <<Head(outputQueue[c])>> ELSE <<>>
      units == IF taken = <<>> THEN buffer[c]
               ELSE buffer[c] \o [i \in 1 .. made[taken[1]].len |-> taken[1]]
      whole == Len(units) >= Piece
  IN /\ c \in learned \/ taken # <<>>
     /\ learned' = learned \union {c}
     /\ outputQueue' = [outputQueue EXCEPT ![c] = IF taken = <<>> THEN @ ELSE Tail(@)]
     /\ came' = [came EXCEPT ![c] = IF taken = <<>> THEN @ ELSE {f \in @ : f > taken[1]}]
     /\ buffer' = [buffer EXCEPT ![c] = IF whole THEN SubSeq(units, Piece + 1, Len(units))
                                        ELSE units]
     /\ track' = IF c \in Sending \ Avatar
                 THEN [track EXCEPT ![c] =
                         PutDroppingOldest(@, IF whole THEN SubSeq(units, 1, Piece) ELSE <<>>)]
                 ELSE track
     /\ UNCHANGED <<attached, made, heard, cut>>

\* SendingTrack.recv: the peer connection takes a piece, also while closing.
PeerTakes(c) ==
  /\ track[c] # <<>>
  /\ track' = [track EXCEPT ![c] = Tail(@)]
  /\ heard' = IF Head(track[c]) = <<>> THEN heard
              ELSE [heard EXCEPT ![c] = Last(Head(track[c]))]
  /\ UNCHANGED <<attached, made, outputQueue, buffer, learned, came, cut>>

\* Mutant: the track's queue keeps its pieces.
InterruptedKeepsTrack(c) ==
  /\ outputQueue' = [outputQueue EXCEPT ![c] = <<>>]
  /\ came' = [came EXCEPT ![c] = {}]
  /\ cut' = [cut EXCEPT ![c] = Len(made)]
  /\ UNCHANGED <<attached, made, buffer, learned, track, heard>>

\* A model was interrupted: both queues are emptied, what the loop has in
\* hand is not.
Interrupted(c) ==
  /\ outputQueue' = [outputQueue EXCEPT ![c] = <<>>]
  /\ track' = [track EXCEPT ![c] = <<>>]
  /\ came' = [came EXCEPT ![c] = {}]
  /\ cut' = [cut EXCEPT ![c] = Len(made)]
  /\ UNCHANGED <<attached, made, buffer, learned, heard>>

\* close() detaches; the models may answer for a while.
Leave(c) ==
  /\ c \in attached
  /\ attached' = attached \ {c}
  /\ UNCHANGED <<made, outputQueue, buffer, learned, track, heard, came, cut>>

Next ==
  \E c \in Conn :
    \/ \E len \in Lengths : Microphone(c, len) \/ Answer(c, len)
    \/ SendPiece(c) \/ PeerTakes(c)
    \/ Interrupted(c)
    \/ Leave(c)

Spec == Init /\ [][Next]_vars

-----------------------------------------------------------------------------
\* The queues of connection.py:192-201 lose a frame only to MaxQueue newer
\* ones: what came since the queue was last read and is not in it is older
\* than all of a full queue, which is in the order of arrival.
NewestKept ==
  /\ TypeOK
  /\ \A c \in Conn :
    LET queued == ToSet(outputQueue[c]) IN
    /\ queued \subseteq came[c]
    /\ \A i, j \in DOMAIN outputQueue[c] : i < j => outputQueue[c][i] < outputQueue[c][j]
    /\ \A f \in came[c] \ queued :
         Len(outputQueue[c]) = MaxQueue /\ \A g \in queued : f < g

\* Where pieces hold a unit of the first n frames.
UnitsUpTo(pieces, n) ==
  UNION {{<<d, i>> : i \in {j \in DOMAIN pieces[d] : pieces[d][j] <= n}} : d \in DOMAIN pieces}

\* Units of sound of frames that had come when c was last interrupted, in the
\* track and behind it in the buffer.
StaleUnits(c) == Cardinality(UnitsUpTo(Append(track[c], buffer[c]), cut[c]))

\* After an interruption (connection.py:697-709) the client hears of what had
\* come before only what the loop has in hand, less than a piece and a frame,
\* however the loop, the queues and new answers interleave.
InterruptedSoon ==
  \A c \in Conn :
    /\ StaleUnits(c) > 0 => \E len \in Lengths : StaleUnits(c) < Piece + len
    /\ \A i \in DOMAIN outputQueue[c] : outputQueue[c][i] > cut[c]

\* The frames as SessionBroadcast knows them.
Announced(frames) ==
  [f \in DOMAIN frames |->
     [from |-> frames[f].from, kind |-> frames[f].kind, to |-> frames[f].to]]

Broadcast == INSTANCE SessionBroadcast WITH made <- Announced(made)

\* The queues, the loop and the track implement SessionBroadcast: nobody hears
\* his own microphone, a frame twice, or frames out of order.
ImplementsBroadcast == Broadcast!BroadcastSpec
=============================================================================
