----------------------------- MODULE RtmpServer -----------------------------
(***************************************************************************)
(* One TCP connection of an RTMP publisher (interfaces/rtmp/server.py and  *)
(* session.py) and the connections its publish commands start.  The        *)
(* handler reads one message after the other; the connections run beside   *)
(* it and may end by themselves.                                           *)
(***************************************************************************)
EXTENDS Naturals

CONSTANT MaxPublish   \* bound on the publish commands that start a session

ASSUME PublishAssumption == MaxPublish \in Nat

NoPc == 0        \* None
Pc == 1 .. MaxPublish

VARIABLES
  rtmpHandler,  \* where the handler's task is
  current,      \* self.pc of the handler
  pc,           \* state of each RTMPPeerConnection
  connection,   \* the Connection of each: how far it is
  tracks,       \* peer connections that emitted their track
  replaced,     \* history: the peer connections another publish replaced
  told          \* the last onStatus sent for each publish

rtmpVars == <<rtmpHandler, current, pc, connection, tracks, replaced, told>>

(***************************************************************************)
(*  rtmpHandler  "reading", "callback" (of a publish), "starting" (awaits  *)
(*               on_session), "closing" (run() raised), "ended"            *)
(*  connection   "none", "preparing" (in start_rtmp), "spawned" (_run has  *)
(*               not begun), "running", "gone" (out of the manager)        *)
(***************************************************************************)
RtmpTypeOK ==
  /\ rtmpHandler \in {"reading", "callback", "starting", "closing", "ended"}
  /\ current \in Pc \union {NoPc}
  /\ pc \in [Pc -> {"unused", "open", "closed"}]
  /\ connection \in [Pc -> {"none", "preparing", "spawned", "running", "gone"}]
  /\ tracks \subseteq Pc /\ replaced \subseteq Pc
  /\ told \in [Pc -> {"nothing", "start", "badName"}]

RtmpInit ==
  /\ rtmpHandler = "reading"
  /\ current = NoPc
  /\ pc = [i \in Pc |-> "unused"]
  /\ connection = [i \in Pc |-> "none"]
  /\ tracks = {} /\ replaced = {}
  /\ told = [i \in Pc |-> "nothing"]

-----------------------------------------------------------------------------
(* The handler                                                             *)

\* A publish command: the callback, if there is one, is asked.
Publish ==
  /\ rtmpHandler = "reading"
  /\ \E i \in Pc : pc[i] = "unused"
  /\ rtmpHandler' = "callback"
  /\ UNCHANGED <<current, pc, connection, tracks, replaced, told>>

\* It failed: BadName, and the exception ends the handler.
CallbackFails ==
  /\ rtmpHandler = "callback"
  /\ rtmpHandler' = "closing"
  /\ UNCHANGED <<current, pc, connection, tracks, replaced, told>>

\* A new peer connection takes the place of the handler's, which is not
\* closed; on_session creates a connection and awaits its start.
StartSession ==
  /\ rtmpHandler = "callback"
  /\ \E i \in Pc :
       /\ pc[i] = "unused"
       /\ \A j \in Pc : j < i => pc[j] # "unused"
       /\ pc' = [pc EXCEPT ![i] = "open"]
       /\ connection' = [connection EXCEPT ![i] = "preparing"]
       /\ replaced' = replaced \union ({current} \ {NoPc})
       /\ current' = i
  /\ rtmpHandler' = "starting"
  /\ UNCHANGED <<tracks, told>>

\* start_rtmp returned with _run spawned: Publish.Start.
Publishing ==
  /\ rtmpHandler = "starting"
  /\ connection' = [connection EXCEPT ![current] = "spawned"]
  /\ told' = [told EXCEPT ![current] = "start"]
  /\ rtmpHandler' = "reading"
  /\ UNCHANGED <<current, pc, tracks, replaced>>

\* Mutant: the connection of a failed start is not removed.
PublishFailsKept ==
  /\ rtmpHandler = "starting"
  /\ told' = [told EXCEPT ![current] = "badName"]
  /\ rtmpHandler' = "closing"
  /\ UNCHANGED <<current, pc, connection, tracks, replaced>>

\* It raised: the connection is removed, the publisher gets BadName and the
\* exception ends the handler.
PublishFails ==
  /\ rtmpHandler = "starting"
  /\ connection' = [connection EXCEPT ![current] = "gone"]
  /\ told' = [told EXCEPT ![current] = "badName"]
  /\ rtmpHandler' = "closing"
  /\ UNCHANGED <<current, pc, tracks, replaced>>

\* A decoded frame: the first makes the track.
Media ==
  /\ rtmpHandler = "reading"
  /\ current # NoPc
  /\ pc[current] = "open" /\ current \notin tracks
  /\ tracks' = tracks \union {current}
  /\ UNCHANGED <<rtmpHandler, current, pc, connection, replaced, told>>

\* Mutant: the peer connection is forgotten, not closed.
UnpublishForgets ==
  /\ rtmpHandler = "reading"
  /\ current # NoPc
  /\ current' = NoPc
  /\ UNCHANGED <<rtmpHandler, pc, connection, tracks, replaced, told>>

\* deleteStream, FCUnpublish or closeStream.
Unpublish ==
  /\ rtmpHandler = "reading"
  /\ current # NoPc
  /\ pc' = [pc EXCEPT ![current] = "closed"]
  /\ current' = NoPc
  /\ UNCHANGED <<rtmpHandler, connection, tracks, replaced, told>>

\* The publisher is gone or sent what cannot be read: run() raises.
ReadFails ==
  /\ rtmpHandler = "reading"
  /\ rtmpHandler' = "closing"
  /\ UNCHANGED <<current, pc, connection, tracks, replaced, told>>

\* close() of the handler.
HandlerCloses ==
  /\ rtmpHandler = "closing"
  /\ rtmpHandler' = "ended"
  /\ pc' = IF current = NoPc THEN pc ELSE [pc EXCEPT ![current] = "closed"]
  /\ current' = NoPc
  /\ UNCHANGED <<connection, tracks, replaced, told>>

-----------------------------------------------------------------------------
(* The connections                                                         *)

PublisherRuns(i) ==
  /\ connection[i] = "spawned"
  /\ connection' = [connection EXCEPT ![i] = "running"]
  /\ UNCHANGED <<rtmpHandler, current, pc, tracks, replaced, told>>

\* A DELETE or a script closes the connection, and the peer connection with
\* it; the handler keeps it and reads on.  (A connection closed before its
\* _run began is ConnectionLifecycle's.)
PublisherCloses(i) ==
  /\ connection[i] = "running"
  /\ pc' = [pc EXCEPT ![i] = "closed"]
  /\ UNCHANGED <<rtmpHandler, current, connection, tracks, replaced, told>>

\* So does its timeout, when nothing has come for a while.
PublisherTimesOut(i) ==
  /\ connection[i] = "running"
  /\ i # current \/ i \notin tracks
  /\ pc' = [pc EXCEPT ![i] = "closed"]
  /\ UNCHANGED <<rtmpHandler, current, connection, tracks, replaced, told>>

\* _run's loop sees that the peer connection is closed.
PublisherRunEnds(i) ==
  /\ connection[i] = "running"
  /\ pc[i] = "closed"
  /\ connection' = [connection EXCEPT ![i] = "gone"]
  /\ UNCHANGED <<rtmpHandler, current, pc, tracks, replaced, told>>

RtmpNext ==
  \/ Publish \/ CallbackFails \/ StartSession \/ Publishing \/ PublishFails
  \/ Media \/ Unpublish \/ ReadFails \/ HandlerCloses
  \/ \E i \in Pc : PublisherRuns(i) \/ PublisherCloses(i) \/ PublisherTimesOut(i) \/ PublisherRunEnds(i)

RtmpSpec == RtmpInit /\ [][RtmpNext]_rtmpVars

\* The callback has a timeout, starting ends, and the tasks of a connection
\* are scheduled; the timeout monitor watches a running connection.
RtmpFairness ==
  /\ WF_rtmpVars(StartSession \/ CallbackFails)
  /\ WF_rtmpVars(Publishing \/ PublishFails)
  /\ WF_rtmpVars(HandlerCloses)
  /\ \A i \in Pc : /\ WF_rtmpVars(PublisherRuns(i))
                   /\ WF_rtmpVars(PublisherTimesOut(i))
                   /\ WF_rtmpVars(PublisherRunEnds(i))

RtmpLiveSpec == RtmpSpec /\ RtmpFairness

-----------------------------------------------------------------------------
\* The handler never loses a peer connection it opened: each is closed, is
\* the one its messages go to, or was replaced by a second publish command
\* (server.py:246), which no close() of the handler reaches any more.
PublishEnds ==
  /\ RtmpTypeOK
  /\ \A i \in Pc : pc[i] = "open" => i = current \/ i \in replaced

\* When the publisher is gone all its connections leave the manager, those it
\* replaced by their timeout.
PublisherLeaves ==
  \A i \in Pc : rtmpHandler = "ended" ~> connection[i] \in {"none", "gone"}
=============================================================================
