------------------------- MODULE ConnectionLifecycle -------------------------
(***************************************************************************)
(* The life of the proxy's connections, from the request that creates one  *)
(* to the last step of Connection.close() (connection.py), with the        *)
(* ConnectionManager that holds them, the HTTP and transport handlers of   *)
(* proxy.py that start, join, delete and drop them, and the session        *)
(* registry they attach to (SessionRegistry).                              *)
(*                                                                         *)
(* Everything runs on one asyncio event loop.  An action is what one task  *)
(* does between two awaits that can suspend it.  The tasks of a connection *)
(* are the handler that starts it, Connection._run, the timeout monitor,   *)
(* the state-change callbacks of the peer connection, close() calls        *)
(* scheduled with create_task/ensure_future, and the one close() call that *)
(* got past the _closing guard.  con[c] is the state of connection c.      *)
(***************************************************************************)
EXTENDS SessionRegistry, Naturals, FiniteSets

CONSTANTS
  NumModels,  \* bound on the models of one connection
  Kinds,      \* the ways connections of this instance come in
  Faults      \* what may go wrong or be asked for in this instance

LifecycleKinds == {"http", "join", "webtransport", "rtmp"}
LifecycleFaults == {"connectFails", "negotiateFails", "closeFails", "loopFails", "script"}

ASSUME LifecycleAssumption ==
  /\ NumModels \in Nat
  /\ Kinds \subseteq LifecycleKinds
  /\ Faults \subseteq LifecycleFaults

VARIABLES
  con,        \* con[c]: the Connection object and the tasks working on it
  conns,      \* ConnectionManager().connections
  gauge       \* live_proxy_open_connections

vars == <<con, conns, gauge, registryVars>>

Models == 1 .. NumModels

(***************************************************************************)
(*  handler    the coroutine that starts the connection: "idle" (not       *)
(*             created), "joining" (session found, body not yet read),     *)
(*             "connect" (awaiting models[cursor].connect()), "negotiate"  *)
(*             (awaiting the peer connection), "returned", "failed"        *)
(*  target     the session object a join handler holds                     *)
(*  size       length of the model list built by _prepare                  *)
(*  model      "idle", "open" (connected) or "closed", per model           *)
(*  listed     self.models is still that list, and not the [] of close()   *)
(*  receivers  the _run_recv tasks: "none", "running", "cancelled"         *)
(*  hasPc      self.pc is not None                                         *)
(*  link       connectionState of the peer connection                      *)
(*  event      a connectionstatechange callback is scheduled               *)
(*  runner     Connection._run: "none", "spawned", "loop", "closing" (in   *)
(*             its own close()), "done", "died" (AttributeError)           *)
(*  timer      the timeout monitor is running                              *)
(*  requests   close() calls scheduled as tasks and not yet begun          *)
(*  closing    self._closing                                               *)
(*  closer     the effective close(): "none", "pc", "models", "done",      *)
(*             "aborted" (a model's close() raised)                        *)
(*  closeAt    index of the model being closed                             *)
(*  notified   session_closed notifications sent                           *)
(***************************************************************************)
ConnState == [
  kind      : LifecycleKinds,
  handler   : {"idle", "joining", "connect", "negotiate", "returned", "failed"},
  target    : Sess \union {NoSession},
  size      : 0 .. NumModels,
  cursor    : 1 .. NumModels + 1,
  model     : [Models -> {"idle", "open", "closed"}],
  listed    : BOOLEAN,
  receivers : {"none", "running", "cancelled"},
  hasPc     : BOOLEAN,
  link      : {"new", "connected", "failed", "closed"},
  event     : BOOLEAN,
  runner    : {"none", "spawned", "loop", "closing", "done", "died"},
  timer     : BOOLEAN,
  requests  : SUBSET {"timeout", "script"},
  closing   : BOOLEAN,
  closer    : {"none", "pc", "models", "done", "aborted"},
  closeAt   : 1 .. NumModels + 1,
  notified  : 0 .. 1]

NewConnection == [
  kind |-> "http", handler |-> "idle", target |-> NoSession,
  size |-> 0, cursor |-> 1, model |-> [m \in Models |-> "idle"], listed |-> TRUE,
  receivers |-> "none", hasPc |-> FALSE, link |-> "new", event |-> FALSE,
  runner |-> "none", timer |-> FALSE, requests |-> {},
  closing |-> FALSE, closer |-> "none", closeAt |-> 1, notified |-> 0]

Init ==
  /\ con = [c \in Conn |-> NewConnection]
  /\ conns = {}
  /\ gauge = 0
  /\ RegistryInit

Created(c) == con[c].handler \notin {"idle", "joining"}

Becomes(c, r) == con' = [con EXCEPT ![c] = r]

-----------------------------------------------------------------------------
(* ConnectionManager                                                       *)

UpdateGauge == gauge' = Cardinality(conns')

Register(c) == conns' = conns \union {c} /\ UpdateGauge

\* Mutant: one member leaving destroys the session for all.
LeaveDestroys(c) ==
  IF sessionOf[c] = NoSession THEN UNCHANGED registryVars
  ELSE /\ sessions' = sessions \ {sessionOf[c]}
       /\ sessionOf' = [sessionOf EXCEPT ![c] = NoSession]
       /\ members' = [members EXCEPT ![sessionOf[c]] = @ \ {c}]
       /\ UNCHANGED created

LeaveSession(c) ==
  IF sessionOf[c] = NoSession THEN UNCHANGED registryVars ELSE Detach(c)

\* Mutant: the ConnectionInfo stays in the manager.
RemoveKeepsInfo(c) ==
  /\ LeaveSession(c)
  /\ UNCHANGED conns
  /\ UpdateGauge

\* remove_connection: out of its session, out of the manager, gauge updated.
Remove(c) ==
  /\ LeaveSession(c)
  /\ conns' = conns \ {c}
  /\ UpdateGauge

UnchangedManager == UNCHANGED <<conns, gauge>>

-----------------------------------------------------------------------------
(* Starting a connection                                                   *)

\* _prepare's last step and what start_* does before its next await: one
\* receiver task per model still listed, self.pc set, _run spawned.  The
\* WebTransport, WebSocket and RTMP starts have no further await.
Launched(r) ==
  [r EXCEPT !.receivers = IF r.listed /\ r.size > 0 THEN "running" ELSE @,
            !.hasPc = TRUE,
            !.runner = "spawned",
            !.handler = IF r.kind \in {"http", "join"} THEN "negotiate" ELSE "returned"]

\* create_connection in a new session, then _prepare up to the first
\* model.connect() that suspends.
CreateConnection(c, s, k, n) ==
  LET r == [NewConnection EXCEPT !.kind = k, !.size = n, !.handler = "connect",
                                 !.link = IF k = "http" THEN "new" ELSE "connected"] IN
  /\ con[c].handler = "idle"
  /\ k # "join"
  /\ OpenSession(c, s)
  /\ Register(c)
  /\ Becomes(c, IF n = 0 THEN Launched(r) ELSE r)

\* POST /session/{id}/connection: the session is looked up, then the handler
\* awaits the request body.
JoinRequest(c, s) ==
  /\ con[c].handler = "idle"
  /\ "join" \in Kinds
  /\ s \in sessions
  /\ Becomes(c, [NewConnection EXCEPT !.kind = "join", !.handler = "joining", !.target = s])
  /\ UNCHANGED registryVars /\ UnchangedManager

\* The body has arrived: create_connection(session=session) and start_join up
\* to its first await.
JoinAttach(c) ==
  /\ con[c].handler = "joining"
  /\ AttachExisting(c, con[c].target)
  /\ Register(c)
  /\ Becomes(c, Launched(con[c]))

\* One model.connect() has completed.  _prepare iterates the list object it
\* began with, whatever close() did to self.models meanwhile.
ModelConnected(c) ==
  LET r == [con[c] EXCEPT !.model[con[c].cursor] = "open", !.cursor = @ + 1] IN
  /\ con[c].handler = "connect"
  /\ Becomes(c, IF con[c].cursor = con[c].size THEN Launched(r) ELSE r)
  /\ UNCHANGED registryVars /\ UnchangedManager

\* A model.connect() raises: the handler drops the connection.
ModelConnectFails(c) ==
  /\ "connectFails" \in Faults
  /\ con[c].handler = "connect"
  /\ Becomes(c, [con[c] EXCEPT !.handler = "failed"])
  /\ Remove(c)

\* The peer connection accepted the offer and produced the answer.  The
\* response of POST /connection reads connection.session.id, which raises
\* once close() has detached the connection; the join handler does not.
Negotiated(c) ==
  /\ con[c].handler = "negotiate"
  /\ con[c].hasPc
  /\ IF con[c].kind = "http" /\ sessionOf[c] = NoSession
     THEN Becomes(c, [con[c] EXCEPT !.handler = "failed"]) /\ Remove(c)
     ELSE /\ Becomes(c, [con[c] EXCEPT !.handler = "returned"])
          /\ UNCHANGED registryVars /\ UnchangedManager

\* setRemoteDescription/createAnswer/setLocalDescription raises, or self.pc
\* was set to None (or closed) by close() during one of them.
NegotiateFails(c) ==
  /\ con[c].handler = "negotiate"
  /\ "negotiateFails" \in Faults \/ con[c].closing
  /\ Becomes(c, [con[c] EXCEPT !.handler = "failed"])
  /\ Remove(c)

-----------------------------------------------------------------------------
(* Connection.close()                                                      *)

\* close() up to its first await: guard, session detach, (synchronous)
\* teardown script, monitors cancelled, then pc.close() or the first
\* model.close().
Closing(r) ==
  [r EXCEPT !.closing = TRUE,
            !.timer = FALSE,
            !.closer = IF r.hasPc THEN "pc" ELSE "models",
            !.listed = r.hasPc]

\* Mutant: no _closing guard.
CloseUnguarded(c, r) ==
  /\ Becomes(c, Closing(r))
  /\ LeaveSession(c)
  /\ UnchangedManager

\* A close() call on the state r of connection c.
Close(c, r) ==
  /\ IF r.closing
     THEN Becomes(c, r) /\ UNCHANGED registryVars
     ELSE Becomes(c, Closing(r)) /\ LeaveSession(c)
  /\ UnchangedManager

\* The rest of close() once every model is closed: receiver tasks cancelled
\* and awaited, recorder closed.
Closed(r) ==
  [r EXCEPT !.closer = "done",
            !.receivers = IF @ = "running" THEN "cancelled" ELSE @]

\* pc.close() has completed.
PcClosed(c) ==
  LET r == [con[c] EXCEPT !.hasPc = FALSE, !.link = "closed", !.listed = FALSE,
                          !.closer = "models"] IN
  /\ con[c].closer = "pc"
  /\ Becomes(c, IF con[c].size = 0 THEN Closed(r) ELSE r)
  /\ UNCHANGED registryVars /\ UnchangedManager

\* Mutant: the last model is forgotten.
ModelClosedSkipsLast(c) ==
  LET r == [con[c] EXCEPT !.model[con[c].closeAt] = "closed", !.closeAt = @ + 1] IN
  /\ con[c].closer = "models"
  /\ Becomes(c, IF con[c].closeAt + 1 >= con[c].size THEN Closed(r) ELSE r)
  /\ UNCHANGED registryVars /\ UnchangedManager

\* One model.close() has completed.
ModelClosed(c) ==
  LET r == [con[c] EXCEPT !.model[con[c].closeAt] = "closed", !.closeAt = @ + 1] IN
  /\ con[c].closer = "models"
  /\ Becomes(c, IF con[c].closeAt = con[c].size THEN Closed(r) ELSE r)
  /\ UNCHANGED registryVars /\ UnchangedManager

\* A model.close() raises: the rest of close() does not happen.
ModelCloseFails(c) ==
  /\ "closeFails" \in Faults
  /\ con[c].closer = "models"
  /\ Becomes(c, [con[c] EXCEPT !.closer = "aborted"])
  /\ UNCHANGED registryVars /\ UnchangedManager

-----------------------------------------------------------------------------
(* Connection._run                                                         *)

\* Mutant: _run starts no timeout monitor.
RunStartsUnwatched(c) ==
  /\ con[c].runner = "spawned"
  /\ Becomes(c, [con[c] EXCEPT !.runner = IF con[c].hasPc THEN "loop" ELSE "died"])
  /\ UNCHANGED registryVars /\ UnchangedManager

\* First step of _run: monitors started, callbacks registered on self.pc.
RunStarts(c) ==
  /\ con[c].runner = "spawned"
  /\ Becomes(c, IF con[c].hasPc
                THEN [con[c] EXCEPT !.runner = "loop", !.timer = TRUE]
                ELSE [con[c] EXCEPT !.runner = "died"])
  /\ UNCHANGED registryVars /\ UnchangedManager

\* The closed callback: on_connection_closed finds the ConnectionInfo, if it
\* is still in the manager, and _on_connection_closed removes it and sends
\* session_closed.
NotifyClosed(c) ==
  IF c \in conns
  THEN /\ Becomes(c, [con[c] EXCEPT !.runner = "done", !.notified = @ + 1])
       /\ Remove(c)
  ELSE /\ Becomes(c, [con[c] EXCEPT !.runner = "done"])
       /\ UNCHANGED registryVars /\ UnchangedManager

\* Mutant: when somebody else is closing, _run ends without its callback.
RunExitsSilently(c) ==
  /\ con[c].runner = "loop"
  /\ ~con[c].hasPc \/ con[c].link = "closed" \/ "loopFails" \in Faults
  /\ IF con[c].closing
     THEN /\ Becomes(c, [con[c] EXCEPT !.runner = "done"])
          /\ UNCHANGED registryVars /\ UnchangedManager
     ELSE Close(c, [con[c] EXCEPT !.runner = "closing"])

\* The audio loop ends (the peer connection is gone or closed, or a frame
\* raised): _run calls close(), which returns at once when another close()
\* is under way.
RunExits(c) ==
  /\ con[c].runner = "loop"
  /\ ~con[c].hasPc \/ con[c].link = "closed" \/ "loopFails" \in Faults
  /\ IF con[c].closing
     THEN NotifyClosed(c)
     ELSE Close(c, [con[c] EXCEPT !.runner = "closing"])

\* _run's own close() has returned or raised.
RunClosed(c) ==
  /\ con[c].runner = "closing"
  /\ con[c].closer \in {"done", "aborted"}
  /\ NotifyClosed(c)

-----------------------------------------------------------------------------
(* Who asks for a close                                                    *)

\* DELETE /connection/{id}; the id is public through GET /session.
Delete(c) ==
  /\ c \in conns
  /\ ~con[c].closing
  /\ Close(c, con[c])

\* connection.close() in a script: a task.  Scripts belong to connections
\* that were prepared.
ScriptCloses(c) ==
  /\ "script" \in Faults
  /\ Created(c) /\ con[c].kind # "join"
  /\ ~con[c].closing
  /\ Becomes(c, [con[c] EXCEPT !.requests = @ \union {"script"}])
  /\ UNCHANGED registryVars /\ UnchangedManager

\* Mutant: the monitor ends without scheduling close().
TimeoutForgets(c) ==
  /\ con[c].timer
  /\ Becomes(c, [con[c] EXCEPT !.timer = FALSE])
  /\ UNCHANGED registryVars /\ UnchangedManager

\* The timeout monitor found last_message_time too old; it schedules close()
\* and ends.
TimeoutFires(c) ==
  /\ con[c].timer
  /\ Becomes(c, [con[c] EXCEPT !.timer = FALSE, !.requests = @ \union {"timeout"}])
  /\ UNCHANGED registryVars /\ UnchangedManager

\* The timeout monitor sees the peer connection gone or closed, and ends.
TimerStops(c) ==
  /\ con[c].timer
  /\ ~con[c].hasPc \/ con[c].link = "closed"
  /\ Becomes(c, [con[c] EXCEPT !.timer = FALSE])
  /\ UNCHANGED registryVars /\ UnchangedManager

\* A scheduled close() begins.
CloseTask(c) ==
  \E w \in con[c].requests :
    Close(c, [con[c] EXCEPT !.requests = @ \ {w}])

-----------------------------------------------------------------------------
(* The peer                                                                *)

\* The peer connection object lives: self.pc, or the transport's own object
\* while the models of a stream connection connect.
PeerAlive(c) ==
  /\ con[c].link # "closed"
  /\ con[c].hasPc \/ (con[c].kind \in {"webtransport", "rtmp"} /\ con[c].handler = "connect")

\* A state change schedules a callback only when _run has registered one;
\* the WebTransport/WebSocket peer connection does not emit it on close.
Emits(c) == con[c].runner = "loop" /\ con[c].kind # "webtransport"

\* A WebRTC peer connects once it has the answer; a stream peer is connected
\* before its connection is created.
PeerConnects(c) ==
  /\ con[c].link = "new"
  /\ con[c].handler = "returned"
  /\ PeerAlive(c)
  /\ Becomes(c, [con[c] EXCEPT !.link = "connected"])
  /\ UNCHANGED registryVars /\ UnchangedManager

PeerFails(c) ==
  /\ con[c].kind \in {"http", "join"}
  /\ con[c].link \in {"new", "connected"}
  /\ PeerAlive(c)
  /\ Becomes(c, [con[c] EXCEPT !.link = "failed", !.event = @ \/ Emits(c)])
  /\ UNCHANGED registryVars /\ UnchangedManager

PeerCloses(c) ==
  /\ PeerAlive(c)
  /\ Becomes(c, [con[c] EXCEPT !.link = "closed", !.event = @ \/ Emits(c)])
  /\ UNCHANGED registryVars /\ UnchangedManager

\* on_connectionstatechange; the greeting it sends when the state is
\* "connected" changes nothing modelled here.
OnStateChange(c) ==
  LET r == [con[c] EXCEPT !.event = FALSE] IN
  /\ con[c].event
  /\ IF con[c].hasPc /\ con[c].link \in {"failed", "closed"}
     THEN Close(c, r)
     ELSE Becomes(c, r) /\ UNCHANGED registryVars /\ UnchangedManager

-----------------------------------------------------------------------------

Start(c) ==
  \/ \E s \in Sess, k \in Kinds, n \in 0 .. NumModels : CreateConnection(c, s, k, n)
  \/ \E s \in Sess : JoinRequest(c, s)
  \/ JoinAttach(c)
  \/ ModelConnected(c) \/ ModelConnectFails(c)
  \/ Negotiated(c) \/ NegotiateFails(c)

Shut(c) ==
  PcClosed(c) \/ ModelClosed(c) \/ ModelCloseFails(c)

Run(c) ==
  RunStarts(c) \/ RunExits(c) \/ RunClosed(c)

Ask(c) ==
  \/ Delete(c) \/ ScriptCloses(c)
  \/ TimeoutFires(c) \/ TimerStops(c)
  \/ CloseTask(c) \/ OnStateChange(c)

Peer(c) == PeerConnects(c) \/ PeerFails(c) \/ PeerCloses(c)

Next == \E c \in Conn : Start(c) \/ Shut(c) \/ Run(c) \/ Ask(c) \/ Peer(c)

Spec == Init /\ [][Next]_vars

(***************************************************************************)
(* Fairness: the event loop runs every ready task, and a model or a peer   *)
(* connection answers or fails in finite time.  The timeout monitor of a   *)
(* peer that cannot send (never connected, or failed) eventually finds     *)
(* last_message_time too old.  The audio loop of _run sees within a frame  *)
(* time that the peer connection is gone; that a frame raises in it is     *)
(* never owed.  Clients, scripts and peers owe nothing.                    *)
(***************************************************************************)
PeerSeenGone(c) == (~con[c].hasPc \/ con[c].link = "closed") /\ RunExits(c)

SilentTimeout(c) == con[c].link # "connected" /\ TimeoutFires(c)

Fairness == \A c \in Conn :
  /\ WF_vars(ModelConnected(c) \/ ModelConnectFails(c))
  /\ WF_vars(Negotiated(c) \/ NegotiateFails(c))
  /\ WF_vars(RunStarts(c)) /\ WF_vars(PeerSeenGone(c)) /\ WF_vars(RunClosed(c))
  /\ WF_vars(PcClosed(c)) /\ WF_vars(ModelClosed(c) \/ ModelCloseFails(c))
  /\ WF_vars(CloseTask(c)) /\ WF_vars(OnStateChange(c)) /\ WF_vars(SilentTimeout(c))

LiveSpec == Spec /\ Fairness

-----------------------------------------------------------------------------
(* Safety                                                                  *)

TypeOK ==
  /\ con \in [Conn -> ConnState]
  /\ conns \in SUBSET Conn
  /\ gauge \in Nat
  /\ RegistryTypeOK

\* "Every connection is attached to a session" (session.py:18): for as long
\* as the manager knows a connection that is not being closed, it is in one.
RegisteredAttached ==
  \A c \in conns : ~con[c].closing => sessionOf[c] # NoSession

\* A connection that began to close takes no part in its session any more,
\* whichever task closes it, even when its start is still running: no media
\* is delivered to it and its session can be destroyed (connection.py:1007).
ClosingDetached ==
  \A c \in Conn : con[c].closing => sessionOf[c] = NoSession

\* live_proxy_open_connections is the number of connections the manager
\* knows, on every path in and out of it (connection.py:1134, 1155).
GaugeMatches == gauge = Cardinality(conns)

\* Once session_closed has been sent for a connection it is closing, out of
\* the manager and out of its session: a backend that hears of the end does
\* not find the connection alive (proxy.py:330-342).
NotifiedIsGone ==
  \A c \in Conn : con[c].notified > 0 =>
    con[c].closing /\ c \notin conns /\ sessionOf[c] = NoSession

\* The manager, the gauge, the sessions and the connections agree
\* (connection.py:1122-1155, session.py:29-49).
RegistryConsistent ==
  TypeOK /\ RegisteredAttached /\ ClosingDetached /\ GaugeMatches /\ NotifiedIsGone

\* A connection whose receiver tasks were started holds no open model and no
\* receiver task when close() ends, whatever the order of the close requests
\* (connection.py:1034-1043).
ClosedReleasesModels ==
  \A c \in Conn :
    con[c].closer = "done" /\ con[c].receivers # "none" =>
      /\ con[c].receivers = "cancelled"
      /\ \A m \in 1 .. con[c].size : con[c].model[m] = "closed"

\* A connection that runs, is not closing and whose peer has not closed is
\* watched: the timeout monitor runs or its close() is scheduled.  It is what
\* ends a connection whose failure event came before _run registered its
\* callbacks (connection.py:791, 990-999).
Watched ==
  \A c \in Conn :
    con[c].runner = "loop" /\ ~con[c].closing /\ con[c].link # "closed" =>
      con[c].timer \/ "timeout" \in con[c].requests

\* The body of close() runs at most once, however many of DELETE, a script,
\* the timeout, a state change and _run ask for it: an ended close() is never
\* begun again (connection.py:1002-1004).
CloseOnce ==
  [][\A c \in Conn : con[c].closer \in {"done", "aborted"} =>
        con'[c].closer = con[c].closer]_vars

\* The sessions a backend can list are the ones connections are in: both ends
\* of every link agree, no listed session is empty, and the connection that
\* opened a session is in a listed one until it leaves, whoever else joined,
\* failed to start or left in between.  Only a join whose session ended while
\* it awaited the body of its request is in a session that the manager no
\* longer lists (proxy.py:201-220, session.py:33-49).
SessionsListed ==
  /\ MutualAttachment
  /\ NoEmptySession
  /\ \A c \in Conn :
       sessionOf[c] # NoSession /\ con[c].kind # "join" => sessionOf[c] \in sessions

(***************************************************************************)
(* The inductive invariant behind these: what a connection's own state     *)
(* satisfies whatever the others do (Sound), and how its place in the      *)
(* manager and in the registry depends on it (Placed).                     *)
(***************************************************************************)
Unborn(r) == r.handler \in {"idle", "joining"}

Coherent(r) ==
  /\ Unborn(r) => /\ r.size = 0 /\ r.listed /\ ~r.hasPc /\ ~r.event /\ ~r.timer /\ ~r.closing
                  /\ r.receivers = "none" /\ r.runner = "none" /\ r.requests = {}
  /\ r.handler = "connect" => r.cursor <= r.size /\ ~r.hasPc
  /\ ~Unborn(r) /\ ~r.closing /\ ~r.hasPc => r.size >= 1
  /\ r.runner # "none" => ~Unborn(r) /\ r.handler # "connect"
  /\ r.runner # "none" /\ ~r.closing => r.hasPc
  /\ r.closing <=> r.closer # "none"
  /\ r.runner \in {"closing", "done"} => r.closing
  /\ r.notified > 0 => r.runner = "done"

\* How far close() got with the models.
Progress(r) ==
  /\ r.closer \in {"none", "pc"} => r.closeAt = 1
  /\ r.closer = "pc" => r.hasPc
  /\ r.closer = "models" => r.closeAt <= r.size
  /\ r.closer \in {"models", "done", "aborted"} => ~r.listed
  /\ r.receivers # "none" => r.handler \notin {"idle", "joining", "connect"}
  /\ r.receivers # "none" => \A m \in Models : m < r.closeAt => r.model[m] = "closed"
  /\ r.closer = "done" /\ r.receivers # "none" =>
       r.receivers = "cancelled" /\ r.closeAt = r.size + 1

WatchedState(r) ==
  r.runner = "loop" /\ ~r.closing /\ r.link # "closed" => r.timer \/ "timeout" \in r.requests

Sound(r) == Coherent(r) /\ Progress(r) /\ WatchedState(r)

Placed(c) ==
  /\ Unborn(con[c]) => sessionOf[c] = NoSession /\ c \notin conns
  /\ con[c].closing => sessionOf[c] = NoSession
  /\ c \in conns /\ ~con[c].closing => sessionOf[c] # NoSession
  /\ con[c].notified > 0 => c \notin conns

\* Not a property of the code by itself: the strengthening from which the
\* safety properties above follow (connection.py:268-298, 787-1050).
LifecycleInv ==
  /\ TypeOK
  /\ \A c \in Conn : Sound(con[c]) /\ Placed(c)
  /\ IsFiniteSet(conns) /\ gauge = Cardinality(conns)

-----------------------------------------------------------------------------
(* Liveness                                                                *)

Departed(c) == con[c].runner = "done" /\ c \notin conns /\ ~con[c].hasPc

\* A running connection whose peer failed or closed is closed, removed from
\* the manager and its _run ends, also when the event of the failure was lost.
LostPeerDeparts ==
  \A c \in Conn :
    (con[c].runner = "loop" /\ ~con[c].closing /\ con[c].link \in {"failed", "closed"})
      ~> Departed(c)

\* A close() that reaches the peer connection of a running connection ends
\* with the connection out of the manager, whoever called it.
CloseDeparts ==
  \A c \in Conn :
    (con[c].runner = "loop" /\ con[c].closer = "pc") ~> Departed(c)

\* A start that failed in negotiation after _run was spawned leaves nothing
\* behind in the end: the timeout closes it (connection.py:419, 996-998).
FailedStartReleased ==
  \A c \in Conn :
    (con[c].handler = "failed" /\ con[c].runner = "loop" /\ ~con[c].closing)
      ~> (con[c].closer = "done" /\ \A m \in 1 .. con[c].size : con[c].model[m] = "closed")

\* Whichever way it begins, the end of a connection is reached.
EndsDepart == LostPeerDeparts /\ CloseDeparts

-----------------------------------------------------------------------------
(* What the documentation says and the code does not do                    *)

\* DELETE is to "Tear down a connection" (README.md:178): when close() has
\* ended and the start handler too, no model is left connected.
TornDown ==
  \A c \in Conn :
    con[c].closer = "done" /\ con[c].handler \in {"returned", "failed"} =>
      \A m \in Models : con[c].model[m] # "open"
=============================================================================
