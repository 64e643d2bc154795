--------------------- MODULE ConnectionLifecycle_proofs ---------------------
(***************************************************************************)
(* Proofs about the life of connections, for any number of connections,    *)
(* sessions and models, every kind of transport and every fault.           *)
(*                                                                         *)
(* The inductive invariant, LifecycleInv, has a part about one             *)
(* connection's own state (Sound) and a part about its place in the        *)
(* manager and in the registry (Placed).  A step of a connection touches   *)
(* the shared state in one of four ways, each with a lemma: not at all     *)
(* (QuietStep), leaving its session (LeftStep), leaving the manager too    *)
(* (RemovedStep), or entering both (EnteredStep).  What remains for each   *)
(* action is that the connection's new state is sound.                     *)
(***************************************************************************)
EXTENDS ConnectionLifecycle, FiniteSetTheorems, TLAPS

-----------------------------------------------------------------------------
(* The session registry, for any sets of connections and of session ids    *)

(* Attaching an unattached connection to a session keeps both ends of every
   link in agreement (session.py:29-33). *)
LEMMA AttachMutual ==
  ASSUME RegistryTypeOK, MutualAttachment,
         NEW c \in Conn, NEW s \in Sess, sessionOf[c] = NoSession, Attach(c, s)
  PROVE  /\ members' \in [Sess -> SUBSET Conn]
         /\ sessionOf' \in [Conn -> Sess \union {NoSession}]
         /\ MutualAttachment'
  BY NoSessionAssumption DEF RegistryTypeOK, MutualAttachment, Attach

(* The initial registry, and every operation on it, satisfies the invariant:
   both ends of a link agree and no registered session is empty
   (session.py:29-49). *)
LEMMA RegistryInductive ==
  /\ RegistryInit => RegistryInv
  /\ RegistryInv /\ [RegistryNext]_registryVars => RegistryInv'
<1>1. RegistryInit => RegistryInv
  BY NoSessionAssumption
  DEF RegistryInit, RegistryInv, RegistryTypeOK, MutualAttachment, NoEmptySession
<1>2. ASSUME RegistryInv, [RegistryNext]_registryVars
      PROVE  RegistryInv'
  <2> USE <1>2 DEF RegistryInv
  <2>1. ASSUME NEW c \in Conn, NEW s \in Sess, OpenSession(c, s)
        PROVE  RegistryInv'
    <3>1. MutualAttachment' /\ RegistryTypeOK'
      BY <2>1, AttachMutual DEF OpenSession, RegistryTypeOK
    <3>2. NoEmptySession'
      BY <2>1 DEF OpenSession, Attach, NoEmptySession, RegistryTypeOK
    <3>3. QED BY <3>1, <3>2
  <2>2. ASSUME NEW c \in Conn, NEW s \in Sess, AttachExisting(c, s)
        PROVE  RegistryInv'
    <3>1. MutualAttachment' /\ RegistryTypeOK'
      BY <2>2, AttachMutual DEF AttachExisting, RegistryTypeOK
    <3>2. NoEmptySession'
      BY <2>2 DEF AttachExisting, Attach, NoEmptySession, RegistryTypeOK
    <3>3. QED BY <3>1, <3>2
  <2>3. ASSUME NEW c \in Conn, Detach(c)
        PROVE  RegistryInv'
    <3>1. RegistryTypeOK'
      BY <2>3 DEF Detach, RegistryTypeOK
    <3>2. MutualAttachment'
      BY <2>3, NoSessionAssumption DEF Detach, RegistryTypeOK, MutualAttachment
    <3>3. NoEmptySession'
      BY <2>3, NoSessionAssumption DEF Detach, RegistryTypeOK, NoEmptySession
    <3>4. QED BY <3>1, <3>2, <3>3
  <2>4. CASE UNCHANGED registryVars
    BY <2>4 DEF registryVars, RegistryTypeOK, MutualAttachment, NoEmptySession
  <2>5. QED BY <2>1, <2>2, <2>3, <2>4 DEF RegistryNext
<1>3. QED BY <1>1, <1>2

(* The registry's types, the agreement of Connection.session with
   Session.connections, and the absence of empty registered sessions hold in
   every reachable state (session.py:29-49, 77-90). *)
THEOREM RegistryCorrect == RegistrySpec => []RegistryInv
  BY RegistryInductive, PTL DEF RegistrySpec

(* A session leaves the manager only without members, and does not come back
   (session.py:48-49). *)
THEOREM DestroyedEmpty == RegistrySpec => DestroyedOnlyWhenEmpty
<1> DEFINE DestroyStep ==
      \A s \in Sess :
        /\ (s \in sessions /\ s \notin sessions') => members'[s] = {}
        /\ (s \in created /\ s \notin sessions) => s \notin sessions'
<1>1. ASSUME RegistryInv, [RegistryNext]_registryVars
      PROVE  [DestroyStep]_registryVars
  <2> SUFFICES ASSUME RegistryNext PROVE DestroyStep
    BY <1>1
  <2> USE <1>1 DEF RegistryInv, RegistryTypeOK
  <2>1. ASSUME NEW c \in Conn, NEW s \in Sess, OpenSession(c, s) \/ AttachExisting(c, s)
        PROVE  DestroyStep
    BY <2>1 DEF OpenSession, AttachExisting
  <2>2. ASSUME NEW c \in Conn, Detach(c)
        PROVE  DestroyStep
    BY <2>2 DEF Detach
  <2>3. QED BY <2>1, <2>2 DEF RegistryNext
<1>2. QED
  BY <1>1, RegistryCorrect, PTL DEF RegistrySpec, DestroyedOnlyWhenEmpty

-----------------------------------------------------------------------------
(* The life of connections                                                 *)

(* ---------------------------------------------------------------- types *)

LEMMA BecomesType ==
  ASSUME con \in [Conn -> ConnState], NEW c \in Conn, NEW r \in ConnState, Becomes(c, r)
  PROVE  /\ con' \in [Conn -> ConnState]
         /\ con'[c] = r
         /\ \A d \in Conn : d # c => con'[d] = con[d]
  BY DEF Becomes

(* What the launch of a connection's tasks changes, field by field
   (connection.py:361-363, 403-419, 465-472, 493-497). *)
LEMMA LaunchedFields ==
  ASSUME NEW r \in ConnState
  PROVE  /\ Launched(r) \in ConnState
         /\ Launched(r).receivers = IF r.listed /\ r.size > 0 THEN "running" ELSE r.receivers
         /\ Launched(r).hasPc /\ Launched(r).runner = "spawned"
         /\ Launched(r).handler \in {"negotiate", "returned"}
         /\ Launched(r).size = r.size /\ Launched(r).cursor = r.cursor
         /\ Launched(r).model = r.model /\ Launched(r).listed = r.listed
         /\ Launched(r).event = r.event /\ Launched(r).timer = r.timer
         /\ Launched(r).requests = r.requests /\ Launched(r).closing = r.closing
         /\ Launched(r).closer = r.closer /\ Launched(r).closeAt = r.closeAt
         /\ Launched(r).notified = r.notified
<1> DEFINE x == IF r.listed /\ r.size > 0 THEN "running" ELSE r.receivers
           h == IF r.kind \in {"http", "join"} THEN "negotiate" ELSE "returned"
<1>1. x \in {"none", "running", "cancelled"} BY DEF ConnState
<1>2. h \in {"negotiate", "returned"} OBVIOUS
<1>3. Launched(r) = [r EXCEPT !.receivers = x, !.hasPc = TRUE, !.runner = "spawned", !.handler = h]
  BY DEF Launched
<1> HIDE DEF h
<1>4. Launched(r).receivers = x BY <1>3 DEF ConnState
<1> HIDE DEF x
<1>5. Launched(r) \in ConnState BY <1>1, <1>2, <1>3 DEF ConnState
<1>6. Launched(r).handler = h BY <1>3 DEF ConnState
<1>7. /\ Launched(r).hasPc /\ Launched(r).runner = "spawned"
      /\ Launched(r).size = r.size /\ Launched(r).cursor = r.cursor
      /\ Launched(r).model = r.model /\ Launched(r).listed = r.listed
      /\ Launched(r).event = r.event /\ Launched(r).timer = r.timer
      /\ Launched(r).requests = r.requests /\ Launched(r).closing = r.closing
      /\ Launched(r).closer = r.closer /\ Launched(r).closeAt = r.closeAt
      /\ Launched(r).notified = r.notified
  BY <1>3 DEF ConnState
<1>8. QED BY <1>2, <1>4, <1>5, <1>6, <1>7 DEF x

(* What close() changes before its first await, field by field
   (connection.py:1004-1036). *)
LEMMA ClosingFields ==
  ASSUME NEW r \in ConnState
  PROVE  /\ Closing(r) \in ConnState
         /\ Closing(r).closing /\ ~Closing(r).timer
         /\ Closing(r).closer = IF r.hasPc THEN "pc" ELSE "models"
         /\ Closing(r).listed = r.hasPc /\ Closing(r).hasPc = r.hasPc
         /\ Closing(r).handler = r.handler /\ Closing(r).receivers = r.receivers
         /\ Closing(r).runner = r.runner /\ Closing(r).requests = r.requests
         /\ Closing(r).size = r.size /\ Closing(r).cursor = r.cursor
         /\ Closing(r).model = r.model /\ Closing(r).closeAt = r.closeAt
         /\ Closing(r).notified = r.notified
<1> DEFINE k == IF r.hasPc THEN "pc" ELSE "models"
<1>1. k \in {"pc", "models"} OBVIOUS
<1>2. Closing(r) = [r EXCEPT !.closing = TRUE, !.timer = FALSE, !.closer = k, !.listed = r.hasPc]
  BY DEF Closing
<1> HIDE DEF k
<1>3. Closing(r) \in ConnState BY <1>1, <1>2 DEF ConnState
<1>4. /\ Closing(r).closing /\ ~Closing(r).timer
      /\ Closing(r).closer = k
      /\ Closing(r).listed = r.hasPc /\ Closing(r).hasPc = r.hasPc
      /\ Closing(r).handler = r.handler /\ Closing(r).receivers = r.receivers
      /\ Closing(r).runner = r.runner /\ Closing(r).requests = r.requests
      /\ Closing(r).size = r.size /\ Closing(r).cursor = r.cursor
      /\ Closing(r).model = r.model /\ Closing(r).closeAt = r.closeAt
      /\ Closing(r).notified = r.notified
  BY <1>2 DEF ConnState
<1>5. QED BY <1>3, <1>4 DEF k

(* What the end of close() changes, field by field (connection.py:1039-1050). *)
LEMMA ClosedFields ==
  ASSUME NEW r \in ConnState
  PROVE  /\ Closed(r) \in ConnState
         /\ Closed(r).closer = "done"
         /\ Closed(r).receivers = IF r.receivers = "running" THEN "cancelled" ELSE r.receivers
         /\ Closed(r).handler = r.handler /\ Closed(r).hasPc = r.hasPc
         /\ Closed(r).listed = r.listed /\ Closed(r).link = r.link
         /\ Closed(r).event = r.event /\ Closed(r).timer = r.timer
         /\ Closed(r).runner = r.runner /\ Closed(r).requests = r.requests
         /\ Closed(r).size = r.size /\ Closed(r).cursor = r.cursor
         /\ Closed(r).model = r.model /\ Closed(r).closeAt = r.closeAt
         /\ Closed(r).closing = r.closing /\ Closed(r).notified = r.notified
<1> DEFINE x == IF r.receivers = "running" THEN "cancelled" ELSE r.receivers
<1>1. x \in {"none", "running", "cancelled"} BY DEF ConnState
<1>2. Closed(r) = [r EXCEPT !.closer = "done", !.receivers = x] BY DEF Closed
<1>3. Closed(r).receivers = x BY <1>2 DEF ConnState
<1> HIDE DEF x
<1>4. Closed(r) \in ConnState BY <1>1, <1>2 DEF ConnState
<1>5. /\ Closed(r).closer = "done"
      /\ Closed(r).handler = r.handler /\ Closed(r).hasPc = r.hasPc
      /\ Closed(r).listed = r.listed /\ Closed(r).link = r.link
      /\ Closed(r).event = r.event /\ Closed(r).timer = r.timer
      /\ Closed(r).runner = r.runner /\ Closed(r).requests = r.requests
      /\ Closed(r).size = r.size /\ Closed(r).cursor = r.cursor
      /\ Closed(r).model = r.model /\ Closed(r).closeAt = r.closeAt
      /\ Closed(r).closing = r.closing /\ Closed(r).notified = r.notified
  BY <1>2 DEF ConnState
<1>6. QED BY <1>3, <1>4, <1>5 DEF x

LEMMA NewConnectionSound == NewConnection \in ConnState /\ Sound(NewConnection)
<1>1. NewConnection \in ConnState
  BY LifecycleAssumption DEF NewConnection, ConnState, LifecycleKinds, Models
<1>2. Sound(NewConnection)
  BY LifecycleAssumption
  DEF NewConnection, Sound, Coherent, Progress, WatchedState, Unborn, Models
<1>3. QED BY <1>1, <1>2

(* -------------------------------------- soundness of one connection's state *)

(* Launching leaves a connection sound that has no task yet and whose close(),
   if it began, began without a peer connection. *)
LEMMA LaunchedSound ==
  ASSUME NEW r \in ConnState,
         r.runner = "none", r.receivers = "none", r.notified = 0,
         r.closing <=> r.closer # "none", r.closer # "pc",
         ~r.closing => r.closeAt = 1,
         r.closer = "models" => r.closeAt <= r.size,
         r.closer \in {"models", "done", "aborted"} => ~r.listed
  PROVE  Sound(Launched(r))
<1>1. Coherent(Launched(r)) BY LaunchedFields DEF Coherent, Unborn
<1>2. Progress(Launched(r)) BY LaunchedFields DEF Progress, Models, ConnState
<1>3. WatchedState(Launched(r)) BY LaunchedFields DEF WatchedState
<1>4. QED BY <1>1, <1>2, <1>3 DEF Sound

(* The states on which a close() can pass the guard. *)
Closable(r) ==
  /\ Progress(r) /\ ~Unborn(r)
  /\ r.closer = "none"
  /\ r.handler = "connect" => r.cursor <= r.size /\ ~r.hasPc
  /\ ~r.hasPc => r.size >= 1
  /\ r.runner # "none" => r.handler # "connect"
  /\ r.runner # "done" /\ r.notified = 0

(* A close() that passes the guard leaves a started connection sound. *)
LEMMA ClosingSound ==
  ASSUME NEW r \in ConnState, Closable(r)
  PROVE  Sound(Closing(r))
<1> USE DEF Closable
<1>1. Coherent(Closing(r)) BY ClosingFields DEF Coherent, Unborn
<1>2. Progress(Closing(r)) BY ClosingFields DEF Progress, Models, ConnState
<1>3. WatchedState(Closing(r)) BY ClosingFields DEF WatchedState
<1>4. QED BY <1>1, <1>2, <1>3 DEF Sound

(* ------------------------- what a step does to the manager and the registry *)

(* The four ways a step of one connection can touch the shared state.  Each
   keeps the invariant if the connection's new state r is sound and agrees
   with its new place. *)

LEMMA QuietStep ==
  ASSUME LifecycleInv, NEW c \in Conn, NEW r \in ConnState, Becomes(c, r),
         UNCHANGED registryVars, UnchangedManager,
         Sound(r), Unborn(r) => Unborn(con[c]),
         r.closing = con[c].closing, r.notified = con[c].notified
  PROVE  LifecycleInv'
<1> USE DEF LifecycleInv, TypeOK
<1>1. UNCHANGED <<conns, gauge, created, sessions, members, sessionOf>>
  BY DEF UnchangedManager, registryVars
<1>2. TypeOK' BY <1>1, BecomesType DEF RegistryTypeOK
<1>3. ASSUME NEW d \in Conn PROVE (Sound(con[d]) /\ Placed(d))'
  BY <1>1, BecomesType DEF Placed
<1>4. QED BY <1>1, <1>2, <1>3

LEMMA LeaveSessionFields ==
  ASSUME RegistryTypeOK, NEW c \in Conn, LeaveSession(c)
  PROVE  /\ RegistryTypeOK'
         /\ sessionOf'[c] = NoSession
         /\ \A d \in Conn : d # c => sessionOf'[d] = sessionOf[d]
<1>1. CASE sessionOf[c] = NoSession
  BY <1>1 DEF LeaveSession, registryVars, RegistryTypeOK
<1>2. CASE sessionOf[c] # NoSession
  <2>1. Detach(c) BY <1>2 DEF LeaveSession
  <2>2. QED BY <2>1 DEF Detach, RegistryTypeOK
<1>3. QED BY <1>1, <1>2

LEMMA LeftStep ==
  ASSUME LifecycleInv, NEW c \in Conn, NEW r \in ConnState, Becomes(c, r),
         LeaveSession(c), UnchangedManager,
         Sound(r), ~Unborn(r), r.closing, r.notified = con[c].notified
  PROVE  LifecycleInv'
<1> USE DEF LifecycleInv, TypeOK
<1>1. UNCHANGED <<conns, gauge>> BY DEF UnchangedManager
<1>2. TypeOK' BY <1>1, BecomesType, LeaveSessionFields
<1>3. ASSUME NEW d \in Conn PROVE (Sound(con[d]) /\ Placed(d))'
  BY <1>1, BecomesType, LeaveSessionFields DEF Placed
<1>4. QED BY <1>1, <1>2, <1>3

LEMMA RemovedStep ==
  ASSUME LifecycleInv, NEW c \in Conn, NEW r \in ConnState, Becomes(c, r),
         Remove(c), Sound(r)
  PROVE  LifecycleInv'
<1> USE DEF LifecycleInv, TypeOK
<1>1. conns' = conns \ {c} /\ gauge' = Cardinality(conns') /\ LeaveSession(c)
  BY DEF Remove, UpdateGauge
<1>2. IsFiniteSet(conns') /\ gauge' \in Nat
  BY <1>1, FS_RemoveElement, FS_CardinalityType
<1>3. TypeOK' BY <1>1, <1>2, BecomesType, LeaveSessionFields
<1>4. ASSUME NEW d \in Conn PROVE (Sound(con[d]) /\ Placed(d))'
  BY <1>1, BecomesType, LeaveSessionFields DEF Placed
<1>5. QED BY <1>1, <1>2, <1>3, <1>4

LEMMA EnteredStep ==
  ASSUME LifecycleInv, NEW c \in Conn, NEW r \in ConnState, Becomes(c, r),
         NEW s \in Sess, OpenSession(c, s) \/ AttachExisting(c, s), Register(c),
         Sound(r), ~Unborn(r), ~r.closing, r.notified = 0
  PROVE  LifecycleInv'
<1> USE DEF LifecycleInv, TypeOK
<1>1. conns' = conns \union {c} /\ gauge' = Cardinality(conns')
  BY DEF Register, UpdateGauge
<1>2. IsFiniteSet(conns') /\ gauge' \in Nat
  BY <1>1, FS_AddElement, FS_CardinalityType
<1>3. /\ RegistryTypeOK'
      /\ sessionOf'[c] = s /\ s # NoSession
      /\ \A d \in Conn : d # c => sessionOf'[d] = sessionOf[d]
  BY NoSessionAssumption DEF RegistryTypeOK, OpenSession, AttachExisting, Attach
<1>4. TypeOK' BY <1>1, <1>2, <1>3, BecomesType
<1>5. ASSUME NEW d \in Conn PROVE (Sound(con[d]) /\ Placed(d))'
  BY <1>1, <1>3, BecomesType DEF Placed
<1>6. QED BY <1>1, <1>2, <1>4, <1>5

(* A close() call, wherever it comes from (connection.py:1001-1036). *)
LEMMA CloseStep ==
  ASSUME LifecycleInv, NEW c \in Conn, NEW r \in ConnState, Close(c, r),
         ~Unborn(r), r.closing = con[c].closing, r.notified = con[c].notified,
         r.closing => Sound(r), ~r.closing => Closable(r)
  PROVE  LifecycleInv'
<1>1. CASE r.closing
  BY <1>1, QuietStep DEF Close
<1>2. CASE ~r.closing
  <2>1. /\ Closing(r) \in ConnState /\ Closing(r).closing
        /\ Closing(r).notified = con[c].notified /\ ~Unborn(Closing(r))
    BY ClosingFields DEF Unborn
  <2>2. Becomes(c, Closing(r)) /\ LeaveSession(c) /\ UnchangedManager
    BY <1>2 DEF Close
  <2>3. QED BY <1>2, <2>1, <2>2, ClosingSound, LeftStep
<1>3. QED BY <1>1, <1>2

(* ------------------------------------------------------ one action at a time *)

(* What the invariant says of one connection. *)
LEMMA InvAt ==
  ASSUME LifecycleInv, NEW c \in Conn
  PROVE  /\ con[c] \in ConnState /\ Sound(con[c]) /\ Placed(c)
         /\ ~Unborn(con[c]) /\ ~con[c].closing => Closable(con[c])
  BY DEF LifecycleInv, TypeOK, Sound, Coherent, Closable, ConnState

LEMMA CreateConnectionInv ==
  ASSUME LifecycleInv, NEW c \in Conn, NEW s \in Sess, NEW k \in Kinds, NEW n \in 0 .. NumModels,
         CreateConnection(c, s, k, n)
  PROVE  LifecycleInv'
<1> DEFINE l == IF k = "http" THEN "new" ELSE "connected"
           r == [NewConnection EXCEPT !.kind = k, !.size = n, !.handler = "connect", !.link = l]
<1>1. l \in {"new", "connected"} OBVIOUS
<1>2. k \in LifecycleKinds BY LifecycleAssumption
<1>3. /\ Becomes(c, IF n = 0 THEN Launched(r) ELSE r)
      /\ OpenSession(c, s) /\ Register(c)
  BY DEF CreateConnection
<1> HIDE DEF l
<1>4. r \in ConnState BY <1>1, <1>2, NewConnectionSound DEF ConnState
<1>5. /\ r.runner = "none" /\ r.receivers = "none" /\ r.notified = 0 /\ ~r.closing
      /\ r.closer = "none" /\ r.closeAt = 1 /\ r.handler = "connect" /\ r.size = n
      /\ r.cursor = 1 /\ ~r.hasPc
  BY DEF NewConnection
<1> HIDE DEF r
<1>6. CASE n = 0
  <2>1. Sound(Launched(r)) BY <1>4, <1>5, LaunchedSound
  <2>2. /\ Launched(r) \in ConnState /\ ~Unborn(Launched(r)) /\ ~Launched(r).closing
        /\ Launched(r).notified = 0
    BY <1>4, <1>5, LaunchedFields DEF Unborn
  <2>3. QED BY <1>3, <1>6, <2>1, <2>2, EnteredStep
<1>7. CASE n # 0
  <2>1. Sound(r) /\ ~Unborn(r)
    BY <1>4, <1>5, <1>7, LifecycleAssumption
    DEF Sound, Coherent, Progress, WatchedState, Unborn
  <2>2. QED BY <1>3, <1>4, <1>5, <1>7, <2>1, EnteredStep
<1>8. QED BY <1>6, <1>7

LEMMA JoinRequestInv ==
  ASSUME LifecycleInv, NEW c \in Conn, NEW s \in Sess, JoinRequest(c, s)
  PROVE  LifecycleInv'
<1> DEFINE r == [NewConnection EXCEPT !.kind = "join", !.handler = "joining", !.target = s]
<1>1. r \in ConnState BY NewConnectionSound DEF ConnState, LifecycleKinds
<1>2. Sound(r) /\ r.closing = FALSE /\ r.notified = 0
  BY LifecycleAssumption
  DEF NewConnection, Sound, Coherent, Progress, WatchedState, Unborn, Models
<1>3. Unborn(con[c]) BY DEF JoinRequest, Unborn
<1>4. con[c].closing = FALSE /\ con[c].notified = 0
  BY <1>3, InvAt DEF Sound, Coherent, ConnState, Unborn
<1>5. Becomes(c, r) /\ UNCHANGED registryVars /\ UnchangedManager
  BY DEF JoinRequest
<1> HIDE DEF r
<1>6. QED BY <1>1, <1>2, <1>3, <1>4, <1>5, QuietStep

LEMMA JoinAttachInv ==
  ASSUME LifecycleInv, NEW c \in Conn, JoinAttach(c)
  PROVE  LifecycleInv'
<1>1. con[c].target \in Sess
  BY NoSessionAssumption, InvAt DEF JoinAttach, AttachExisting, LifecycleInv, TypeOK, RegistryTypeOK, ConnState
<1>2. Unborn(con[c]) BY DEF JoinAttach, Unborn
<1>3. /\ con[c].runner = "none" /\ con[c].receivers = "none" /\ con[c].notified = 0
      /\ ~con[c].closing /\ con[c].closer = "none" /\ con[c].closeAt = 1
  BY <1>2, InvAt DEF Sound, Coherent, Progress, ConnState
<1>4. Sound(Launched(con[c])) BY <1>3, InvAt, LaunchedSound
<1>5. /\ Launched(con[c]) \in ConnState /\ ~Unborn(Launched(con[c]))
      /\ ~Launched(con[c]).closing /\ Launched(con[c]).notified = 0
  BY <1>3, InvAt, LaunchedFields DEF Unborn
<1>6. QED BY <1>1, <1>4, <1>5, EnteredStep DEF JoinAttach

LEMMA ModelConnectedInv ==
  ASSUME LifecycleInv, NEW c \in Conn, ModelConnected(c)
  PROVE  LifecycleInv'
<1> DEFINE r == [con[c] EXCEPT !.model[con[c].cursor] = "open", !.cursor = @ + 1]
<1>0. con[c] \in ConnState /\ Sound(con[c]) BY InvAt
<1>1. con[c].handler = "connect" /\ con[c].cursor <= con[c].size /\ ~con[c].hasPc
  BY <1>0 DEF Sound, Coherent, ModelConnected
<1>2. con[c].runner = "none" /\ con[c].receivers = "none" /\ con[c].notified = 0 /\ con[c].closer # "pc"
  BY <1>0, <1>1 DEF Sound, Coherent, Progress, ConnState
<1> DEFINE mm == [con[c].model EXCEPT ![con[c].cursor] = "open"]
<1>3. r \in ConnState
  <2>1. mm \in [Models -> {"idle", "open", "closed"}]
    BY <1>0 DEF ConnState
  <2>2. con[c].cursor + 1 \in 1 .. NumModels + 1
    BY <1>0, <1>1, LifecycleAssumption DEF ConnState
  <2>3. r = [con[c] EXCEPT !.model = mm, !.cursor = con[c].cursor + 1]
    BY <1>0 DEF ConnState
  <2> HIDE DEF mm, r
  <2>4. QED BY <1>0, <2>1, <2>2, <2>3 DEF ConnState
<1>4. /\ r.runner = "none" /\ r.receivers = "none" /\ r.notified = 0 /\ ~r.hasPc
      /\ r.closing = con[c].closing /\ r.closer = con[c].closer /\ r.closeAt = con[c].closeAt
      /\ r.listed = con[c].listed /\ r.size = con[c].size /\ r.handler = "connect"
      /\ r.cursor = con[c].cursor + 1
  BY <1>0, <1>1, <1>2 DEF ConnState
<1>5. /\ Becomes(c, IF con[c].cursor = con[c].size THEN Launched(r) ELSE r)
      /\ UNCHANGED registryVars /\ UnchangedManager
  BY DEF ModelConnected
<1> HIDE DEF r
<1>6. CASE con[c].cursor = con[c].size
  <2>1. Sound(Launched(r))
    BY <1>0, <1>3, <1>4, <1>2, LaunchedSound DEF Sound, Coherent, Progress
  <2>2. /\ Launched(r) \in ConnState /\ ~Unborn(Launched(r))
        /\ Launched(r).closing = con[c].closing /\ Launched(r).notified = con[c].notified
    BY <1>2, <1>3, <1>4, LaunchedFields DEF Unborn
  <2>3. QED BY <1>5, <1>6, <2>1, <2>2, QuietStep
<1>7. CASE con[c].cursor # con[c].size
  <2>1. con[c].cursor + 1 <= con[c].size
    BY <1>0, <1>1, <1>7, LifecycleAssumption DEF ConnState
  <2>2. Sound(r)
    BY <1>0, <1>1, <1>2, <1>3, <1>4, <2>1 DEF Sound, Coherent, Progress, WatchedState, Unborn
  <2>3. QED BY <1>2, <1>3, <1>4, <1>5, <1>7, <2>2, QuietStep DEF Unborn
<1>8. QED BY <1>6, <1>7

(* A start that fails, at whichever of its awaits, drops the connection
   (proxy.py:162-168). *)
LEMMA FailedStart ==
  ASSUME LifecycleInv, NEW c \in Conn, con[c].handler \in {"connect", "negotiate"},
         Becomes(c, [con[c] EXCEPT !.handler = "failed"]), Remove(c)
  PROVE  LifecycleInv'
<1> DEFINE r == [con[c] EXCEPT !.handler = "failed"]
<1>1. r \in ConnState BY InvAt DEF ConnState
<1>2. Sound(r)
  BY InvAt DEF Sound, Coherent, Progress, WatchedState, Unborn, ConnState
<1>3. QED BY <1>1, <1>2, RemovedStep

LEMMA NegotiatedInv ==
  ASSUME LifecycleInv, NEW c \in Conn, Negotiated(c)
  PROVE  LifecycleInv'
<1>1. CASE con[c].kind = "http" /\ sessionOf[c] = NoSession
  BY <1>1, FailedStart DEF Negotiated
<1>2. CASE ~(con[c].kind = "http" /\ sessionOf[c] = NoSession)
  <2> DEFINE r == [con[c] EXCEPT !.handler = "returned"]
  <2>1. r \in ConnState BY InvAt DEF ConnState
  <2>2. Sound(r)
    BY InvAt DEF Negotiated, Sound, Coherent, Progress, WatchedState, Unborn, ConnState
  <2>3. ~Unborn(r) /\ r.closing = con[c].closing /\ r.notified = con[c].notified
    BY InvAt DEF Unborn, ConnState
  <2>4. QED BY <1>2, <2>1, <2>2, <2>3, QuietStep DEF Negotiated
<1>3. QED BY <1>1, <1>2

LEMMA PcClosedInv ==
  ASSUME LifecycleInv, NEW c \in Conn, PcClosed(c)
  PROVE  LifecycleInv'
<1> DEFINE r == [con[c] EXCEPT !.hasPc = FALSE, !.link = "closed", !.listed = FALSE,
                               !.closer = "models"]
<1>1. con[c] \in ConnState /\ Sound(con[c]) BY InvAt
<1>2. /\ con[c].hasPc /\ con[c].closing /\ con[c].closeAt = 1 /\ ~Unborn(con[c])
      /\ con[c].handler # "connect" /\ con[c].size \in Nat
  BY <1>1, LifecycleAssumption DEF Sound, Coherent, Progress, PcClosed, ConnState
<1>3. r \in ConnState BY <1>1 DEF ConnState
<1>4. /\ r.closer = "models" /\ ~r.hasPc /\ ~r.listed /\ r.closing /\ r.closeAt = 1
      /\ r.handler = con[c].handler /\ r.size = con[c].size /\ r.runner = con[c].runner
      /\ r.receivers = con[c].receivers /\ r.notified = con[c].notified
      /\ r.model = con[c].model
  BY <1>1, <1>2 DEF ConnState
<1>5. /\ Becomes(c, IF con[c].size = 0 THEN Closed(r) ELSE r)
      /\ UNCHANGED registryVars /\ UnchangedManager
  BY DEF PcClosed
<1> HIDE DEF r
<1>6. CASE con[c].size = 0
  <2>1. /\ Closed(r) \in ConnState /\ ~Unborn(Closed(r))
        /\ Closed(r).closing = con[c].closing /\ Closed(r).notified = con[c].notified
    BY <1>2, <1>3, <1>4, ClosedFields DEF Unborn
  <2>2. Coherent(Closed(r))
    BY <1>1, <1>2, <1>3, <1>4, ClosedFields DEF Sound, Coherent, Unborn
  <2>3. Progress(Closed(r))
    BY <1>1, <1>2, <1>3, <1>4, <1>6, ClosedFields DEF Sound, Progress, ConnState, Models
  <2>4. WatchedState(Closed(r))
    BY <1>2, <1>3, <1>4, ClosedFields DEF WatchedState
  <2>5. QED BY <1>5, <1>6, <2>1, <2>2, <2>3, <2>4, QuietStep DEF Sound
<1>7. CASE con[c].size # 0
  <2>1. Sound(r)
    BY <1>1, <1>2, <1>4, <1>7 DEF Sound, Coherent, Progress, WatchedState, Unborn, Models
  <2>2. QED BY <1>2, <1>3, <1>4, <1>5, <1>7, <2>1, QuietStep DEF Unborn
<1>8. QED BY <1>6, <1>7

LEMMA ModelClosedInv ==
  ASSUME LifecycleInv, NEW c \in Conn, ModelClosed(c)
  PROVE  LifecycleInv'
<1> DEFINE mm == [con[c].model EXCEPT ![con[c].closeAt] = "closed"]
           r == [con[c] EXCEPT !.model[con[c].closeAt] = "closed", !.closeAt = @ + 1]
<1>1. con[c] \in ConnState /\ Sound(con[c]) BY InvAt
<1>2. /\ con[c].closer = "models" /\ con[c].closing /\ con[c].closeAt <= con[c].size
      /\ ~con[c].listed /\ ~Unborn(con[c])
  BY <1>1 DEF Sound, Coherent, Progress, ModelClosed
<1>3. /\ con[c].closeAt \in Nat /\ con[c].size \in Nat
      /\ con[c].closeAt + 1 \in 1 .. NumModels + 1 /\ con[c].closeAt \in Models
  BY <1>1, <1>2, LifecycleAssumption DEF ConnState, Models
<1>4. mm \in [Models -> {"idle", "open", "closed"}]
  BY <1>1 DEF ConnState
<1>5. r = [con[c] EXCEPT !.model = mm, !.closeAt = con[c].closeAt + 1]
  BY <1>1 DEF ConnState
<1>6. \A m \in Models : m < con[c].closeAt + 1 =>
        mm[m] = IF m = con[c].closeAt THEN "closed" ELSE con[c].model[m]
  BY <1>1, <1>3 DEF ConnState
<1>7. /\ Becomes(c, IF con[c].closeAt = con[c].size THEN Closed(r) ELSE r)
      /\ UNCHANGED registryVars /\ UnchangedManager
  BY DEF ModelClosed
<1> HIDE DEF mm, r
<1>8. r \in ConnState BY <1>1, <1>3, <1>4, <1>5 DEF ConnState
<1>9. /\ r.closer = "models" /\ r.hasPc = con[c].hasPc /\ ~r.listed /\ r.closing
      /\ r.closeAt = con[c].closeAt + 1 /\ r.model = mm
      /\ r.handler = con[c].handler /\ r.size = con[c].size /\ r.runner = con[c].runner
      /\ r.cursor = con[c].cursor /\ r.receivers = con[c].receivers
      /\ r.notified = con[c].notified
  BY <1>1, <1>2, <1>5 DEF ConnState
<1>10. r.receivers # "none" => \A m \in Models : m < r.closeAt => r.model[m] = "closed"
  <2> SUFFICES ASSUME r.receivers # "none", NEW m \in Models, m < r.closeAt
               PROVE  r.model[m] = "closed"
    OBVIOUS
  <2>1. CASE m = con[c].closeAt BY <1>6, <1>9, <2>1
  <2>2. CASE m # con[c].closeAt
    <3>1. m < con[c].closeAt BY <1>3, <1>9, <2>2 DEF Models
    <3>2. con[c].model[m] = "closed" BY <1>1, <1>9, <3>1 DEF Sound, Progress
    <3>3. QED BY <1>6, <1>9, <2>2, <3>2
  <2>3. QED BY <2>1, <2>2
<1>11. CASE con[c].closeAt = con[c].size
  <2>1. /\ Closed(r) \in ConnState /\ ~Unborn(Closed(r))
        /\ Closed(r).closing = con[c].closing /\ Closed(r).notified = con[c].notified
    BY <1>2, <1>8, <1>9, ClosedFields DEF Unborn
  <2>2. Coherent(Closed(r))
    BY <1>1, <1>2, <1>8, <1>9, ClosedFields DEF Sound, Coherent, Unborn
  <2>3. Closed(r).receivers # "none" => r.receivers # "none"
    BY <1>8, ClosedFields
  <2>4. Progress(Closed(r))
    <3>1. /\ Closed(r).closer = "done" /\ ~Closed(r).listed
          /\ Closed(r).closeAt = Closed(r).size + 1
          /\ Closed(r).receivers \in {"none", "cancelled"}
      BY <1>8, <1>9, <1>11, ClosedFields DEF ConnState
    <3>2. Closed(r).receivers # "none" => Closed(r).handler \notin {"idle", "joining", "connect"}
      BY <1>1, <1>8, <1>9, <2>3, ClosedFields DEF Sound, Progress
    <3>3. Closed(r).receivers # "none" =>
            \A m \in Models : m < Closed(r).closeAt => Closed(r).model[m] = "closed"
      BY <1>8, <1>10, <2>3, ClosedFields
    <3>4. QED BY <3>1, <3>2, <3>3 DEF Progress
  <2>5. WatchedState(Closed(r))
    BY <1>2, <1>8, <1>9, ClosedFields DEF WatchedState
  <2>6. QED BY <1>7, <1>11, <2>1, <2>2, <2>4, <2>5, QuietStep DEF Sound
<1>12. CASE con[c].closeAt # con[c].size
  <2>1. Coherent(r) BY <1>1, <1>2, <1>9 DEF Sound, Coherent, Unborn
  <2>2. Progress(r)
    BY <1>1, <1>2, <1>3, <1>9, <1>10, <1>12 DEF Sound, Progress
  <2>3. WatchedState(r) BY <1>9 DEF WatchedState
  <2>4. QED BY <1>2, <1>7, <1>8, <1>9, <1>12, <2>1, <2>2, <2>3, QuietStep DEF Unborn, Sound
<1>13. QED BY <1>11, <1>12

LEMMA ModelCloseFailsInv ==
  ASSUME LifecycleInv, NEW c \in Conn, ModelCloseFails(c)
  PROVE  LifecycleInv'
<1> DEFINE r == [con[c] EXCEPT !.closer = "aborted"]
<1>1. con[c] \in ConnState /\ Sound(con[c]) BY InvAt
<1>2. r \in ConnState BY <1>1 DEF ConnState
<1>3. Sound(r) /\ (Unborn(r) => Unborn(con[c])) /\ r.closing = con[c].closing
      /\ r.notified = con[c].notified
  BY <1>1 DEF Sound, Coherent, Progress, WatchedState, Unborn, ConnState, ModelCloseFails
<1>4. Becomes(c, r) /\ UNCHANGED registryVars /\ UnchangedManager
  BY DEF ModelCloseFails
<1> HIDE DEF r
<1>5. QED BY <1>2, <1>3, <1>4, QuietStep

LEMMA RunStartsInv ==
  ASSUME LifecycleInv, NEW c \in Conn, RunStarts(c)
  PROVE  LifecycleInv'
<1> DEFINE r == [con[c] EXCEPT !.runner = "loop", !.timer = TRUE]
           q == [con[c] EXCEPT !.runner = "died"]
<1>1. con[c] \in ConnState /\ Sound(con[c]) /\ con[c].runner = "spawned"
  BY InvAt DEF RunStarts
<1>2. r \in ConnState /\ q \in ConnState BY <1>1 DEF ConnState
<1>3. /\ Sound(r) /\ (Unborn(r) => Unborn(con[c])) /\ r.closing = con[c].closing
      /\ r.notified = con[c].notified
  BY <1>1 DEF Sound, Coherent, Progress, WatchedState, Unborn, ConnState
<1>4. /\ Sound(q) /\ (Unborn(q) => Unborn(con[c])) /\ q.closing = con[c].closing
      /\ q.notified = con[c].notified
  BY <1>1 DEF Sound, Coherent, Progress, WatchedState, Unborn, ConnState
<1>5. /\ Becomes(c, IF con[c].hasPc THEN r ELSE q)
      /\ UNCHANGED registryVars /\ UnchangedManager
  BY DEF RunStarts
<1> HIDE DEF r, q
<1>6. CASE con[c].hasPc BY <1>2, <1>3, <1>5, <1>6, QuietStep
<1>7. CASE ~con[c].hasPc BY <1>2, <1>4, <1>5, <1>7, QuietStep
<1>8. QED BY <1>6, <1>7

LEMMA NotifiedType ==
  ASSUME NEW r \in ConnState, NEW n \in 0 .. 1
  PROVE  [r EXCEPT !.runner = "done", !.notified = n] \in ConnState
  BY DEF ConnState

(* The closed callback of a closing connection (connection.py:1099-1108,
   proxy.py:330-342). *)
LEMMA NotifyClosedInv ==
  ASSUME LifecycleInv, NEW c \in Conn, con[c].closing, NotifyClosed(c),
         con[c].runner \in {"loop", "closing"}
  PROVE  LifecycleInv'
<1>1. con[c] \in ConnState /\ Sound(con[c]) /\ Placed(c) BY InvAt
<1>2. con[c].notified \in 0 .. 1 /\ ~Unborn(con[c])
  BY <1>1 DEF ConnState, Sound, Coherent
<1>3. CASE c \in conns
  <2> DEFINE r == [con[c] EXCEPT !.runner = "done", !.notified = @ + 1]
  <2>1. con[c].notified = 0 BY <1>1, <1>2, <1>3 DEF Placed
  <2>2. r = [con[c] EXCEPT !.runner = "done", !.notified = 1]
    BY <1>1, <2>1 DEF ConnState
  <2>3. Becomes(c, r) /\ Remove(c) BY <1>3 DEF NotifyClosed
  <2>4. [con[c] EXCEPT !.runner = "done", !.notified = 1] \in ConnState
    <3>1. 1 \in 0 .. 1 OBVIOUS
    <3>2. QED BY <1>1, <3>1, NotifiedType, Zenon
  <2> HIDE DEF r
  <2>5. Sound(r)
    BY <1>1, <1>2, <2>2 DEF Sound, Coherent, Progress, WatchedState, Unborn, ConnState
  <2>6. QED BY <2>2, <2>3, <2>4, <2>5, RemovedStep
<1>4. CASE c \notin conns
  <2> DEFINE r == [con[c] EXCEPT !.runner = "done"]
  <2>1. r \in ConnState BY <1>1 DEF ConnState
  <2>2. /\ Sound(r) /\ ~Unborn(r) /\ r.closing = con[c].closing
        /\ r.notified = con[c].notified
    BY <1>1, <1>2 DEF Sound, Coherent, Progress, WatchedState, Unborn, ConnState
  <2>3. Becomes(c, r) /\ UNCHANGED registryVars /\ UnchangedManager
    BY <1>4 DEF NotifyClosed
  <2> HIDE DEF r
  <2>4. QED BY <2>1, <2>2, <2>3, QuietStep
<1>5. QED BY <1>3, <1>4

LEMMA RunExitsInv ==
  ASSUME LifecycleInv, NEW c \in Conn, RunExits(c)
  PROVE  LifecycleInv'
<1>1. CASE con[c].closing BY <1>1, NotifyClosedInv DEF RunExits
<1>2. CASE ~con[c].closing
  <2> DEFINE r == [con[c] EXCEPT !.runner = "closing"]
  <2>1. con[c] \in ConnState /\ Sound(con[c]) /\ con[c].runner = "loop"
    BY InvAt DEF RunExits
  <2>2. ~Unborn(con[c]) BY <2>1 DEF Sound, Coherent
  <2>3. Closable(con[c]) BY <1>2, <2>2, InvAt
  <2>4. r \in ConnState BY <2>1 DEF ConnState
  <2>5. /\ ~Unborn(r) /\ r.closing = con[c].closing /\ r.notified = con[c].notified
        /\ Closable(r)
    BY <2>1, <2>2, <2>3 DEF Closable, Progress, Unborn, ConnState
  <2>6. Close(c, r) BY <1>2 DEF RunExits
  <2> HIDE DEF r
  <2>7. QED BY <1>2, <2>4, <2>5, <2>6, CloseStep
<1>3. QED BY <1>1, <1>2

LEMMA RunClosedInv ==
  ASSUME LifecycleInv, NEW c \in Conn, RunClosed(c)
  PROVE  LifecycleInv'
<1>1. con[c].closing BY InvAt DEF RunClosed, Sound, Coherent
<1>2. QED BY <1>1, NotifyClosedInv DEF RunClosed

(* A step that only asks for a close, or hears of one, changes one
   connection's timer, requests, link or event. *)
LEMMA DeleteInv ==
  ASSUME LifecycleInv, NEW c \in Conn, Delete(c)
  PROVE  LifecycleInv'
<1>1. ~Unborn(con[c]) /\ Closable(con[c]) /\ con[c] \in ConnState
  BY InvAt DEF Delete, Placed
<1>2. QED BY <1>1, CloseStep DEF Delete

LEMMA ScriptClosesInv ==
  ASSUME LifecycleInv, NEW c \in Conn, ScriptCloses(c)
  PROVE  LifecycleInv'
<1> DEFINE r == [con[c] EXCEPT !.requests = @ \union {"script"}]
<1>1. con[c] \in ConnState /\ Sound(con[c]) /\ ~Unborn(con[c])
  BY InvAt DEF ScriptCloses, Created, Unborn
<1>2. r \in ConnState BY <1>1 DEF ConnState
<1>3. Sound(r) /\ ~Unborn(r) /\ r.closing = con[c].closing /\ r.notified = con[c].notified
  BY <1>1 DEF Sound, Coherent, Progress, WatchedState, Unborn, ConnState
<1>4. Becomes(c, r) /\ UNCHANGED registryVars /\ UnchangedManager
  BY DEF ScriptCloses
<1> HIDE DEF r
<1>5. QED BY <1>2, <1>3, <1>4, QuietStep

LEMMA TimerInv ==
  ASSUME LifecycleInv, NEW c \in Conn, TimeoutFires(c) \/ TimerStops(c)
  PROVE  LifecycleInv'
<1> DEFINE r == [con[c] EXCEPT !.timer = FALSE, !.requests = @ \union {"timeout"}]
           q == [con[c] EXCEPT !.timer = FALSE]
<1>1. con[c] \in ConnState /\ Sound(con[c]) /\ con[c].timer
  BY InvAt DEF TimeoutFires, TimerStops
<1>2. ~Unborn(con[c]) BY <1>1 DEF Sound, Coherent
<1>3. CASE TimeoutFires(c)
  <2>1. r \in ConnState BY <1>1 DEF ConnState
  <2>2. Sound(r) /\ ~Unborn(r) /\ r.closing = con[c].closing /\ r.notified = con[c].notified
    BY <1>1, <1>2 DEF Sound, Coherent, Progress, WatchedState, Unborn, ConnState
  <2>3. Becomes(c, r) /\ UNCHANGED registryVars /\ UnchangedManager
    BY <1>3 DEF TimeoutFires
  <2> HIDE DEF r
  <2>4. QED BY <2>1, <2>2, <2>3, QuietStep
<1>4. CASE TimerStops(c)
  <2>1. q \in ConnState BY <1>1 DEF ConnState
  <2>2. ~con[c].hasPc \/ con[c].link = "closed" BY <1>4 DEF TimerStops
  <2>3. con[c].runner = "loop" /\ ~con[c].closing => con[c].link = "closed"
    BY <1>1, <2>2 DEF Sound, Coherent
  <2>4. Sound(q) /\ ~Unborn(q) /\ q.closing = con[c].closing /\ q.notified = con[c].notified
    BY <1>1, <1>2, <2>3 DEF Sound, Coherent, Progress, WatchedState, Unborn, ConnState
  <2>5. Becomes(c, q) /\ UNCHANGED registryVars /\ UnchangedManager
    BY <1>4 DEF TimerStops
  <2> HIDE DEF q
  <2>6. QED BY <2>1, <2>4, <2>5, QuietStep
<1>5. QED BY <1>3, <1>4

LEMMA CloseTaskInv ==
  ASSUME LifecycleInv, NEW c \in Conn, CloseTask(c)
  PROVE  LifecycleInv'
<1>1. PICK w \in con[c].requests : Close(c, [con[c] EXCEPT !.requests = @ \ {w}])
  BY DEF CloseTask
<1> DEFINE r == [con[c] EXCEPT !.requests = @ \ {w}]
<1>2. con[c] \in ConnState /\ Sound(con[c]) BY InvAt
<1>3. ~Unborn(con[c]) BY <1>1, <1>2 DEF Sound, Coherent
<1>4. r \in ConnState BY <1>2 DEF ConnState
<1>5. ~Unborn(r) /\ r.closing = con[c].closing /\ r.notified = con[c].notified
  BY <1>2, <1>3 DEF Unborn, ConnState
<1>6. r.closing => Sound(r)
  BY <1>2, <1>3 DEF Sound, Coherent, Progress, WatchedState, Unborn, ConnState
<1>7. ~r.closing => Closable(r)
  <2>1. ~con[c].closing => Closable(con[c]) BY <1>3, InvAt
  <2>2. QED BY <1>2, <2>1 DEF Closable, Progress, Unborn, ConnState
<1>8. Close(c, r) BY <1>1
<1> HIDE DEF r
<1>9. QED BY <1>4, <1>5, <1>6, <1>7, <1>8, CloseStep

LEMMA OnStateChangeInv ==
  ASSUME LifecycleInv, NEW c \in Conn, OnStateChange(c)
  PROVE  LifecycleInv'
<1> DEFINE r == [con[c] EXCEPT !.event = FALSE]
<1>1. con[c] \in ConnState /\ Sound(con[c]) /\ con[c].event
  BY InvAt DEF OnStateChange
<1>2. ~Unborn(con[c]) BY <1>1 DEF Sound, Coherent
<1>3. r \in ConnState BY <1>1 DEF ConnState
<1>4. ~Unborn(r) /\ r.closing = con[c].closing /\ r.notified = con[c].notified
  BY <1>1, <1>2 DEF Unborn, ConnState
<1>5. Sound(r)
  BY <1>1, <1>2 DEF Sound, Coherent, Progress, WatchedState, Unborn, ConnState
<1>6. ~r.closing => Closable(r)
  <2>1. ~con[c].closing => Closable(con[c]) BY <1>2, InvAt
  <2>2. QED BY <1>1, <2>1 DEF Closable, Progress, Unborn, ConnState
<1>7. Close(c, r) \/ (Becomes(c, r) /\ UNCHANGED registryVars /\ UnchangedManager)
  BY DEF OnStateChange
<1> HIDE DEF r
<1>8. QED BY <1>3, <1>4, <1>5, <1>6, <1>7, CloseStep, QuietStep

LEMMA PeerInv ==
  ASSUME LifecycleInv, NEW c \in Conn, Peer(c)
  PROVE  LifecycleInv'
<1>1. con[c] \in ConnState /\ Sound(con[c]) BY InvAt
<1>2. ~Unborn(con[c])
  BY <1>1 DEF Peer, PeerConnects, PeerFails, PeerCloses, PeerAlive, Sound, Coherent, Unborn
<1>3. CASE PeerConnects(c)
  <2> DEFINE r == [con[c] EXCEPT !.link = "connected"]
  <2>1. r \in ConnState BY <1>1 DEF ConnState
  <2>2. Sound(r) /\ ~Unborn(r) /\ r.closing = con[c].closing /\ r.notified = con[c].notified
    BY <1>1, <1>2, <1>3
    DEF Sound, Coherent, Progress, WatchedState, Unborn, ConnState, PeerConnects
  <2>3. Becomes(c, r) /\ UNCHANGED registryVars /\ UnchangedManager
    BY <1>3 DEF PeerConnects
  <2> HIDE DEF r
  <2>4. QED BY <2>1, <2>2, <2>3, QuietStep
<1>4. ASSUME NEW l \in {"failed", "closed"}, con[c].link # "closed",
             Becomes(c, [con[c] EXCEPT !.link = l, !.event = @ \/ Emits(c)]),
             UNCHANGED registryVars, UnchangedManager
      PROVE  LifecycleInv'
  <2> DEFINE e == con[c].event \/ Emits(c)
             r == [con[c] EXCEPT !.link = l, !.event = e]
  <2>1. e \in BOOLEAN BY DEF Emits
  <2>2. Becomes(c, r) BY <1>4
  <2> HIDE DEF e
  <2>3. r \in ConnState BY <1>1, <2>1 DEF ConnState
  <2>4. Sound(r) /\ ~Unborn(r) /\ r.closing = con[c].closing /\ r.notified = con[c].notified
    BY <1>1, <1>2, <1>4 DEF Sound, Coherent, Progress, WatchedState, Unborn, ConnState
  <2> HIDE DEF r
  <2>5. QED BY <1>4, <2>2, <2>3, <2>4, QuietStep
<1>5. CASE PeerFails(c) BY <1>4, <1>5 DEF PeerFails
<1>6. CASE PeerCloses(c) BY <1>4, <1>6 DEF PeerCloses, PeerAlive
<1>7. QED BY <1>3, <1>5, <1>6 DEF Peer

(* ------------------------------------------------------ the whole invariant *)

LEMMA LifecycleInit == Init => LifecycleInv
<1> SUFFICES ASSUME Init PROVE LifecycleInv
  OBVIOUS
<1> USE DEF Init
<1>1. con \in [Conn -> ConnState] /\ \A c \in Conn : con[c] = NewConnection
  BY NewConnectionSound
<1>2. IsFiniteSet(conns) /\ gauge = Cardinality(conns)
  BY FS_EmptySet
<1>3. RegistryTypeOK BY DEF RegistryInit, RegistryTypeOK
<1>4. ASSUME NEW c \in Conn PROVE Sound(con[c]) /\ Placed(c)
  <2>1. Sound(con[c]) BY <1>1, NewConnectionSound
  <2>2. con[c].closing = FALSE /\ con[c].notified = 0 BY <1>1 DEF NewConnection
  <2>3. QED BY <2>1, <2>2 DEF Placed, RegistryInit
<1>5. QED BY <1>1, <1>2, <1>3, <1>4 DEF LifecycleInv, TypeOK

(* Every step of every task preserves the invariant. *)
LEMMA LifecycleInductive == LifecycleInv /\ [Next]_vars => LifecycleInv'
<1> SUFFICES ASSUME LifecycleInv, [Next]_vars PROVE LifecycleInv'
  OBVIOUS
<1>1. CASE UNCHANGED vars
  BY <1>1 DEF vars, registryVars, LifecycleInv, TypeOK, RegistryTypeOK, Placed
<1>2. ASSUME NEW c \in Conn, Start(c) PROVE LifecycleInv'
  <2>1. ASSUME ModelConnectFails(c) PROVE LifecycleInv'
    BY <2>1, FailedStart DEF ModelConnectFails
  <2>2. ASSUME NegotiateFails(c) PROVE LifecycleInv'
    BY <2>2, FailedStart DEF NegotiateFails
  <2>3. QED
    BY <1>2, <2>1, <2>2, CreateConnectionInv, JoinRequestInv, JoinAttachInv,
       ModelConnectedInv, NegotiatedInv DEF Start
<1>3. ASSUME NEW c \in Conn, Shut(c) PROVE LifecycleInv'
  BY <1>3, PcClosedInv, ModelClosedInv, ModelCloseFailsInv DEF Shut
<1>4. ASSUME NEW c \in Conn, Run(c) PROVE LifecycleInv'
  BY <1>4, RunStartsInv, RunExitsInv, RunClosedInv DEF Run
<1>5. ASSUME NEW c \in Conn, Ask(c) PROVE LifecycleInv'
  BY <1>5, DeleteInv, ScriptClosesInv, TimerInv, CloseTaskInv, OnStateChangeInv DEF Ask
<1>6. QED BY <1>1, <1>2, <1>3, <1>4, <1>5, PeerInv DEF Next

THEOREM LifecycleCorrect == Spec => []LifecycleInv
  BY LifecycleInit, LifecycleInductive, PTL DEF Spec

(* For any number of connections, sessions and models and any choice of
   faults: a registered connection that is not closing is in a session
   (session.py:18). *)
THEOREM AlwaysAttached == Spec => []RegisteredAttached
<1>1. LifecycleInv => RegisteredAttached
  BY DEF LifecycleInv, TypeOK, Placed, RegisteredAttached
<1>2. QED BY <1>1, LifecycleCorrect, PTL

(* A connection that began to close is in no session (connection.py:1007). *)
THEOREM AlwaysDetached == Spec => []ClosingDetached
<1>1. LifecycleInv => ClosingDetached BY DEF LifecycleInv, Placed, ClosingDetached
<1>2. QED BY <1>1, LifecycleCorrect, PTL

(* The gauge counts the connections of the manager (connection.py:1134, 1155). *)
THEOREM AlwaysCounted == Spec => []GaugeMatches
<1>1. LifecycleInv => GaugeMatches BY DEF LifecycleInv, GaugeMatches
<1>2. QED BY <1>1, LifecycleCorrect, PTL

(* session_closed is the last a backend hears of a connection
   (proxy.py:330-342). *)
THEOREM NotifiedLast == Spec => []NotifiedIsGone
<1>1. LifecycleInv => NotifiedIsGone
  <2> SUFFICES ASSUME LifecycleInv, NEW c \in Conn, con[c].notified > 0
               PROVE  con[c].closing /\ c \notin conns /\ sessionOf[c] = NoSession
    BY DEF NotifiedIsGone
  <2>1. con[c].closing BY InvAt DEF Sound, Coherent
  <2>2. QED BY <2>1, InvAt DEF Placed
<1>2. QED BY <1>1, LifecycleCorrect, PTL

(* The manager, the gauge, the sessions and the connections agree in every
   state, for any number of each and whatever fails (connection.py:1122-1155,
   session.py:29-49). *)
THEOREM RegistryAgrees == Spec => []RegistryConsistent
<1>1. LifecycleInv => TypeOK BY DEF LifecycleInv
<1>2. QED
  BY <1>1, LifecycleCorrect, AlwaysAttached, AlwaysDetached, AlwaysCounted, NotifiedLast, PTL
     DEF RegistryConsistent

(* An ended close() of a launched connection left no model open and no
   receiver task running (connection.py:1034-1043). *)
THEOREM CloseReleases == Spec => []ClosedReleasesModels
<1>1. LifecycleInv => ClosedReleasesModels
  <2> SUFFICES ASSUME LifecycleInv, NEW c \in Conn,
                      con[c].closer = "done", con[c].receivers # "none"
               PROVE  /\ con[c].receivers = "cancelled"
                      /\ \A m \in 1 .. con[c].size : con[c].model[m] = "closed"
    BY DEF ClosedReleasesModels
  <2>1. con[c] \in ConnState /\ Progress(con[c]) BY InvAt DEF Sound
  <2>2. con[c].receivers = "cancelled" /\ con[c].closeAt = con[c].size + 1
    BY <2>1 DEF Progress
  <2>3. ASSUME NEW m \in 1 .. con[c].size
        PROVE  m \in Models /\ m < con[c].closeAt
    BY <2>1, <2>2, LifecycleAssumption DEF ConnState, Models
  <2>4. QED BY <2>1, <2>2, <2>3 DEF Progress
<1>2. QED BY <1>1, LifecycleCorrect, PTL

(* A running connection that is not closing and whose peer has not closed has
   a timeout monitor or a scheduled close (connection.py:791, 990-999). *)
THEOREM AlwaysWatched == Spec => []Watched
<1>1. LifecycleInv => Watched
  BY DEF LifecycleInv, Sound, WatchedState, Watched
<1>2. QED BY <1>1, LifecycleCorrect, PTL

(* -------------------------------- the sessions, by the registry's operations *)

(* What any step of connection c does to the registry is one of the
   registry's operations, or nothing. *)
LEMMA RegistryStep ==
  ASSUME LifecycleInv, NEW c \in Conn,
         Start(c) \/ Shut(c) \/ Run(c) \/ Ask(c) \/ Peer(c)
  PROVE  [RegistryNext]_registryVars
<1> USE DEF Start, Shut, Run, Ask, Peer, RegistryNext
<1>1. LeaveSession(c) => [RegistryNext]_registryVars
  BY DEF LeaveSession
<1>2. ASSUME NEW r, Close(c, r) PROVE [RegistryNext]_registryVars
  BY <1>1, <1>2 DEF Close
<1>3. Remove(c) => [RegistryNext]_registryVars
  BY <1>1 DEF Remove
<1>4. NotifyClosed(c) => [RegistryNext]_registryVars
  BY <1>3 DEF NotifyClosed
<1>5. CASE Start(c)
  <2>1. JoinAttach(c) => con[c].target \in Sess
    BY NoSessionAssumption, InvAt
    DEF JoinAttach, AttachExisting, LifecycleInv, TypeOK, RegistryTypeOK, ConnState
  <2>2. QED
    BY <1>3, <1>5, <2>1 DEF CreateConnection, JoinRequest, JoinAttach, ModelConnected,
      ModelConnectFails, Negotiated, NegotiateFails
<1>6. CASE Shut(c)
  BY <1>6 DEF PcClosed, ModelClosed, ModelCloseFails
<1>7. CASE Run(c)
  BY <1>2, <1>4, <1>7 DEF RunStarts, RunExits, RunClosed
<1>8. CASE Ask(c)
  BY <1>2, <1>8 DEF Delete, ScriptCloses, TimeoutFires, TimerStops, CloseTask, OnStateChange
<1>9. CASE Peer(c)
  BY <1>9 DEF PeerConnects, PeerFails, PeerCloses
<1>10. QED BY <1>5, <1>6, <1>7, <1>8, <1>9

(* Sessions are entered and left only by the registry's operations, so what is
   proved of the registry holds of the proxy
   (connection.py:268-298, 1007, 1152; session.py:29-90). *)
THEOREM LifecycleSessionsSound == Spec => []RegistryInv
<1>1. Init => RegistryInit BY DEF Init
<1>2. LifecycleInv /\ [Next]_vars => [RegistryNext]_registryVars
  <2>1. ASSUME UNCHANGED vars PROVE UNCHANGED registryVars
    BY <2>1 DEF vars
  <2>2. QED BY <2>1, RegistryStep DEF Next
<1>3. QED
  BY <1>1, <1>2, LifecycleCorrect, RegistryInductive, PTL DEF Spec

(* ----------------------------------------- who is in a session that is gone *)

(* The openers of sessions: a join handler is a join's, and a connection that
   opened its session is in a listed one. *)
Rooted ==
  \A c \in Conn :
    /\ con[c].handler = "joining" => con[c].kind = "join"
    /\ sessionOf[c] # NoSession /\ con[c].kind # "join" => sessionOf[c] \in sessions

(* No step but the ones that bring a connection in changes its kind, makes it
   wait for a request body or does more to the registry than leave. *)
LEMMA KindKept ==
  ASSUME LifecycleInv, NEW c \in Conn,
         \/ ModelConnected(c) \/ ModelConnectFails(c) \/ Negotiated(c) \/ NegotiateFails(c)
         \/ Shut(c) \/ Run(c) \/ Ask(c) \/ Peer(c)
  PROVE  /\ con'[c].kind = con[c].kind
         /\ con'[c].handler = "joining" => con[c].handler = "joining"
         /\ \A d \in Conn : d # c => con'[d] = con[d]
         /\ LeaveSession(c) \/ UNCHANGED registryVars
<1> DEFINE Kept(r) ==
      /\ r.kind = con[c].kind
      /\ r.handler = "joining" => con[c].handler = "joining"
           Goal ==
      /\ con'[c].kind = con[c].kind
      /\ con'[c].handler = "joining" => con[c].handler = "joining"
      /\ \A d \in Conn : d # c => con'[d] = con[d]
      /\ LeaveSession(c) \/ UNCHANGED registryVars
<1>0. con \in [Conn -> ConnState] /\ con[c] \in ConnState
  BY InvAt DEF LifecycleInv, TypeOK
<1>1. ASSUME NEW r, Becomes(c, r), Kept(r), LeaveSession(c) \/ UNCHANGED registryVars
      PROVE  Goal
  BY <1>0, <1>1 DEF Becomes
<1>2. ASSUME NEW r \in ConnState, Close(c, r), Kept(r) PROVE Goal
  <2>1. CASE r.closing BY <1>1, <1>2, <2>1 DEF Close
  <2>2. CASE ~r.closing
    <3>1. Closing(r).kind = r.kind /\ Closing(r).handler = r.handler
      BY <1>2 DEF Closing, ConnState
    <3>2. Becomes(c, Closing(r)) /\ LeaveSession(c) BY <1>2, <2>2 DEF Close
    <3>3. Kept(Closing(r)) BY <1>2, <3>1
    <3>4. QED BY <1>1, <3>2, <3>3
  <2>3. QED BY <2>1, <2>2
<1>3. ASSUME NotifyClosed(c) PROVE Goal
  <2>1. Kept([con[c] EXCEPT !.runner = "done"]) BY <1>0 DEF ConnState
  <2>2. Kept([con[c] EXCEPT !.runner = "done", !.notified = @ + 1]) BY <1>0 DEF ConnState
  <2>3. QED BY <1>1, <1>3, <2>1, <2>2 DEF NotifyClosed, Remove
<1>4. CASE ModelConnected(c)
  <2> DEFINE r == [con[c] EXCEPT !.model[con[c].cursor] = "open", !.cursor = @ + 1]
  <2>1. Kept(r) BY <1>0 DEF ConnState
  <2>2. Kept(Launched(r))
    <3>1. Launched(r).kind = con[c].kind BY <1>0 DEF Launched, ConnState
    <3>2. Launched(r).handler \in {"negotiate", "returned"} BY <1>0 DEF Launched, ConnState
    <3>3. QED BY <3>1, <3>2
  <2>3. (Becomes(c, Launched(r)) \/ Becomes(c, r)) /\ UNCHANGED registryVars
    BY <1>4 DEF ModelConnected
  <2> HIDE DEF r
  <2>4. QED BY <1>1, <2>1, <2>2, <2>3
<1>5. CASE ModelConnectFails(c) \/ Negotiated(c) \/ NegotiateFails(c)
  <2>1. Kept([con[c] EXCEPT !.handler = "failed"]) /\ Kept([con[c] EXCEPT !.handler = "returned"])
    BY <1>0 DEF ConnState
  <2>2. QED BY <1>1, <1>5, <2>1 DEF ModelConnectFails, Negotiated, NegotiateFails, Remove
<1>6. CASE Shut(c)
  <2>1. CASE PcClosed(c)
    <3> DEFINE r == [con[c] EXCEPT !.hasPc = FALSE, !.link = "closed", !.listed = FALSE,
                                   !.closer = "models"]
    <3>1. Kept(r) BY <1>0 DEF ConnState
    <3>2. Kept(Closed(r)) BY <1>0 DEF ConnState, Closed
    <3>3. (Becomes(c, Closed(r)) \/ Becomes(c, r)) /\ UNCHANGED registryVars BY <2>1 DEF PcClosed
    <3> HIDE DEF r
    <3>4. QED BY <1>1, <3>1, <3>2, <3>3
  <2>2. CASE ModelClosed(c)
    <3> DEFINE r == [con[c] EXCEPT !.model[con[c].closeAt] = "closed", !.closeAt = @ + 1]
    <3>1. Kept(r) BY <1>0 DEF ConnState
    <3>2. Kept(Closed(r)) BY <1>0 DEF ConnState, Closed
    <3>3. (Becomes(c, Closed(r)) \/ Becomes(c, r)) /\ UNCHANGED registryVars BY <2>2 DEF ModelClosed
    <3> HIDE DEF r
    <3>4. QED BY <1>1, <3>1, <3>2, <3>3
  <2>3. CASE ModelCloseFails(c)
    <3>1. Kept([con[c] EXCEPT !.closer = "aborted"]) BY <1>0 DEF ConnState
    <3>2. QED BY <1>1, <2>3, <3>1 DEF ModelCloseFails
  <2>4. QED BY <1>6, <2>1, <2>2, <2>3 DEF Shut
<1>7. CASE Run(c)
  <2>1. CASE RunStarts(c)
    <3>1. /\ Kept([con[c] EXCEPT !.runner = "loop", !.timer = TRUE])
          /\ Kept([con[c] EXCEPT !.runner = "died"])
      BY <1>0 DEF ConnState
    <3>2. QED BY <1>1, <2>1, <3>1 DEF RunStarts
  <2>2. CASE RunExits(c)
    <3> DEFINE r == [con[c] EXCEPT !.runner = "closing"]
    <3>1. r \in ConnState /\ Kept(r) BY <1>0 DEF ConnState
    <3>2. NotifyClosed(c) \/ Close(c, r) BY <2>2 DEF RunExits
    <3> HIDE DEF r
    <3>3. QED BY <1>2, <1>3, <3>1, <3>2
  <2>3. CASE RunClosed(c) BY <1>3, <2>3 DEF RunClosed
  <2>4. QED BY <1>7, <2>1, <2>2, <2>3 DEF Run
<1>8. CASE Ask(c)
  <2>1. CASE ScriptCloses(c) \/ TimeoutFires(c) \/ TimerStops(c)
    <3>1. /\ Kept([con[c] EXCEPT !.requests = @ \union {"script"}])
          /\ Kept([con[c] EXCEPT !.timer = FALSE, !.requests = @ \union {"timeout"}])
          /\ Kept([con[c] EXCEPT !.timer = FALSE])
      BY <1>0 DEF ConnState
    <3>2. QED BY <1>1, <2>1, <3>1 DEF ScriptCloses, TimeoutFires, TimerStops
  <2>2. CASE CloseTask(c)
    <3>1. PICK w \in con[c].requests : Close(c, [con[c] EXCEPT !.requests = @ \ {w}])
      BY <2>2 DEF CloseTask
    <3> DEFINE r == [con[c] EXCEPT !.requests = @ \ {w}]
    <3>2. r \in ConnState /\ Kept(r) BY <1>0 DEF ConnState
    <3>3. Close(c, r) BY <3>1
    <3> HIDE DEF r
    <3>4. QED BY <1>2, <3>2, <3>3
  <2>3. CASE OnStateChange(c)
    <3> DEFINE r == [con[c] EXCEPT !.event = FALSE]
    <3>1. r \in ConnState /\ Kept(r) BY <1>0 DEF ConnState
    <3>2. Close(c, r) \/ (Becomes(c, r) /\ UNCHANGED registryVars) BY <2>3 DEF OnStateChange
    <3> HIDE DEF r
    <3>3. QED BY <1>1, <1>2, <3>1, <3>2
  <2>4. CASE Delete(c) BY <1>0, <1>2, <2>4 DEF Delete
  <2>5. QED BY <1>8, <2>1, <2>2, <2>3, <2>4 DEF Ask
<1>9. CASE Peer(c)
  <2>1. ASSUME NEW l \in {"connected", "failed", "closed"}, NEW e \in BOOLEAN,
               Becomes(c, [con[c] EXCEPT !.link = l, !.event = e]), UNCHANGED registryVars
        PROVE  Goal
    <3> DEFINE r == [con[c] EXCEPT !.link = l, !.event = e]
    <3>1. Kept(r) BY <1>0 DEF ConnState
    <3>2. Becomes(c, r) BY <2>1
    <3> HIDE DEF r
    <3>3. QED BY <1>1, <2>1, <3>1, <3>2
  <2>2. Kept([con[c] EXCEPT !.link = "connected"]) BY <1>0 DEF ConnState
  <2>3. (con[c].event \/ Emits(c)) \in BOOLEAN
    BY <1>0 DEF Emits, ConnState
  <2>4. QED BY <1>1, <1>9, <2>1, <2>2, <2>3 DEF Peer, PeerConnects, PeerFails, PeerCloses
<1>10. QED BY <1>4, <1>5, <1>6, <1>7, <1>8, <1>9

(* Leaving a session takes it from nobody else who is in it
   (session.py:38-49). *)
LEMMA LeavingKeepsRooted ==
  ASSUME RegistryInv, Rooted, NEW c \in Conn, LeaveSession(c) \/ UNCHANGED registryVars,
         con'[c].kind = con[c].kind, con'[c].handler = "joining" => con[c].handler = "joining",
         \A d \in Conn : d # c => con'[d] = con[d]
  PROVE  Rooted'
<1> USE DEF Rooted, RegistryInv
<1>1. CASE UNCHANGED registryVars BY <1>1 DEF registryVars
<1>2. CASE Detach(c)
  <2>1. sessionOf'[c] = NoSession /\ \A d \in Conn : d # c => sessionOf'[d] = sessionOf[d]
    BY <1>2 DEF Detach, RegistryTypeOK
  <2>2. ASSUME NEW d \in Conn, d # c, sessionOf[d] \in sessions
        PROVE  sessionOf[d] \in sessions'
    <3>1. d \in members[sessionOf[d]]
      BY <2>2 DEF MutualAttachment, RegistryTypeOK
    <3>2. QED BY <1>2, <2>2, <3>1 DEF Detach
  <2>3. QED BY <2>1, <2>2
<1>3. QED BY <1>1, <1>2 DEF LeaveSession

LEMMA RootedInductive ==
  ASSUME LifecycleInv, RegistryInv, Rooted, [Next]_vars
  PROVE  Rooted'
<1>1. CASE UNCHANGED vars BY <1>1 DEF vars, registryVars, Rooted
<1>2. ASSUME NEW c \in Conn, Start(c) \/ Shut(c) \/ Run(c) \/ Ask(c) \/ Peer(c) PROVE Rooted'
  <2>0. con \in [Conn -> ConnState] /\ con[c] \in ConnState
    BY InvAt DEF LifecycleInv, TypeOK
  <2>1. ASSUME NEW s \in Sess, NEW k \in Kinds, NEW n \in 0 .. NumModels,
               CreateConnection(c, s, k, n)
        PROVE  Rooted'
    <3> DEFINE l == IF k = "http" THEN "new" ELSE "connected"
               r == [NewConnection EXCEPT !.kind = k, !.size = n, !.handler = "connect", !.link = l]
    <3>1. Becomes(c, IF n = 0 THEN Launched(r) ELSE r) BY <2>1 DEF CreateConnection
    <3>2. r.handler # "joining" BY DEF NewConnection
    <3>3. Launched(r).handler # "joining" BY DEF NewConnection, Launched
    <3> HIDE DEF r
    <3>4. con'[c].handler # "joining" /\ \A d \in Conn : d # c => con'[d] = con[d]
      BY <2>0, <3>1, <3>2, <3>3 DEF Becomes
    <3>5. /\ sessionOf'[c] \in sessions' /\ sessions \subseteq sessions'
          /\ \A d \in Conn : d # c => sessionOf'[d] = sessionOf[d]
      BY <2>1 DEF CreateConnection, OpenSession, Attach, RegistryInv, RegistryTypeOK
    <3>6. QED BY <3>4, <3>5 DEF Rooted
  <2>2. ASSUME NEW s \in Sess, JoinRequest(c, s) PROVE Rooted'
    <3> DEFINE r == [NewConnection EXCEPT !.kind = "join", !.handler = "joining", !.target = s]
    <3>1. r.kind = "join" BY DEF NewConnection
    <3>2. Becomes(c, r) /\ UNCHANGED registryVars BY <2>2 DEF JoinRequest
    <3> HIDE DEF r
    <3>3. con'[c].kind = "join" /\ \A d \in Conn : d # c => con'[d] = con[d]
      BY <2>0, <3>1, <3>2 DEF Becomes
    <3>4. QED BY <3>2, <3>3 DEF Rooted, registryVars
  <2>3. ASSUME JoinAttach(c) PROVE Rooted'
    <3>1. con[c].kind = "join" BY <2>3 DEF JoinAttach, Rooted
    <3>2. Launched(con[c]).kind = con[c].kind BY <2>0 DEF Launched, ConnState
    <3>3. con'[c].kind = "join" /\ \A d \in Conn : d # c => con'[d] = con[d]
      BY <2>0, <2>3, <3>1, <3>2 DEF JoinAttach, Becomes
    <3>4. sessions' = sessions /\ \A d \in Conn : d # c => sessionOf'[d] = sessionOf[d]
      BY <2>3 DEF JoinAttach, AttachExisting, Attach, RegistryInv, RegistryTypeOK
    <3>5. QED BY <3>3, <3>4 DEF Rooted
  <2>4. CASE \/ ModelConnected(c) \/ ModelConnectFails(c) \/ Negotiated(c) \/ NegotiateFails(c)
             \/ Shut(c) \/ Run(c) \/ Ask(c) \/ Peer(c)
    <3>1. /\ con'[c].kind = con[c].kind
          /\ con'[c].handler = "joining" => con[c].handler = "joining"
          /\ \A d \in Conn : d # c => con'[d] = con[d]
          /\ LeaveSession(c) \/ UNCHANGED registryVars
      BY <2>4, KindKept
    <3>2. QED BY <3>1, LeavingKeepsRooted
  <2>5. QED BY <1>2, <2>1, <2>2, <2>3, <2>4 DEF Start
<1>3. QED BY <1>1, <1>2 DEF Next

(* In every reachable state of the proxy, for any number of connections and
   whatever fails or joins late: both ends of every link agree, no listed
   session is empty, and only a join is ever in a session the manager forgot
   (proxy.py:201-220, session.py:33-49). *)
THEOREM AlwaysListed == Spec => []SessionsListed
<1>1. Init => Rooted
  BY DEF Init, RegistryInit, Rooted, NewConnection
<1>2. LifecycleInv /\ RegistryInv /\ Rooted /\ [Next]_vars => Rooted'
  BY RootedInductive
<1>3. RegistryInv /\ Rooted => SessionsListed
  BY DEF RegistryInv, Rooted, SessionsListed
<1>4. QED
  BY <1>1, <1>2, <1>3, LifecycleCorrect, LifecycleSessionsSound, PTL DEF Spec

(* ------------------------------------------------------- close() runs once *)

(* Every step is the step of one connection. *)
LEMMA SomeBecomes ==
  ASSUME NEW c \in Conn, Start(c) \/ Shut(c) \/ Run(c) \/ Ask(c) \/ Peer(c)
  PROVE  \E r : Becomes(c, r)
<1>1. ASSUME NEW r PROVE Close(c, r) => \E q : Becomes(c, q)
  BY DEF Close
<1>2. NotifyClosed(c) => \E q : Becomes(c, q)
  BY DEF NotifyClosed
<1>3. CASE Start(c)
  BY <1>3 DEF Start, CreateConnection, JoinRequest, JoinAttach, ModelConnected,
    ModelConnectFails, Negotiated, NegotiateFails
<1>4. CASE Shut(c) BY <1>4 DEF Shut, PcClosed, ModelClosed, ModelCloseFails
<1>5. CASE Run(c) BY <1>1, <1>2, <1>5 DEF Run, RunStarts, RunExits, RunClosed
<1>6. CASE Ask(c)
  BY <1>1, <1>6 DEF Ask, Delete, ScriptCloses, TimeoutFires, TimerStops, CloseTask, OnStateChange
<1>7. CASE Peer(c) BY <1>7 DEF Peer, PeerConnects, PeerFails, PeerCloses
<1>8. QED BY <1>3, <1>4, <1>5, <1>6, <1>7

(* No step of a connection whose close() ended begins it again. *)
LEMMA CloserKept ==
  ASSUME LifecycleInv, NEW c \in Conn, con[c].closer \in {"done", "aborted"},
         Start(c) \/ Shut(c) \/ Run(c) \/ Ask(c) \/ Peer(c)
  PROVE  con'[c].closer = con[c].closer
<1>1. /\ con \in [Conn -> ConnState] /\ con[c] \in ConnState /\ con[c].closing /\ ~Unborn(con[c])
  BY InvAt DEF LifecycleInv, TypeOK, Sound, Coherent
<1>2. ASSUME NEW r, Becomes(c, r), r.closer = con[c].closer
      PROVE  con'[c].closer = con[c].closer
  BY <1>1, <1>2 DEF Becomes
<1>3. ASSUME NotifyClosed(c) PROVE con'[c].closer = con[c].closer
  <2>1. [con[c] EXCEPT !.runner = "done"].closer = con[c].closer
    BY <1>1 DEF ConnState
  <2>2. [con[c] EXCEPT !.runner = "done", !.notified = @ + 1].closer = con[c].closer
    BY <1>1 DEF ConnState
  <2>3. QED BY <1>2, <1>3, <2>1, <2>2 DEF NotifyClosed
<1>4. CASE Start(c)
  <2>1. ModelConnected(c) \/ ModelConnectFails(c) \/ Negotiated(c) \/ NegotiateFails(c)
    BY <1>1, <1>4 DEF Start, CreateConnection, JoinRequest, JoinAttach, Unborn
  <2>2. CASE ModelConnected(c)
    <3> DEFINE r == [con[c] EXCEPT !.model[con[c].cursor] = "open", !.cursor = @ + 1]
    <3>1. r.closer = con[c].closer BY <1>1 DEF ConnState
    <3>2. Launched(r).closer = con[c].closer BY <1>1 DEF Launched, ConnState
    <3>3. Becomes(c, Launched(r)) \/ Becomes(c, r) BY <2>2 DEF ModelConnected
    <3> HIDE DEF r
    <3>4. QED BY <1>2, <3>1, <3>2, <3>3
  <2>3. [con[c] EXCEPT !.handler = "failed"].closer = con[c].closer
        /\ [con[c] EXCEPT !.handler = "returned"].closer = con[c].closer
    BY <1>1 DEF ConnState
  <2>4. QED
    BY <1>2, <2>1, <2>2, <2>3 DEF ModelConnectFails, Negotiated, NegotiateFails
<1>5. CASE Shut(c)
  BY <1>5 DEF Shut, PcClosed, ModelClosed, ModelCloseFails
<1>6. CASE Run(c)
  <2>1. CASE RunStarts(c)
    <3>1. [con[c] EXCEPT !.runner = "loop", !.timer = TRUE].closer = con[c].closer
          /\ [con[c] EXCEPT !.runner = "died"].closer = con[c].closer
      BY <1>1 DEF ConnState
    <3>2. QED BY <1>2, <2>1, <3>1 DEF RunStarts
  <2>2. QED BY <1>1, <1>3, <1>6, <2>1 DEF Run, RunExits, RunClosed
<1>7. CASE Ask(c)
  <2>1. CASE ScriptCloses(c) \/ TimeoutFires(c) \/ TimerStops(c)
    <3>1. /\ [con[c] EXCEPT !.requests = @ \union {"script"}].closer = con[c].closer
          /\ [con[c] EXCEPT !.timer = FALSE, !.requests = @ \union {"timeout"}].closer
               = con[c].closer
          /\ [con[c] EXCEPT !.timer = FALSE].closer = con[c].closer
      BY <1>1 DEF ConnState
    <3>2. QED BY <1>2, <2>1, <3>1 DEF ScriptCloses, TimeoutFires, TimerStops
  <2>2. CASE CloseTask(c)
    <3>1. PICK w \in con[c].requests : Close(c, [con[c] EXCEPT !.requests = @ \ {w}])
      BY <2>2 DEF CloseTask
    <3> DEFINE r == [con[c] EXCEPT !.requests = @ \ {w}]
    <3>2. r.closer = con[c].closer /\ r.closing = con[c].closing BY <1>1 DEF ConnState
    <3>3. Close(c, r) BY <3>1
    <3> HIDE DEF r
    <3>4. Becomes(c, r) BY <1>1, <3>2, <3>3 DEF Close
    <3>5. QED BY <1>2, <3>2, <3>4
  <2>3. CASE OnStateChange(c)
    <3> DEFINE r == [con[c] EXCEPT !.event = FALSE]
    <3>1. r.closer = con[c].closer /\ r.closing = con[c].closing BY <1>1 DEF ConnState
    <3>2. Close(c, r) \/ Becomes(c, r) BY <2>3 DEF OnStateChange
    <3> HIDE DEF r
    <3>3. Becomes(c, r) BY <1>1, <3>1, <3>2 DEF Close
    <3>4. QED BY <1>2, <3>1, <3>3
  <2>4. QED BY <1>1, <1>7, <2>1, <2>2, <2>3 DEF Ask, Delete
<1>8. CASE Peer(c)
  <2>1. CASE PeerConnects(c)
    <3>1. [con[c] EXCEPT !.link = "connected"].closer = con[c].closer
      BY <1>1 DEF ConnState
    <3>2. QED BY <1>2, <2>1, <3>1 DEF PeerConnects
  <2>2. ASSUME NEW l \in {"failed", "closed"},
               Becomes(c, [con[c] EXCEPT !.link = l, !.event = @ \/ Emits(c)])
        PROVE  con'[c].closer = con[c].closer
    <3> DEFINE r == [con[c] EXCEPT !.link = l, !.event = @ \/ Emits(c)]
    <3>1. r.closer = con[c].closer
      <4> DEFINE e == con[c].event \/ Emits(c)
      <4>1. r = [con[c] EXCEPT !.link = l, !.event = e] OBVIOUS
      <4> HIDE DEF e, r
      <4>2. QED BY <1>1, <4>1 DEF ConnState
    <3>2. Becomes(c, r) BY <2>2
    <3> HIDE DEF r
    <3>3. QED BY <1>2, <3>1, <3>2
  <2>3. CASE PeerFails(c) BY <2>2, <2>3 DEF PeerFails
  <2>4. CASE PeerCloses(c) BY <2>2, <2>4 DEF PeerCloses
  <2>5. QED BY <1>8, <2>1, <2>3, <2>4 DEF Peer
<1>9. QED BY <1>4, <1>5, <1>6, <1>7, <1>8

(* Whatever asks for it, close() runs at most once: an ended close() stays
   ended (connection.py:1002-1004). *)
THEOREM ClosesOnce == Spec => CloseOnce
<1> DEFINE Kept == \A c \in Conn : con[c].closer \in {"done", "aborted"} =>
                      con'[c].closer = con[c].closer
<1>1. LifecycleInv /\ [Next]_vars => [Kept]_vars
  <2> SUFFICES ASSUME LifecycleInv, Next, NEW c \in Conn, con[c].closer \in {"done", "aborted"}
               PROVE  con'[c].closer = con[c].closer
    OBVIOUS
  <2>1. PICK d \in Conn : Start(d) \/ Shut(d) \/ Run(d) \/ Ask(d) \/ Peer(d)
    BY DEF Next
  <2>2. CASE d = c BY <2>1, <2>2, CloserKept
  <2>3. CASE d # c
    <3>1. PICK r : Becomes(d, r) BY <2>1, SomeBecomes
    <3>2. QED BY <2>3, <3>1 DEF Becomes, LifecycleInv, TypeOK
  <2>4. QED BY <2>2, <2>3
<1>2. QED BY <1>1, LifecycleCorrect, PTL DEF Spec, CloseOnce
=============================================================================
