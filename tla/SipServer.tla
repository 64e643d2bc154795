----------------------------- MODULE SipServer -----------------------------
(***************************************************************************)
(* The SIP server (interfaces/sip/server.py): what process_message does    *)
(* with INVITE and BYE, and the connections it starts and closes.          *)
(*                                                                         *)
(* Each TCP connection has a handler task that processes one message after *)
(* the other; the handlers of different TCP connections interleave at      *)
(* every await.  A connection is reduced to how far its start(), its       *)
(* close() and its _run are; ConnectionLifecycle has the details.          *)
(***************************************************************************)
EXTENDS Naturals, FiniteSets

CONSTANTS
  Peer,      \* TCP connections
  Call,      \* Call-IDs
  NoCall,    \* a message without Call-ID
  MaxConn    \* bound on the connections created

ASSUME SipAssumption == NoCall \notin Call /\ MaxConn \in Nat

None == 0
Connection == 1 .. MaxConn

VARIABLES
  handler,   \* handler[t]: where the task of t is suspended
  message,   \* message[t]: what it works on: the Call-ID, whether the headers a
             \* response needs are there, and the connection
  sessions,  \* self.sessions, None for no entry
  stage,     \* stage[i]: how far start() of connection i is
  callOf,    \* callOf[i]: the call connection i was created for
  hasPc,     \* hasPc[i]: its pc is not None
  closer,    \* closer[i]: how far its close() is
  runner,    \* runner[i]: how far its _run is
  managed,   \* ConnectionManager().connections
  hasty      \* ghost: those closed before they had a pc

vars == <<handler, message, sessions, stage, callOf, hasPc, closer, runner, managed, hasty>>

Message == [call : Call \union {NoCall}, complete : BOOLEAN, conn : Connection \union {None}]
Nothing == [call |-> NoCall, complete |-> FALSE, conn |-> None]

(***************************************************************************)
(*  handler  "reading" (a message), "trying" (100 being sent), "callback", *)
(*           "preparing" and "negotiating" (in connection.start()),        *)
(*           "ok" and "refusing" (a final response to an INVITE being      *)
(*           sent), "closing" (in connection.close()), "byeOk" (200 to a   *)
(*           BYE being sent), "ended"                                      *)
(*  stage    "unused", "preparing", "negotiating", "up", "failed"          *)
(*  closer   "no", "pc" (in pc.close()), "models" (closing them), "closed" *)
(*  runner   "none", "spawned", "running", "died" (there is no pc), "done" *)
(***************************************************************************)
TypeOK ==
  /\ handler \in [Peer -> {"reading", "trying", "callback", "preparing", "negotiating",
                           "ok", "refusing", "closing", "byeOk", "ended"}]
  /\ message \in [Peer -> Message]
  /\ sessions \in [Call -> Connection \union {None}]
  /\ stage \in [Connection -> {"unused", "preparing", "negotiating", "up", "failed"}]
  /\ callOf \in [Connection -> Call \union {NoCall}]
  /\ hasPc \in [Connection -> BOOLEAN]
  /\ closer \in [Connection -> {"no", "pc", "models", "closed"}]
  /\ runner \in [Connection -> {"none", "spawned", "running", "died", "done"}]
  /\ managed \in SUBSET Connection /\ hasty \in SUBSET Connection

Init ==
  /\ handler = [t \in Peer |-> "reading"]
  /\ message = [t \in Peer |-> Nothing]
  /\ sessions = [k \in Call |-> None]
  /\ stage = [i \in Connection |-> "unused"]
  /\ callOf = [i \in Connection |-> NoCall]
  /\ hasPc = [i \in Connection |-> FALSE]
  /\ closer = [i \in Connection |-> "no"]
  /\ runner = [i \in Connection |-> "none"]
  /\ managed = {} /\ hasty = {}

\* A handler goes on with what it works on; to work on something else; or with
\* nothing left to remember.
Goes(t, at) == handler' = [handler EXCEPT ![t] = at] /\ UNCHANGED message
Works(t, at, m) == handler' = [handler EXCEPT ![t] = at] /\ message' = [message EXCEPT ![t] = m]
Rests(t, at) == Works(t, at, Nothing)
Staged(i, s) == stage' = [stage EXCEPT ![i] = s]

closeVars == <<closer, hasty>>
ConnVars == <<stage, callOf, hasPc, runner, managed, closeVars>>

\* close() up to its first await, of a connection that is not being closed.
Closes(i) ==
  /\ closer[i] = "no"
  /\ closer' = [closer EXCEPT ![i] = IF hasPc[i] THEN "pc" ELSE "models"]
  /\ hasty' = IF hasPc[i] THEN hasty ELSE hasty \union {i}

\* A response that needs all headers is sent only if they are there.
Answers(t, at, complete) == Rests(t, IF complete THEN at ELSE "reading")

-----------------------------------------------------------------------------
(* INVITE                                                                  *)

\* Up to the first await.  A call that has a session is ignored.
Invite(t, k, complete, body) ==
  /\ handler[t] = "reading"
  /\ complete => k # NoCall
  /\ \/ k # NoCall /\ sessions[k] # None /\ UNCHANGED <<handler, message>>
     \/ /\ k # NoCall => sessions[k] = None
        /\ IF body
           THEN Works(t, IF complete THEN "trying" ELSE "callback",
                      [Nothing EXCEPT !.call = k, !.complete = complete])
           ELSE Answers(t, "refusing", complete)
  /\ UNCHANGED <<sessions, ConnVars>>

TryingSent(t) ==
  /\ handler[t] = "trying"
  /\ Goes(t, "callback")
  /\ UNCHANGED <<sessions, ConnVars>>

\* The callback answered with parameters: a connection is created and its
\* start() prepares the models.
CallbackAnswers(t) ==
  /\ handler[t] = "callback"
  /\ \E i \in Connection :
       /\ stage[i] = "unused"
       /\ \A j \in Connection : j < i => stage[j] # "unused"
       /\ Works(t, "preparing", [message[t] EXCEPT !.conn = i])
       /\ Staged(i, "preparing")
       /\ callOf' = [callOf EXCEPT ![i] = message[t].call]
       /\ managed' = managed \union {i}
  /\ UNCHANGED <<sessions, hasPc, runner, closeVars>>

\* Mutant: no 503.
CallbackRefusesSilently(t) ==
  /\ handler[t] = "callback"
  /\ Rests(t, "reading")
  /\ UNCHANGED <<sessions, ConnVars>>

\* It failed, timed out or answered with nothing: 503.
CallbackRefuses(t) ==
  /\ handler[t] = "callback"
  /\ Answers(t, "refusing", message[t].complete)
  /\ UNCHANGED <<sessions, ConnVars>>

\* The models are connected, the socket bound and _run spawned, also when the
\* connection was closed meanwhile.
Prepared(t) ==
  /\ handler[t] = "preparing"
  /\ Goes(t, "negotiating")
  /\ Staged(message[t].conn, "negotiating")
  /\ hasPc' = [hasPc EXCEPT ![message[t].conn] = TRUE]
  /\ runner' = [runner EXCEPT ![message[t].conn] = "spawned"]
  /\ UNCHANGED <<sessions, callOf, managed, closeVars>>

\* start() raises: 500, and the connection is left to itself.
StartFails(t) ==
  /\ handler[t] \in {"preparing", "negotiating"}
  /\ Answers(t, "refusing", message[t].complete)
  /\ Staged(message[t].conn, "failed")
  /\ UNCHANGED <<sessions, callOf, hasPc, runner, managed, closeVars>>

\* start() returned, its pc still there: the call gets its session, then its
\* 200 OK, or a 500 when headers are missing.
Started(t) ==
  /\ handler[t] = "negotiating"
  /\ hasPc[message[t].conn]
  /\ Staged(message[t].conn, "up")
  /\ sessions' = IF message[t].call = NoCall THEN sessions
                 ELSE [sessions EXCEPT ![message[t].call] = message[t].conn]
  /\ Rests(t, IF message[t].complete THEN "ok" ELSE "refusing")
  /\ UNCHANGED <<callOf, hasPc, runner, managed, closeVars>>

-----------------------------------------------------------------------------
(* BYE                                                                     *)

\* A BYE is answered with 200.
ByeAnswers(t, m) == IF m.complete THEN Works(t, "byeOk", m) ELSE Rests(t, "reading")
Ends(k, complete) == [call |-> k, complete |-> complete, conn |-> sessions[k]]

\* Mutant: the 200 does not wait for close() to begin.
ByeLeavesOpen(t, k, complete) ==
  /\ handler[t] = "reading"
  /\ sessions[k] # None
  /\ sessions' = [sessions EXCEPT ![k] = None]
  /\ ByeAnswers(t, Ends(k, complete))
  /\ UNCHANGED ConnVars

\* Mutant: close() is not called.
ByeSkipsClose(t, k, complete) ==
  /\ handler[t] = "reading"
  /\ sessions[k] # None
  /\ sessions' = [sessions EXCEPT ![k] = None]
  /\ Works(t, "closing", Ends(k, complete))
  /\ UNCHANGED ConnVars

\* The session is removed and the connection closed; close() returns at once
\* when it was called before.  A BYE without session has no effect.
Bye(t, k, complete) ==
  LET i == sessions[k] IN
  /\ handler[t] = "reading"
  /\ i # None
  /\ sessions' = [sessions EXCEPT ![k] = None]
  /\ \/ Closes(i) /\ Works(t, "closing", Ends(k, complete))
     \/ closer[i] # "no" /\ ByeAnswers(t, Ends(k, complete)) /\ UNCHANGED closeVars
  /\ UNCHANGED <<stage, callOf, hasPc, runner, managed>>

\* That close() has returned, or raised and was logged.
CloseReturns(t) ==
  /\ handler[t] = "closing"
  /\ closer[message[t].conn] = "closed"
  /\ ByeAnswers(t, message[t])
  /\ UNCHANGED <<sessions, ConnVars>>

-----------------------------------------------------------------------------
(* The TCP connection                                                      *)

\* A response is written: the next message is read.
Sent(t) ==
  /\ handler[t] \in {"ok", "refusing", "byeOk"}
  /\ Rests(t, "reading")
  /\ UNCHANGED <<sessions, ConnVars>>

\* The peer is gone: drain() raises, or read() returns nothing, and the
\* handler ends.  The call it may have set up stays.
PeerGone(t) ==
  /\ handler[t] \in {"reading", "trying", "ok", "refusing", "byeOk"}
  /\ Rests(t, "ended")
  /\ UNCHANGED <<sessions, ConnVars>>

-----------------------------------------------------------------------------
(* The connection by itself (ConnectionLifecycle)                          *)

\* A DELETE, the timeout or the end of _run's loop closes it; a DELETE does so
\* at any time.
ConnectionEnds(i) ==
  /\ i \in managed
  /\ Closes(i)
  /\ UNCHANGED <<handler, message, sessions, stage, callOf, hasPc, runner, managed>>

\* pc.close() has returned.
PcDropped(i) ==
  /\ closer[i] = "pc"
  /\ closer' = [closer EXCEPT ![i] = "models"]
  /\ hasPc' = [hasPc EXCEPT ![i] = FALSE]
  /\ UNCHANGED <<handler, message, sessions, stage, callOf, runner, managed, hasty>>

CloseCompletes(i) ==
  /\ closer[i] = "models"
  /\ closer' = [closer EXCEPT ![i] = "closed"]
  /\ UNCHANGED <<handler, message, sessions, stage, callOf, hasPc, runner, managed, hasty>>

\* The first step of _run registers callbacks on the pc, and raises when close()
\* was faster.
RunStarts(i) ==
  /\ runner[i] = "spawned"
  /\ runner' = [runner EXCEPT ![i] = IF hasPc[i] THEN "running" ELSE "died"]
  /\ UNCHANGED <<handler, message, sessions, stage, callOf, hasPc, managed, closeVars>>

\* The loop of _run ends once the pc is closed or gone, or with an exception; its
\* own close() returns at once, and it takes the connection out of the manager.
RunLeaves(i) ==
  /\ runner[i] = "running"
  /\ closer[i] # "no"
  /\ runner' = [runner EXCEPT ![i] = "done"]
  /\ managed' = managed \ {i}
  /\ UNCHANGED <<handler, message, sessions, stage, callOf, hasPc, closeVars>>

-----------------------------------------------------------------------------
Next ==
  \/ \E t \in Peer :
       \/ \E k \in Call \union {NoCall}, complete, body \in BOOLEAN : Invite(t, k, complete, body)
       \/ TryingSent(t)
       \/ CallbackAnswers(t) \/ CallbackRefuses(t)
       \/ Prepared(t) \/ StartFails(t) \/ Started(t)
       \/ \E k \in Call, complete \in BOOLEAN : Bye(t, k, complete)
       \/ CloseReturns(t)
       \/ Sent(t) \/ PeerGone(t)
  \/ \E i \in Connection :
       \/ ConnectionEnds(i) \/ PcDropped(i) \/ CloseCompletes(i)
       \/ RunStarts(i) \/ RunLeaves(i)

Spec == Init /\ [][Next]_vars

\* The callback has a timeout of five seconds, connecting and closing end,
\* _run begins and sees that its pc is gone, and a response is written or fails.
Fairness ==
  /\ \A t \in Peer :
       /\ WF_vars(TryingSent(t) \/ PeerGone(t))
       /\ WF_vars(CallbackAnswers(t) \/ CallbackRefuses(t))
       /\ WF_vars(Prepared(t) \/ StartFails(t))
       /\ WF_vars(Started(t) \/ StartFails(t))
       /\ WF_vars(CloseReturns(t))
  /\ \A i \in Connection :
       /\ WF_vars(PcDropped(i)) /\ WF_vars(CloseCompletes(i))
       /\ WF_vars(RunStarts(i)) /\ WF_vars(~hasPc[i] /\ RunLeaves(i))

LiveSpec == Spec /\ Fairness

-----------------------------------------------------------------------------
\* A session names a connection that was started, for that call: BYE never
\* closes one that is still being set up by another handler, or another
\* call's (server.py:443-459, 492-499).
SessionsStarted ==
  \A k \in Call : sessions[k] # None =>
    stage[sessions[k]] = "up" /\ callOf[sessions[k]] = k

\* A caller told 200 OK to its BYE has no open call: close() of its connection
\* was called, also when another task got there first, and its pc is closed or
\* being closed, unless that close() came before there was one
\* (server.py:490-505, connection.py:1001-1038).
ByeEnds ==
  \A t \in Peer : handler[t] \in {"closing", "byeOk"} =>
    LET i == message[t].conn IN
    /\ closer[i] # "no"
    /\ hasPc[i] => closer[i] = "pc" \/ i \in hasty

\* No two handlers work on the same new connection, and each is in the
\* manager from its creation until it is closed (server.py:438-456).
OwnConnection ==
  \A t \in Peer : handler[t] \in {"preparing", "negotiating"} =>
    /\ stage[message[t].conn] = handler[t]
    /\ closer[message[t].conn] = "no" => message[t].conn \in managed
    /\ \A u \in Peer \ {t} : handler[u] \in {"preparing", "negotiating"} =>
         message[u].conn # message[t].conn

\* Sessions, handlers and the manager agree about every call.
CallsConsistent == TypeOK /\ SessionsStarted /\ ByeEnds /\ OwnConnection

\* An INVITE that got its 100 Trying gets a final response, unless its TCP
\* connection is lost (server.py:421-485).
InviteAnswered ==
  \A t \in Peer :
    handler[t] = "trying" ~> handler[t] \in {"ok", "refusing", "ended"}

\* A BYE that closes its connection has its pc and its models closed and the
\* connection out of the manager, unless close() was faster than the first step
\* of _run, which is to take it out (server.py:499, connection.py:787-795, 966-976).
ByeReleases ==
  \A i \in Connection :
    (\E t \in Peer : handler[t] = "closing" /\ message[t].conn = i) ~>
      ~hasPc[i] /\ closer[i] = "closed" /\ (i \in managed => runner[i] = "died")

-----------------------------------------------------------------------------
(* What the code says and does not do                                      *)

\* "ignoring duplicate INVITE" (server.py:404): a call has at most one
\* connection that is up and not closed.
DuplicatesIgnored ==
  \A i, j \in Connection :
    (/\ stage[i] = "up" /\ closer[i] = "no" /\ stage[j] = "up" /\ closer[j] = "no"
     /\ callOf[i] = callOf[j] /\ callOf[i] # NoCall) => i = j
=============================================================================
