---------------------------- MODULE RoboticsLive ----------------------------
(***************************************************************************)
(* The Gemini Robotics live provider (gemini_robotics/robotics_live.py):   *)
(* one websocket session, whose receive loop replaces it when it breaks,   *)
(* on which the frames of VisionModel are asked as turns, one after the    *)
(* other.  A turn is given up after TURN_TIMEOUT; the service answers the  *)
(* turns of a session in their order, also one that was given up.          *)
(***************************************************************************)
EXTENDS Naturals, Sequences, FiniteSets

CONSTANTS
  MaxTurns,      \* bound on the frames asked
  MaxSessions    \* bound on the sessions opened

ASSUME RoboticsAssumption == MaxTurns \in Nat /\ MaxSessions \in Nat

MaxReconnects == 3
NoSession == 0
Sessions == 1 .. MaxSessions
Turns == 1 .. MaxTurns

VARIABLES
  receiver,     \* where load() and then _receive_loop are
  reconnects,   \* reconnect_attempts
  ws,           \* state of each session
  held,         \* self.session and self.session_context
  turn,         \* the turn of process_frame and how far it is
  pending,      \* self.pending_turn
  textParts,    \* turns whose text is in text_parts
  unanswered,   \* turns each session has yet to answer, in their order
  askedOn,      \* history: session each turn was asked on
  givenUp,      \* history: turns that timed out
  result,       \* history: turns whose text each turn returned
  closer,       \* where close() is
  raced         \* history: close() came before load() was over

turnVars == <<turn, pending, askedOn, givenUp, result>>
roboticsVars == <<receiver, reconnects, ws, held, turnVars, textParts, unanswered, closer, raced>>

(***************************************************************************)
(*  receiver   "new", "loading" (load's __aenter__), "receiving",          *)
(*             "leaving" (awaits __aexit__), "entering", "sleeping",       *)
(*             "failed" (load raised), "ended"                             *)
(*  ws         "unused", "entering", "open", "closing", "over"             *)
(*  turn.at    "idle", "sending", "waiting"                                *)
(*  closer     "open", "requested", "closing" (awaits __aexit__), "closed" *)
(***************************************************************************)
RoboticsTypeOK ==
  /\ receiver \in {"new", "loading", "receiving", "leaving", "entering", "sleeping", "failed", "ended"}
  /\ reconnects \in 0 .. MaxReconnects + 1
  /\ ws \in [Sessions -> {"unused", "entering", "open", "closing", "over"}]
  /\ held \in [session : Sessions \union {NoSession}, context : Sessions \union {NoSession}]
  /\ turn \in [n : 0 .. MaxTurns, at : {"idle", "sending", "waiting"}]
  /\ pending \in [is : {"none", "waiting", "error", "cancelled", "answer"}, text : SUBSET Turns]
  /\ textParts \subseteq Turns /\ givenUp \subseteq Turns
  /\ unanswered \in [Sessions -> Seq(Turns)]
  /\ askedOn \in [Turns -> Sessions \union {NoSession}]
  /\ result \in [Turns -> SUBSET Turns]
  /\ closer \in {"open", "requested", "closing", "closed"}
  /\ raced \in BOOLEAN

Future(is) == [is |-> is, text |-> {}]
NoneHeld == [session |-> NoSession, context |-> NoSession]

RoboticsInit ==
  /\ receiver = "new" /\ reconnects = 0
  /\ ws = [s \in Sessions |-> "unused"] /\ held = NoneHeld
  /\ turn = [n |-> 0, at |-> "idle"] /\ pending = Future("none")
  /\ textParts = {} /\ givenUp = {}
  /\ unanswered = [s \in Sessions |-> <<>>]
  /\ askedOn = [t \in Turns |-> NoSession]
  /\ result = [t \in Turns |-> {}]
  /\ closer = "open" /\ raced = FALSE

ShuttingDown == closer # "open"

\* A pending_turn that is not done is completed.
Resolved(future) == IF pending.is = "waiting" THEN future ELSE pending

-----------------------------------------------------------------------------
(* _open_session and _close_session                                        *)

Open(old) ==
  \E s \in Sessions :
    /\ old[s] = "unused" /\ \A r \in Sessions : r < s => old[r] # "unused"
    /\ ws' = [old EXCEPT ![s] = "entering"]
    /\ held' = [session |-> NoSession, context |-> s]

\* The __aexit__ of the context suspends; that of one that failed, or is
\* entering, returns or raises at once.
HeldOpen == held.context # NoSession /\ ws[held.context] = "open"

Exits == ws' = [ws EXCEPT ![held.context] = "closing"] /\ UNCHANGED held
LeftAll == [s \in Sessions |-> IF ws[s] = "closing" THEN "over" ELSE ws[s]]
Entering == CHOOSE s \in Sessions : ws[s] = "entering"

Load ==
  /\ receiver = "new"
  /\ receiver' = "loading"
  /\ Open(ws)
  /\ UNCHANGED <<reconnects, turnVars, textParts, unanswered, closer, raced>>

\* Mutant: text_parts is made once, before the loop.
OpenedKeepsText ==
  /\ receiver \in {"loading", "entering"}
  /\ ws' = [ws EXCEPT ![Entering] = "open"]
  /\ held' = [held EXCEPT !.session = Entering]
  /\ receiver' = IF ShuttingDown THEN "ended" ELSE "receiving"
  /\ UNCHANGED <<reconnects, turnVars, textParts, unanswered, closer, raced>>

\* __aenter__ returned; the receive loop does not begin or go on once close()
\* was called.
Opened ==
  /\ receiver \in {"loading", "entering"}
  /\ ws' = [ws EXCEPT ![Entering] = "open"]
  /\ held' = [held EXCEPT !.session = Entering]
  /\ receiver' = IF ShuttingDown THEN "ended" ELSE "receiving"
  /\ textParts' = {}
  /\ UNCHANGED <<reconnects, turnVars, unanswered, closer, raced>>

\* It raised: load() is over, the receive loop sleeps.
OpenFails ==
  /\ receiver \in {"loading", "entering"}
  /\ ws' = [ws EXCEPT ![Entering] = "over"]
  /\ receiver' = IF receiver = "loading" THEN "failed" ELSE "sleeping"
  /\ UNCHANGED <<reconnects, held, turnVars, textParts, unanswered, closer, raced>>

-----------------------------------------------------------------------------
(* _receive_loop                                                           *)

\* A part of the answer to the turn the session is at.
Part ==
  /\ receiver = "receiving" /\ held.session # NoSession
  /\ unanswered[held.session] # <<>>
  /\ textParts' = textParts \union {Head(unanswered[held.session])}
  /\ UNCHANGED <<receiver, reconnects, ws, held, turnVars, unanswered, closer, raced>>

\* turn_complete: the turn that waits gets the text, whichever turn it is of.
TurnComplete ==
  /\ receiver = "receiving" /\ held.session # NoSession
  /\ unanswered[held.session] # <<>> /\ Head(unanswered[held.session]) \in textParts
  /\ pending' = Resolved([is |-> "answer", text |-> textParts])
  /\ unanswered' = [unanswered EXCEPT ![held.session] = Tail(@)]
  /\ textParts' = {} /\ reconnects' = 0
  /\ UNCHANGED <<receiver, ws, held, turn, askedOn, givenUp, result, closer, raced>>

\* The old session is left: another is opened, or the loop gives up.
Replace(old, attempts) ==
  IF attempts > MaxReconnects
  THEN receiver' = "ended" /\ ws' = old /\ held' = NoneHeld
  ELSE receiver' = "entering" /\ Open(old)

\* receive() raises: the session broke, an event cannot be read, or there is
\* no session after an attempt that failed.
SocketBreaks ==
  /\ receiver = "receiving"
  /\ reconnects' = reconnects + 1
  /\ IF HeldOpen THEN Exits /\ receiver' = "leaving" ELSE Replace(ws, reconnects')
  /\ UNCHANGED <<turn, textParts, unanswered, askedOn, givenUp, result, closer, raced>>

\* Mutant: the turn that waits is left to its timeout.
ReceiveFailsQuietly == SocketBreaks /\ UNCHANGED pending

ReceiveFails == SocketBreaks /\ pending' = Resolved(Future("error"))

SessionLeft ==
  /\ receiver = "leaving"
  /\ Replace(LeftAll, reconnects)
  /\ UNCHANGED <<reconnects, turnVars, textParts, unanswered, closer, raced>>

Wakes ==
  /\ receiver = "sleeping"
  /\ receiver' = "receiving" /\ textParts' = {}
  /\ UNCHANGED <<reconnects, ws, held, turnVars, unanswered, closer, raced>>

-----------------------------------------------------------------------------
(* process_frame and _run_turn                                             *)

SendTurn ==
  /\ turn.at = "idle" /\ turn.n < MaxTurns
  /\ held.session # NoSession
  /\ turn' = [n |-> turn.n + 1, at |-> "sending"]
  /\ pending' = Future("waiting")
  /\ askedOn' = [askedOn EXCEPT ![turn.n + 1] = held.session]
  /\ UNCHANGED <<receiver, reconnects, ws, held, textParts, unanswered, givenUp, result, closer, raced>>

TurnSent ==
  /\ turn.at = "sending" /\ ws[askedOn[turn.n]] = "open"
  /\ turn' = [turn EXCEPT !.at = "waiting"]
  /\ unanswered' = [unanswered EXCEPT ![askedOn[turn.n]] = Append(@, turn.n)]
  /\ UNCHANGED <<receiver, reconnects, ws, held, pending, textParts, askedOn, givenUp, result, closer, raced>>

\* _run_turn is over.
Returns(text) ==
  /\ turn' = [turn EXCEPT !.at = "idle"]
  /\ pending' = Future("none")
  /\ result' = [result EXCEPT ![turn.n] = text]
  /\ UNCHANGED <<receiver, reconnects, ws, held, textParts, unanswered, askedOn, closer, raced>>

TurnSendFails == turn.at = "sending" /\ Returns({}) /\ UNCHANGED givenUp

\* The future was completed, also before the turn was sent.
TurnReturns ==
  /\ turn.at = "waiting" /\ pending.is # "waiting"
  /\ Returns(pending.text)
  /\ UNCHANGED givenUp

TurnTimesOut ==
  /\ turn.at = "waiting" /\ pending.is = "waiting"
  /\ Returns({})
  /\ givenUp' = givenUp \union {turn.n}

-----------------------------------------------------------------------------
(* close()                                                                 *)

\* Mutant: the receive task is not cancelled.
RoboticsCloseCalledKeepsTask ==
  /\ closer = "open" /\ closer' = "requested"
  /\ raced' = (receiver \in {"new", "loading"})
  /\ pending' = Resolved(Future("cancelled"))
  /\ UNCHANGED <<receiver, reconnects, ws, held, turn, textParts, unanswered, askedOn, givenUp, result>>

\* The turn that waits and the receive task, if load() has made it, are
\* cancelled: it ends at the await it is in, an __aenter__ or __aexit__ too.
RoboticsCloseCalled ==
  /\ closer = "open" /\ closer' = "requested"
  /\ raced' = (receiver \in {"new", "loading"})
  /\ pending' = Resolved(Future("cancelled"))
  /\ IF receiver \in {"new", "loading", "failed"}
     THEN UNCHANGED <<receiver, ws>>
     ELSE /\ receiver' = "ended"
          /\ ws' = [s \in Sessions |-> IF ws[s] \in {"entering", "closing"} THEN "over" ELSE ws[s]]
  /\ UNCHANGED <<reconnects, held, turn, textParts, unanswered, askedOn, givenUp, result>>

Closes ==
  /\ closer = "requested"
  /\ IF HeldOpen THEN Exits /\ closer' = "closing"
     ELSE held' = NoneHeld /\ closer' = "closed" /\ UNCHANGED ws
  /\ UNCHANGED <<receiver, reconnects, turnVars, textParts, unanswered, raced>>

Closed ==
  /\ closer = "closing"
  /\ ws' = LeftAll /\ held' = NoneHeld /\ closer' = "closed"
  /\ UNCHANGED <<receiver, reconnects, turnVars, textParts, unanswered, raced>>

RoboticsNext ==
  \/ Load \/ Opened \/ OpenFails
  \/ Part \/ TurnComplete \/ ReceiveFails \/ SessionLeft \/ Wakes
  \/ SendTurn \/ TurnSent \/ TurnSendFails \/ TurnReturns \/ TurnTimesOut
  \/ RoboticsCloseCalled \/ Closes \/ Closed

RoboticsSpec == RoboticsInit /\ [][RoboticsNext]_roboticsVars

-----------------------------------------------------------------------------
\* The turns of the session of t up to t, and those of them after other that
\* returned a text or were given up.
SameSession(t) == {u \in 1 .. t : askedOn[u] = askedOn[t]}
Later(t, other) == {u \in SameSession(t) : u > other /\ (u \in givenUp \/ result[u] # {})}

\* A turn returns the text of one turn of its own session, its own or an
\* earlier one: by as many turns late as turns of that session had timed out
\* before (robotics_live.py:126, 173), and never of another session.
OwnAnswer ==
  /\ RoboticsTypeOK
  /\ \A t \in Turns : \A other \in result[t] :
       /\ result[t] = {other} /\ other \in SameSession(t)
       /\ Cardinality(Later(t, other)) <= Cardinality(SameSession(t) \intersect givenUp)

\* Until close() is called, a turn that waits waits for the session that is
\* received from: one whose session breaks, even while it is being sent, is
\* told (robotics_live.py:137).
WaitsOnSession ==
  turn.at = "waiting" /\ pending.is = "waiting" /\ closer = "open" =>
    receiver = "receiving" /\ held.session = askedOn[turn.n]

\* When close() is over, unless it came before load() was, no session is
\* open and none is going to be (robotics_live.py:260-276).
RoboticsClosed ==
  closer = "closed" /\ ~raced =>
    receiver \in {"ended", "failed"} /\ \A s \in Sessions : ws[s] \in {"unused", "over"}
=============================================================================
