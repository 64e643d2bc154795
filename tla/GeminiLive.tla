----------------------------- MODULE GeminiLive -----------------------------
(***************************************************************************)
(* The Gemini live provider (providers/gemini/llm_live.py): the websocket  *)
(* sessions one GeminiProvider opens, loses, replaces and closes.          *)
(*                                                                         *)
(* connect() is called by the connection's start, by the event task when   *)
(* its session breaks, and by a task of its own for each tool a script     *)
(* adds in mid-call; close() by the connection and by those tasks.  None   *)
(* of them excludes another.  A context is one object of live.connect();   *)
(* its __aexit__ raises at once while its __aenter__ or another __aexit__  *)
(* runs, and is a no-op when it is over.  The text-to-speech variant of    *)
(* the provider is not modelled.                                           *)
(***************************************************************************)
EXTENDS Naturals, FiniteSets

CONSTANTS
  Tool,      \* tools added in mid-call, by a task each
  Sender     \* the connection's tasks that call send()

Start == "start"     \* the task that prepares the connection
Events == "events"   \* _process_session_events
Closer == "closer"   \* the connection's close()
Task == {Start, Events, Closer} \union Tool \union Sender

ASSUME GeminiAssumption ==
  /\ IsFiniteSet(Tool)
  /\ Tool \intersect Sender = {}
  /\ {Start, Events, Closer} \intersect (Tool \union Sender) = {}

MaxAttempts == 3

\* connect() runs once for the start, three times for the event task and once
\* for each tool: no bound of the model.
Context == 1 .. 1 + MaxAttempts + Cardinality(Tool)
None == 0

\* The tasks that call connect().
Connecting == {Start, Events} \union Tool

VARIABLES
  at,          \* where each task is
  on,          \* the context it works with
  state,       \* of each context
  session,     \* self.session, by its context
  context,     \* self.session_context
  isClosing,   \* self.is_closing
  attempts,    \* self.reconnect_attempts
  asked,       \* connection.close() was scheduled by the event task
  tries,       \* ghost: reconnections tried since the session last broke
  lost,        \* ghost: a send() that failed has set self.session to None
  crossed,     \* ghost: the tasks close() met in, or still before, a connect()
  orphan       \* ghost: the context that close() forgot while it was being entered

sessionVars == <<state, session, context, isClosing>>
ghosts == <<tries, lost, crossed, orphan>>
vars == <<at, on, sessionVars, attempts, asked, ghosts>>

(***************************************************************************)
(*  at     Start: "new", "leaving", "entering", "done", "failed"           *)
(*         Events: "none", "spawned", "receiving", "calling" (a tool),     *)
(*         "leaving", "entering", "sleeping", "ended"                      *)
(*         Closer: "none", "requested", "closing", "closed"                *)
(*         a tool's: "none", "begun", those of Closer, then "leaving",     *)
(*         "entering", "done"                                              *)
(*         a sender: "idle", "sending", "leaving"                          *)
(*         "leaving" is awaiting __aexit__, "entering" __aenter__          *)
(*  state  "unused", "entering", "open", "dropped" (by the service or the  *)
(*         network), "closing" (in its __aexit__), "over"                  *)
(***************************************************************************)
Stages == {"new", "none", "spawned", "begun", "idle", "sending", "receiving", "calling",
           "leaving", "entering", "sleeping", "requested", "closing", "closed",
           "done", "failed", "ended"}

TypeOK ==
  /\ at \in [Task -> Stages]
  /\ on \in [Task -> Context \union {None}]
  /\ state \in [Context -> {"unused", "entering", "open", "dropped", "closing", "over"}]
  /\ session \in Context \union {None} /\ context \in Context \union {None}
  /\ isClosing \in BOOLEAN
  /\ attempts \in 0 .. MaxAttempts
  /\ asked \in BOOLEAN
  /\ tries \in 0 .. MaxAttempts /\ lost \in BOOLEAN
  /\ crossed \in SUBSET Connecting /\ orphan \in Context \union {None}

Init ==
  /\ at = [t \in Task |-> IF t = Start THEN "new" ELSE IF t \in Sender THEN "idle" ELSE "none"]
  /\ on = [t \in Task |-> None]
  /\ state = [n \in Context |-> "unused"]
  /\ session = None /\ context = None
  /\ isClosing = FALSE
  /\ attempts = 0 /\ asked = FALSE
  /\ tries = 0 /\ lost = FALSE /\ crossed = {} /\ orphan = None

Goes(t, stage) == at' = [at EXCEPT ![t] = stage] /\ UNCHANGED on
GoesOn(t, stage, n) == at' = [at EXCEPT ![t] = stage] /\ on' = [on EXCEPT ![t] = n]

-----------------------------------------------------------------------------
(* disconnect_session() and connect()                                      *)

\* The __aexit__ of self.session_context suspends its caller.
Exitable == context # None /\ state[context] \in {"open", "dropped"}

Leave(t, stage) ==
  /\ GoesOn(t, stage, context)
  /\ state' = [state EXCEPT ![context] = "closing"]

\* The context t was leaving is over.
Left(t) == [state EXCEPT ![on[t]] = "over"]

Forget == session' = None /\ context' = None

\* A new context: the next of them.
FirstUnused ==
  CHOOSE n \in Context : state[n] = "unused" /\ \A m \in Context : m < n => state[m] # "unused"

\* connect() behind its disconnect_session(): a new context is entered.
Enter(t, old) ==
  /\ GoesOn(t, "entering", FirstUnused)
  /\ state' = [old EXCEPT ![FirstUnused] = "entering"]
  /\ session' = None /\ context' = FirstUnused
  /\ isClosing' = FALSE

\* Mutant: connect() does not disconnect first.
ConnectOver(t) == Enter(t, state)

\* connect() up to its first await.
Connect(t) ==
  IF Exitable
  THEN Leave(t, "leaving") /\ UNCHANGED <<session, context, isClosing>>
  ELSE Enter(t, state)

\* Its disconnect_session() has returned.
Reconnect(t) ==
  /\ at[t] = "leaving"
  /\ Enter(t, Left(t))
  /\ UNCHANGED <<attempts, asked, ghosts>>

\* Its __aenter__ returned, whatever became of self.session_context.
Entered(t) ==
  /\ at[t] = "entering"
  /\ Goes(t, IF t = Events THEN "receiving" ELSE "done")
  /\ state' = [state EXCEPT ![on[t]] = "open"]
  /\ session' = on[t]
  /\ UNCHANGED <<context, isClosing, attempts, asked, ghosts>>

\* It raised: the start fails, the event task sleeps before it tries again.
EnterFails(t) ==
  /\ at[t] = "entering"
  /\ Goes(t, CASE t = Events -> "sleeping" [] t = Start -> "failed" [] OTHER -> "done")
  /\ state' = [state EXCEPT ![on[t]] = "over"]
  /\ UNCHANGED <<session, context, isClosing, attempts, asked, ghosts>>

\* _prepare calls connect().
Begin ==
  /\ at[Start] = "new"
  /\ Connect(Start)
  /\ UNCHANGED <<attempts, asked, ghosts>>

-----------------------------------------------------------------------------
(* recv() and _process_session_events                                      *)

\* The connection's receiver tasks are spawned once all models are connected.
Launch ==
  /\ at[Start] = "done" /\ at[Events] = "none" /\ at[Closer] = "none"
  /\ Goes(Events, "spawned")
  /\ UNCHANGED <<sessionVars, attempts, asked, ghosts>>

\* while self.session: the next turn is received, from the session that is
\* there now.  A session that has ended may have events in its buffer.
NextTurn ==
  /\ at[Events] \in {"spawned", "receiving"}
  /\ IF session = None
     THEN Goes(Events, "ended")
     ELSE GoesOn(Events, "receiving", session)
  /\ UNCHANGED <<sessionVars, attempts, asked, ghosts>>

\* A tool call: its callback is awaited, and answered on self.session.
ToolCall ==
  /\ at[Events] = "receiving"
  /\ Goes(Events, "calling")
  /\ UNCHANGED <<sessionVars, attempts, asked, ghosts>>

ToolAnswered ==
  /\ at[Events] = "calling"
  /\ session # None /\ state[session] = "open"
  /\ Goes(Events, "receiving")
  /\ UNCHANGED <<sessionVars, attempts, asked, ghosts>>

\* "Failed to reconnect": the connection is to close.
GiveUp ==
  /\ Goes(Events, "ended")
  /\ asked' = TRUE
  /\ UNCHANGED <<sessionVars, attempts>>

\* The reconnection loop: the attempts of the whole call are counted.
Try ==
  IF attempts < MaxAttempts
  THEN attempts' = attempts + 1 /\ Connect(Events) /\ UNCHANGED asked
  ELSE GiveUp

Tries(before) == tries' = IF attempts < MaxAttempts THEN before + 1 ELSE before

\* Mutant: the next turn is awaited without a reconnection.
BreaksGoesOn == NextTurn

\* receive() raises because the session is gone, an event cannot be
\* processed, or the answer to a tool call cannot be sent.
Breaks ==
  /\ at[Events] \in {"receiving", "calling"}
  /\ IF isClosing
     THEN Goes(Events, "ended") /\ UNCHANGED <<sessionVars, attempts, asked, tries>>
     ELSE Try /\ Tries(0)
  /\ UNCHANGED <<lost, crossed, orphan>>

\* The two seconds after a failed attempt are over.
Retry ==
  /\ at[Events] = "sleeping"
  /\ Try /\ Tries(tries)
  /\ UNCHANGED <<lost, crossed, orphan>>

-----------------------------------------------------------------------------
(* close(), by the connection and before a tool's connect()                *)

\* At any time, also while the connection still connects the models before
\* this one: connect() is called after it then, all the same.
CloseCalled ==
  /\ at[Closer] = "none"
  /\ Goes(Closer, "requested")
  /\ isClosing' = TRUE
  /\ crossed' = {t \in Connecting : at[t] \in {"new", "leaving", "entering", "sleeping"}}
  /\ UNCHANGED <<state, session, context, attempts, asked, tries, lost, orphan>>

\* add_tool() while there is a session.
AddTool(t) ==
  /\ at[t] = "none"
  /\ session # None
  /\ Goes(t, "begun")
  /\ UNCHANGED <<sessionVars, attempts, asked, ghosts>>

ToolTask(t) ==
  /\ at[t] = "begun"
  /\ Goes(t, "requested")
  /\ isClosing' = TRUE
  /\ UNCHANGED <<state, session, context, attempts, asked, ghosts>>

\* What the connection's close() forgets, and nobody will leave.
Orphans(t, now) ==
  orphan' = IF t = Closer /\ context # None /\ now[context] \in {"entering", "open"}
            THEN context ELSE orphan

\* close() has disconnect_session() run as a task.
Disconnect(t) ==
  /\ at[t] = "requested"
  /\ IF Exitable
     THEN Leave(t, "closing") /\ UNCHANGED <<session, context, orphan>>
     ELSE Goes(t, "closed") /\ Forget /\ Orphans(t, state) /\ UNCHANGED state
  /\ UNCHANGED <<isClosing, attempts, asked, tries, lost, crossed>>

\* Its __aexit__ returned: whatever context and session there are by now are
\* forgotten.
Disconnected(t) ==
  /\ at[t] = "closing"
  /\ Goes(t, "closed")
  /\ state' = Left(t) /\ Forget /\ Orphans(t, Left(t))
  /\ UNCHANGED <<isClosing, attempts, asked, tries, lost, crossed>>

ToolConnects(t) ==
  /\ at[t] = "closed"
  /\ Connect(t)
  /\ UNCHANGED <<attempts, asked, ghosts>>

-----------------------------------------------------------------------------
(* send(): the connection's _run, spawned with the receivers, calls it     *)

Send(t) ==
  /\ at[t] = "idle" /\ at[Events] # "none"
  /\ session # None
  /\ GoesOn(t, "sending", session)
  /\ UNCHANGED <<sessionVars, attempts, asked, ghosts>>

Sent(t) ==
  /\ at[t] = "sending"
  /\ Goes(t, "idle")
  /\ UNCHANGED <<sessionVars, attempts, asked, ghosts>>

\* It raises: the session and the context of now, not those it was sent to,
\* are dropped.
SendFails(t) ==
  /\ at[t] = "sending"
  /\ IF isClosing
     THEN Goes(t, "idle") /\ UNCHANGED <<sessionVars, lost>>
     ELSE /\ session' = None /\ lost' = TRUE
          /\ IF Exitable THEN Leave(t, "leaving")
             ELSE Goes(t, "idle") /\ UNCHANGED state
          /\ UNCHANGED <<context, isClosing>>
  /\ UNCHANGED <<attempts, asked, tries, crossed, orphan>>

SenderLeft(t) ==
  /\ at[t] = "leaving"
  /\ Goes(t, "idle")
  /\ state' = Left(t)
  /\ UNCHANGED <<session, context, isClosing, attempts, asked, ghosts>>

-----------------------------------------------------------------------------

\* The service or the network ends a session.
Drop(n) ==
  /\ state[n] = "open"
  /\ state' = [state EXCEPT ![n] = "dropped"]
  /\ UNCHANGED <<at, on, session, context, isClosing, attempts, asked, ghosts>>

Next ==
  \/ Begin \/ Launch
  \/ NextTurn \/ ToolCall \/ ToolAnswered \/ Breaks \/ Retry
  \/ CloseCalled
  \/ \E t \in Connecting : Reconnect(t) \/ Entered(t) \/ EnterFails(t)
  \/ \E t \in Tool : AddTool(t) \/ ToolTask(t) \/ ToolConnects(t)
  \/ \E t \in {Closer} \union Tool : Disconnect(t) \/ Disconnected(t)
  \/ \E t \in Sender : Send(t) \/ Sent(t) \/ SendFails(t) \/ SenderLeft(t)
  \/ \E n \in Context : Drop(n)

Spec == Init /\ [][Next]_vars

\* A receive() on a session that is gone raises.
Gone == at[Events] = "receiving" /\ state[on[Events]] # "open" /\ Breaks

\* The event loop runs what is ready; entering and leaving a context end; the
\* turns a session that is gone has in its buffer are finite.
Fairness ==
  /\ SF_vars(Gone) /\ WF_vars(Retry)
  /\ WF_vars(at[Events] = "calling" /\ (ToolAnswered \/ Breaks))
  /\ \A t \in Connecting : WF_vars(Reconnect(t)) /\ WF_vars(Entered(t) \/ EnterFails(t))

LiveSpec == Spec /\ Fairness

-----------------------------------------------------------------------------
ToolAdded == \E t \in Tool : at[t] # "none"

OpenContexts == {n \in Context : state[n] \in {"entering", "open"}}

\* As long as no tool was added in mid-call, a provider never has two sessions
\* that the service counts as open, however its connects, drops, events that
\* cannot be processed, failed sends and its close() interleave, except for one
\* that a close() in a connect() forgot (llm_live.py:89-99, 188, 231-239).
OneSession ==
  ~ToolAdded => \A m, n \in OpenContexts \ {orphan} : m = n

\* The event task of a call that nobody closes, whose tools are fixed and
\* whose sends succeed ends only when it gave up, and then the connection is
\* closed: the call never goes on with a model that no longer listens
\* (llm_live.py:346, 430-457).
EndsWithCall ==
  at[Events] = "ended" => asked \/ at[Closer] # "none" \/ ToolAdded \/ lost

\* A close() while nobody connects, or has yet to, is final: the event task that
\* sees its session close does not open another, and nothing stays open.  One
\* that met a connect() leaves what that task connects, and the session it
\* forgot, and nothing else (llm_live.py:98-100, 431-432, 501-514).
CloseLeaves ==
  at[Closer] = "closed" /\ ~ToolAdded =>
    /\ OpenContexts \subseteq {on[t] : t \in crossed} \union {orphan}
    /\ crossed = {} => orphan = None
    /\ \A t, u \in crossed : t = u

\* However a call goes, its provider has one session, ends with
\* it, and its close() is final.
OneCall == TypeOK /\ OneSession /\ EndsWithCall /\ CloseLeaves

\* An event task whose session was dropped gets one that is open, or ends: it
\* neither waits for ever on the old one nor retries for ever.
DropAnswered ==
  (at[Events] = "receiving" /\ state[on[Events]] = "dropped")
    ~> (at[Events] = "ended" \/ (at[Events] = "receiving" /\ state[on[Events]] = "open"))

-----------------------------------------------------------------------------
(* What the code says and does not do                                      *)

\* "Failed to reconnect Gemini session after 3 attempts" (llm_live.py:452):
\* the event task gives up a session only after three attempts to replace it.
GivesUpAfterThree == asked => tries = MaxAttempts
=============================================================================
