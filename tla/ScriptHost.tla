----------------------------- MODULE ScriptHost -----------------------------
(***************************************************************************)
(* The scripts of one connection (script_manager.py) and the event         *)
(* handlers they put on its models (model.py: on, off, _emit).  A script's *)
(* code runs synchronously inside the event loop, so nothing else happens  *)
(* until it returns, but it may be run by every event and tool call and    *)
(* may then register and remove handlers, also while the list of the event *)
(* is being walked.                                                        *)
(***************************************************************************)
EXTENDS Naturals, FiniteSets, Sequences, SequencesExt

CONSTANTS
  NumScripts,   \* the dynamic script and LOADED_SCRIPTS, in the order of run_setup
  Target,       \* the models, with the event the handlers are for
  MaxHandlers   \* bound on the handlers registered

\* "none" is the target of no walk.
ASSUME ScriptAssumption ==
  NumScripts \in Nat /\ MaxHandlers \in Nat /\ "none" \notin Target

Script == 1 .. NumScripts
ServerHandler == 0               \* the connection's own handler of the event
Handler == 1 .. MaxHandlers
Nobody == NumScripts + 1

VARIABLES
  stage,       \* "setup", "open", "teardown", "over", of the script scriptNext
  scriptNext,
  code,        \* the script whose code runs, and what for
  contexts,    \* scripts with an entry in contexts
  handlers,    \* _event_handlers of each target
  callbacks,   \* of each script: the handlers it could remove
  tools,       \* of each script: it has added a tool to a model
  owner,       \* owner of each handler, Nobody for one that is not yet made
  walk,        \* the _emit under way: its target and the index reached
  due,         \* history: handlers registered when it began and not removed since
  heardIt,     \* history: handlers it has called
  removals,    \* history: handlers removed since it began
  broken,      \* history: scripts whose code raised before its context was kept
  lateHandlers \* history: handlers registered after the teardown

walkVars == <<walk, due, heardIt, removals>>
scriptVars == <<stage, scriptNext, code, contexts, handlers, callbacks, tools, owner,
                walkVars, broken, lateHandlers>>

(***************************************************************************)
(*  code.for  "nothing", "top" (the script's top level), "setup",          *)
(*            "handler", "tool", "teardown"                                *)
(***************************************************************************)
NoCode == [of |-> Nobody, for |-> "nothing"]
NoWalk == [target |-> "none", at |-> 0]

ScriptTypeOK ==
  /\ stage \in {"setup", "open", "teardown", "over"}
  /\ scriptNext \in 1 .. Nobody
  /\ code \in [of : Script, for : {"top", "setup", "handler", "tool", "teardown"}] \union {NoCode}
  /\ contexts \subseteq Script /\ broken \subseteq Script
  /\ handlers \in [Target -> Seq(Handler \union {ServerHandler})]
  /\ callbacks \in [Script -> SUBSET Handler] /\ tools \subseteq Script
  /\ owner \in [Handler -> {Nobody} \union Script]
  /\ walk \in [target : Target, at : Nat] \union {NoWalk}
  /\ due \union heardIt \subseteq Handler \union {ServerHandler} /\ removals \in Nat
  /\ lateHandlers \subseteq Handler

ScriptInit ==
  /\ stage = "setup" /\ scriptNext = 1 /\ code = NoCode
  /\ contexts = {} /\ broken = {}
  /\ handlers = [m \in Target |-> <<>>]
  /\ callbacks = [s \in Script |-> {}] /\ tools = {}
  /\ owner = [h \in Handler |-> Nobody]
  /\ walk = NoWalk /\ due = {} /\ heardIt = {} /\ removals = 0
  /\ lateHandlers = {}

Idle == code = NoCode /\ walk = NoWalk
RunsCode(s, for) == code' = [of |-> s, for |-> for]

\* A handler that is not yet made.
Fresh(h) == owner[h] = Nobody /\ \A g \in 1 .. h - 1 : owner[g] # Nobody

-----------------------------------------------------------------------------
(* What a script's code does                                               *)

\* model.on
ScriptOn ==
  /\ code # NoCode
  /\ \E h \in Handler, m \in Target :
       /\ Fresh(h)
       /\ owner' = [owner EXCEPT ![h] = code.of]
       /\ handlers' = [handlers EXCEPT ![m] = Append(@, h)]
       /\ callbacks' = [callbacks EXCEPT ![code.of] = @ \union {h}]
       /\ lateHandlers' = IF stage = "over" THEN lateHandlers \union {h} ELSE lateHandlers
  /\ UNCHANGED <<stage, scriptNext, code, contexts, tools, walkVars, broken>>

\* A list without the handlers that are gone.
Without(list, gone) ==
  LET left == {i \in DOMAIN list : list[i] \notin gone}
  IN [n \in 1 .. Cardinality(left) |->
        list[CHOOSE i \in left : Cardinality({j \in left : j <= i}) = n]]

\* Mutant: all the handlers of the event go.
TakenOffAll(h) == handlers' = [m \in Target |-> IF Contains(handlers[m], h) THEN <<>> ELSE handlers[m]]

\* m.off(event, handler)
TakenOff(h) == handlers' = [m \in Target |-> Without(handlers[m], {h})]

\* model.off: found among the callbacks, and popped from them.
ScriptOff ==
  /\ code # NoCode
  /\ \E h \in callbacks[code.of] :
       /\ callbacks' = [callbacks EXCEPT ![code.of] = @ \ {h}]
       /\ TakenOff(h)
       /\ due' = due \ {h}
       /\ removals' = IF walk = NoWalk THEN removals ELSE removals + 1
  /\ UNCHANGED <<stage, scriptNext, code, contexts, tools, owner, walk, heardIt, broken, lateHandlers>>

\* model.addTool
ScriptAddsTool ==
  /\ code # NoCode /\ code.of \notin tools
  /\ tools' = tools \union {code.of}
  /\ UNCHANGED <<stage, scriptNext, code, contexts, handlers, callbacks, owner, walkVars, broken, lateHandlers>>

-----------------------------------------------------------------------------
(* run_setup                                                               *)

SetupBegins ==
  /\ stage = "setup" /\ Idle /\ scriptNext \in Script
  /\ RunsCode(scriptNext, "top")
  /\ UNCHANGED <<stage, scriptNext, contexts, handlers, callbacks, tools, owner, walkVars, broken, lateHandlers>>

\* The script was evaluated: its context is kept and its setup() runs.
TopLevelEnds ==
  /\ code.for = "top"
  /\ contexts' = contexts \union {code.of}
  /\ RunsCode(code.of, "setup")
  /\ UNCHANGED <<stage, scriptNext, handlers, callbacks, tools, owner, walkVars, broken, lateHandlers>>

\* It raised, which run_setup only logs.
TopLevelRaises ==
  /\ code.for = "top"
  /\ broken' = broken \union {code.of}
  /\ code' = NoCode /\ scriptNext' = scriptNext + 1
  /\ UNCHANGED <<stage, contexts, handlers, callbacks, tools, owner, walkVars, lateHandlers>>

\* setup() returned or raised.
SetupEnds ==
  /\ code.for = "setup"
  /\ code' = NoCode /\ scriptNext' = scriptNext + 1
  /\ UNCHANGED <<stage, contexts, handlers, callbacks, tools, owner, walkVars, broken, lateHandlers>>

\* _prepare goes on: the connection's handlers are registered.
Prepared ==
  /\ stage = "setup" /\ Idle /\ scriptNext = Nobody
  /\ stage' = "open" /\ scriptNext' = 1
  /\ handlers' = [m \in Target |-> Append(handlers[m], ServerHandler)]
  /\ UNCHANGED <<code, contexts, callbacks, tools, owner, walkVars, broken, lateHandlers>>

-----------------------------------------------------------------------------
(* Events and tool calls                                                   *)

\* _emit begins to walk the list of the event.
Emit(m) ==
  /\ stage \in {"open", "over"} /\ Idle /\ handlers[m] # <<>>
  /\ walk' = [target |-> m, at |-> 1]
  /\ due' = ToSet(handlers[m]) /\ heardIt' = {} /\ removals' = 0
  /\ UNCHANGED <<stage, scriptNext, code, contexts, handlers, callbacks, tools, owner, broken, lateHandlers>>

\* The next handler of the list, as it now is, is called.
Calls ==
  /\ walk # NoWalk /\ code = NoCode
  /\ walk.at <= Len(handlers[walk.target])
  /\ LET h == handlers[walk.target][walk.at] IN
       /\ heardIt' = heardIt \union {h}
       /\ IF h = ServerHandler THEN UNCHANGED code ELSE RunsCode(owner[h], "handler")
  /\ walk' = [walk EXCEPT !.at = @ + 1]
  /\ UNCHANGED <<stage, scriptNext, contexts, handlers, callbacks, tools, owner, due, removals, broken, lateHandlers>>

Emitted ==
  /\ walk # NoWalk /\ code = NoCode
  /\ walk.at > Len(handlers[walk.target])
  /\ walk' = NoWalk /\ due' = {} /\ heardIt' = {} /\ removals' = 0
  /\ UNCHANGED <<stage, scriptNext, code, contexts, handlers, callbacks, tools, owner, broken, lateHandlers>>

\* on_tool_called, or one of its polls that runs the script's pending jobs:
\* a tool stays with the model when the script is torn down.
ToolRuns(s) ==
  /\ stage \in {"open", "over"} /\ Idle /\ s \in tools
  /\ RunsCode(s, "tool")
  /\ UNCHANGED <<stage, scriptNext, contexts, handlers, callbacks, tools, owner, walkVars, broken, lateHandlers>>

Returns ==
  /\ code.for \in {"handler", "tool"}
  /\ code' = NoCode
  /\ UNCHANGED <<stage, scriptNext, contexts, handlers, callbacks, tools, owner, walkVars, broken, lateHandlers>>

-----------------------------------------------------------------------------
(* run_teardown, called once by the connection's close()                   *)

TeardownStarts ==
  /\ stage = "open" /\ Idle
  /\ stage' = "teardown"
  /\ UNCHANGED <<scriptNext, code, contexts, handlers, callbacks, tools, owner, walkVars, broken, lateHandlers>>

\* The script has a context: its teardown() runs.
TeardownBegins ==
  /\ stage = "teardown" /\ Idle /\ scriptNext \in contexts
  /\ RunsCode(scriptNext, "teardown")
  /\ UNCHANGED <<stage, scriptNext, contexts, handlers, callbacks, tools, owner, walkVars, broken, lateHandlers>>

\* Mutant: the handlers are left to the models.
CleanedContext(s) == contexts' = contexts \ {s} /\ UNCHANGED handlers

\* The handlers of its callbacks are taken off, and its context is dropped.
Cleaned(s) ==
  /\ contexts' = contexts \ {s}
  /\ handlers' = [m \in Target |-> Without(handlers[m], callbacks[s])]

TeardownEnds ==
  /\ code.for = "teardown"
  /\ Cleaned(code.of)
  /\ code' = NoCode /\ scriptNext' = scriptNext + 1
  /\ UNCHANGED <<stage, callbacks, tools, owner, walkVars, broken, lateHandlers>>

\* A script whose top level raised has no context.
TeardownSkips ==
  /\ stage = "teardown" /\ Idle /\ scriptNext \in Script \ contexts
  /\ scriptNext' = scriptNext + 1
  /\ UNCHANGED <<stage, code, contexts, handlers, callbacks, tools, owner, walkVars, broken, lateHandlers>>

TornDownAll ==
  /\ stage = "teardown" /\ Idle /\ scriptNext = Nobody
  /\ stage' = "over"
  /\ UNCHANGED <<scriptNext, code, contexts, handlers, callbacks, tools, owner, walkVars, broken, lateHandlers>>

ScriptNext ==
  \/ ScriptOn \/ ScriptOff \/ ScriptAddsTool
  \/ SetupBegins \/ TopLevelEnds \/ TopLevelRaises \/ SetupEnds \/ Prepared
  \/ Calls \/ Emitted \/ Returns
  \/ \E m \in Target : Emit(m)
  \/ \E s \in Script : ToolRuns(s)
  \/ TeardownStarts \/ TeardownBegins \/ TeardownEnds \/ TeardownSkips \/ TornDownAll

ScriptSpec == ScriptInit /\ [][ScriptNext]_scriptVars

-----------------------------------------------------------------------------
\* Whatever order a script's code registers and removes its handlers in, once
\* it is torn down none of them is left on a model, except those of a script
\* whose top level raised, which has no context to tear down, and those that its
\* tools, which stay, registered afterwards (script_manager.py:415, 424-440).
ScriptsTornDown ==
  /\ ScriptTypeOK
  /\ stage = "over" =>
       \A m \in Target : \A h \in ToSet(handlers[m]) :
         h = ServerHandler \/ owner[h] \in broken \/ h \in lateHandlers

\* Of the handlers that were there when an event was emitted and were not
\* removed meanwhile, it misses at most as many as were removed: each removal
\* moves one past the loop's index (model.py:240-256).
FewSkipped ==
  walk # NoWalk /\ code = NoCode /\ walk.at > Len(handlers[walk.target]) =>
    Cardinality(due \ heardIt) <= removals
=============================================================================
