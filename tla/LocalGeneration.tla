-------------------------- MODULE LocalGeneration --------------------------
(***************************************************************************)
(* The local language model (local_llm/local_llm.py): every message starts *)
(* a generation in a thread of its own, whose tokens a task collects, and  *)
(* all of them share the flag generation_cancelled, which clear() sets and *)
(* the next send() resets.                                                 *)
(***************************************************************************)
EXTENDS Naturals, FiniteSets

CONSTANTS
  MaxGenerations,  \* bound on the messages sent
  MaxResponse      \* bound on the tokens of an answer

ASSUME TextAssumption == MaxGenerations \in Nat /\ MaxResponse \in Nat

Generations == 1 .. MaxGenerations

VARIABLES
  llm,          \* whether self.tokenizer and self.model are there
  llmLoad,      \* what connect() awaits: "none", "tokenizer", "model", "over"
  flag,         \* generation_cancelled
  reader,       \* the task of each generation
  response,     \* tokens in full_response
  answered,     \* generations whose response was emitted
  interrupted,  \* history: begun when clear() was called
  revived       \* history: and still under way when another message came

textVars == <<llm, llmLoad, flag, reader, response, answered, interrupted, revived>>

TextTypeOK ==
  /\ llm \in [tokenizer : BOOLEAN, model : BOOLEAN]
  /\ llmLoad \in {"none", "tokenizer", "model", "over"}
  /\ flag \in BOOLEAN
  /\ reader \in [Generations -> {"unused", "reading", "pausing", "stuck", "over"}]
  /\ response \in [Generations -> 0 .. MaxResponse]
  /\ answered \subseteq Generations /\ revived \subseteq interrupted
  /\ interrupted \subseteq Generations

TextInit ==
  /\ llm = [tokenizer |-> FALSE, model |-> FALSE] /\ llmLoad = "none"
  /\ flag = FALSE
  /\ reader = [g \in Generations |-> "unused"] /\ response = [g \in Generations |-> 0]
  /\ answered = {} /\ interrupted = {} /\ revived = {}

UnderWay == {g \in Generations : reader[g] \in {"reading", "pausing"}}

\* The tokenizer and then the model are loaded in an executor; close() does
\* not wait for it, and what is loaded after it stays.
LlmConnect ==
  /\ llmLoad = "none" /\ llmLoad' = "tokenizer"
  /\ UNCHANGED <<llm, flag, reader, response, answered, interrupted, revived>>

TokenizerLoaded ==
  /\ llmLoad = "tokenizer" /\ llmLoad' = "model"
  /\ llm' = [llm EXCEPT !.tokenizer = TRUE]
  /\ UNCHANGED <<flag, reader, response, answered, interrupted, revived>>

LlmConnected ==
  /\ llmLoad = "model" /\ llmLoad' = "over"
  /\ llm' = [llm EXCEPT !.model = TRUE]
  /\ UNCHANGED <<flag, reader, response, answered, interrupted, revived>>

\* A message: the flag is reset, and when there is a model a generation begins.
SendText ==
  /\ flag' = FALSE
  /\ revived' = revived \union (interrupted \intersect UnderWay)
  /\ IF llm.model /\ llm.tokenizer
     THEN \E g \in Generations :
            /\ reader[g] = "unused" /\ \A other \in Generations : other < g => reader[other] # "unused"
            /\ reader' = [reader EXCEPT ![g] = "reading"]
     ELSE UNCHANGED reader
  /\ UNCHANGED <<llm, llmLoad, response, answered, interrupted>>

\* The next token, unless the generation is cancelled.
Streamed(g) ==
  /\ reader[g] = "reading"
  /\ IF flag THEN reader' = [reader EXCEPT ![g] = "over"] /\ UNCHANGED response
     ELSE /\ response[g] < MaxResponse
          /\ response' = [response EXCEPT ![g] = @ + 1]
          /\ reader' = [reader EXCEPT ![g] = "pausing"]
  /\ UNCHANGED <<llm, llmLoad, flag, answered, interrupted, revived>>

Resumes(g) ==
  /\ reader[g] = "pausing"
  /\ reader' = [reader EXCEPT ![g] = "reading"]
  /\ UNCHANGED <<llm, llmLoad, flag, response, answered, interrupted, revived>>

\* Mutant: only the loop looks at the flag.
AnswersAlways(g) == response[g] > 0

Answers(g) == response[g] > 0 /\ ~flag

\* There are no more tokens.
GenerationEnds(g) ==
  /\ reader[g] = "reading"
  /\ reader' = [reader EXCEPT ![g] = "over"]
  /\ answered' = IF Answers(g) THEN answered \union {g} ELSE answered
  /\ UNCHANGED <<llm, llmLoad, flag, response, interrupted, revived>>

\* The thread raised, which ends no stream: the task waits for its next token
\* for ever, and keeps a thread of the default executor.
ThreadRaises(g) ==
  /\ reader[g] = "reading"
  /\ reader' = [reader EXCEPT ![g] = "stuck"]
  /\ UNCHANGED <<llm, llmLoad, flag, response, answered, interrupted, revived>>

\* clear(), which a model's "interrupted" event calls.
ClearText ==
  /\ flag' = TRUE
  /\ interrupted' = interrupted \union UnderWay
  /\ UNCHANGED <<llm, llmLoad, reader, response, answered, revived>>

CloseText ==
  /\ llm' = [tokenizer |-> FALSE, model |-> FALSE] /\ flag' = TRUE
  /\ interrupted' = interrupted \union UnderWay
  /\ UNCHANGED <<llmLoad, reader, response, answered, revived>>

TextNext ==
  \/ LlmConnect \/ TokenizerLoaded \/ LlmConnected \/ SendText \/ ClearText \/ CloseText
  \/ \E g \in Generations : Streamed(g) \/ Resumes(g) \/ GenerationEnds(g) \/ ThreadRaises(g)

TextSpec == TextInit /\ [][TextNext]_textVars

-----------------------------------------------------------------------------
\* An answer is emitted of a generation that no clear() or close() came after,
\* or of one that was revived: another message, even one sent to a closed
\* model, reset the flag before the generation looked at it
\* (local_llm.py:59, 109, 120).
InterruptedSilent == TextTypeOK /\ answered \intersect interrupted \subseteq revived
=============================================================================
