---------------------------- MODULE SharedModel ----------------------------
(***************************************************************************)
(* The model shared by all providers of a class, and its setup() without a *)
(* lock: _shared_model and _loaded_model_version of SamProvider,           *)
(* _shared_reader and _shared_languages of OCRProvider.                    *)
(*                                                                         *)
(* Each provider's load(), in a background task, sets the class up for its *)
(* own variant (model version, languages) and then takes whatever model    *)
(* the class has.  Between the test and the two assignments of setup() the *)
(* variant is built in the executor, where the tasks of other providers go *)
(* through the same code.                                                  *)
(***************************************************************************)
EXTENDS Naturals

CONSTANTS
  Provider,   \* the provider instances
  Variant,    \* what model they may ask for
  None,       \* Python's None
  Swallow     \* setup() logs a failed build (OCR) and does not raise (SAM)

ASSUME SharedModelAssumption ==
  /\ None \notin Variant
  /\ Swallow \in BOOLEAN

VARIABLES
  wants,      \* the variant of each provider, from its parameters
  task,       \* its load(): "new", "building", "ended", "failed"
  model,      \* self.model / self.reader: the variant it was built for
  shared,     \* _shared_model: the variant it was built for
  loaded      \* _loaded_model_version / _shared_languages

vars == <<wants, task, model, shared, loaded>>

TypeOK ==
  /\ wants \in [Provider -> Variant]
  /\ task \in [Provider -> {"new", "building", "ended", "failed"}]
  /\ model \in [Provider -> Variant \union {None}]
  /\ shared \in Variant \union {None}
  /\ loaded \in Variant \union {None}

Init ==
  /\ wants \in [Provider -> Variant]
  /\ task = [p \in Provider |-> "new"]
  /\ model = [p \in Provider |-> None]
  /\ shared = None
  /\ loaded = None

\* The last statement of load().
Take(p, m) ==
  /\ task' = [task EXCEPT ![p] = "ended"]
  /\ model' = [model EXCEPT ![p] = m]

\* load() up to the build: a model loaded for the same variant is reused.
Load(p) ==
  /\ task[p] = "new"
  /\ IF shared # None /\ loaded = wants[p]
     THEN Take(p, shared)
     ELSE task' = [task EXCEPT ![p] = "building"] /\ UNCHANGED model
  /\ UNCHANGED <<wants, shared, loaded>>

\* Mutant: the second of two concurrent builds is dropped, its variant kept.
BuiltKeepsFirst(p) ==
  /\ task[p] = "building"
  /\ shared' = IF shared = None THEN wants[p] ELSE shared
  /\ loaded' = wants[p]
  /\ Take(p, shared')
  /\ UNCHANGED wants

\* The executor has built it: both class attributes are assigned and load()
\* takes the shared model, with no await in between.
Built(p) ==
  /\ task[p] = "building"
  /\ shared' = wants[p]
  /\ loaded' = wants[p]
  /\ Take(p, shared')
  /\ UNCHANGED wants

\* The build raises.
BuildFails(p) ==
  /\ task[p] = "building"
  /\ IF Swallow
     THEN Take(p, shared)
     ELSE task' = [task EXCEPT ![p] = "failed"] /\ UNCHANGED model
  /\ UNCHANGED <<wants, shared, loaded>>

\* The provider's close(), at any time: a load under way goes on.
Close(p) ==
  /\ task[p] # "new"
  /\ model' = [model EXCEPT ![p] = None]
  /\ UNCHANGED <<wants, task, shared, loaded>>

Next == \E p \in Provider : Load(p) \/ Built(p) \/ BuildFails(p) \/ Close(p)

Spec == Init /\ [][Next]_vars

-----------------------------------------------------------------------------
\* A provider runs the variant it was asked for, however the loads of others
\* interleave with its own (sam3.py:20-28, 76-79; for OCR, ocr.py:36 "If a
\* reader is already loaded for the same languages, reuse it").
RightModel == \A p \in Provider : model[p] \in {None, wants[p]}

\* What the class says is loaded is what it has: a later provider does not
\* reuse a model of another variant.
RecordMatches == shared = loaded
=============================================================================
