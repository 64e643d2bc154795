------------------------- MODULE LiveModels_proofs -------------------------
(***************************************************************************)
(* Proofs about the two providers that keep a session with a live service: *)
(* GeminiLive, for any number of tools added in mid-call and of sending    *)
(* tasks, and RoboticsLive, for any number of turns and of sessions.       *)
(*                                                                         *)
(* GeminiInv says, beside what is to be shown, which task owns a context   *)
(* that is being entered or left (Owned), that there is a context left for *)
(* every connect() that may still run (Budgeted), and what a call without  *)
(* tools keeps to (Quiet, Attended).  RoboticsInv says which session can   *)
(* be open (Doors) and counts, for the session that is received from, the  *)
(* answers taken and the turns that had one (InOrder), which bounds how    *)
(* late the answer of a turn is (InTime).                                  *)
(***************************************************************************)
EXTENDS GeminiLive, RoboticsLive, FiniteSetTheorems, TLAPS

-----------------------------------------------------------------------------
(* The inductive invariant of GeminiLive                                   *)

(* Where each task can be. *)
Staged ==
  /\ at[Start] \in {"new", "leaving", "entering", "done", "failed"}
  /\ at[Events] \in {"none", "spawned", "receiving", "calling", "leaving", "entering", "sleeping", "ended"}
  /\ at[Closer] \in {"none", "requested", "closing", "closed"}
  /\ \A t \in Tool : at[t] \in {"none", "begun", "requested", "closing", "closed",
                                "leaving", "entering", "done"}
  /\ \A t \in Sender : at[t] \in {"idle", "sending", "leaving"}
  /\ at[Events] # "none" => at[Start] = "done"
  /\ crossed # {} => at[Closer] # "none"

Busy == {"leaving", "closing", "entering"}

(* A context that is being entered or left is so by one task, which knows it. *)
Owned ==
  /\ \A t \in Task :
       /\ at[t] \in Busy => on[t] \in Context
       /\ at[t] = "entering" => state[on[t]] = "entering"
       /\ at[t] \in {"leaving", "closing"} => state[on[t]] = "closing"
  /\ \A t, u \in Task : at[t] \in Busy /\ at[u] \in Busy /\ on[t] = on[u] => t = u
  /\ \A n \in Context : state[n] = "entering" => \E t \in Connecting : at[t] = "entering" /\ on[t] = n

(* The connect() calls that may still enter a context ... *)
ToolsOwed == {t \in Tool : at[t] \notin {"entering", "done"}}
Owed ==
  (IF at[Start] \in {"new", "leaving"} THEN 1 ELSE 0)
  + (IF at[Events] = "leaving" THEN 1 ELSE 0)
  + (MaxAttempts - attempts)
  + Cardinality(ToolsOwed)

(* ... find one, as the contexts used are the first ones. *)
Budget == 1 + MaxAttempts + Cardinality(Tool)
Spare(k) ==
  /\ \A n \in Context : state[n] # "unused" <=> n <= k
  /\ k + Owed <= Budget

Budgeted == tries <= attempts /\ \E k \in 0 .. Budget : Spare(k)

(* A close() that meets nobody. *)
Final ==
  /\ orphan = None
  /\ at[Closer] # "none" =>
       /\ isClosing
       /\ at[Start] \in {"done", "failed"}
       /\ at[Events] \notin {"leaving", "entering", "sleeping"}
  /\ at[Closer] \in {"closing", "closed"} => OpenContexts = {}

(* Without tools: only self.session_context and what close() forgot may be
   open, a task that leaves a context to connect leaves this one, unless close()
   has forgotten it, and the event task's session is the one it works with.  Once
   close() was called nobody connects but the task it met, which is all that
   has a context when close() is over. *)
Quiet ==
  ~ToolAdded =>
    /\ \A n \in OpenContexts : n = context \/ n = orphan
    /\ \A t \in {Start, Events} : at[t] = "leaving" => context \in {on[t], None}
    /\ at[Events] \in {"receiving", "calling"} => session \in {None, on[Events]}
    /\ at[Closer] # "closed" => orphan = None
    /\ at[Closer] = "closed" => \A n \in OpenContexts : n = orphan \/ \E t \in crossed : n = on[t]
    /\ crossed \in {{}, {Start}, {Events}}
    /\ Start \in crossed => at[Events] = "none"
    /\ Events \in crossed => at[Events] \notin {"none", "spawned"}
    /\ crossed = {} => Final

(* The event task of a call that nobody disturbs has a session. *)
Undisturbed == at[Closer] = "none" /\ ~ToolAdded
Attended ==
  /\ EndsWithCall
  /\ Undisturbed =>
       /\ ~isClosing
       /\ ~lost /\ at[Start] = "done" /\ at[Events] \in {"none", "spawned", "receiving", "calling"} =>
            session # None

GeminiInv == TypeOK /\ Staged /\ Owned /\ Budgeted /\ Quiet /\ Attended

-----------------------------------------------------------------------------
LEMMA GeminiInvSuffices == GeminiInv => OneCall
<1> SUFFICES ASSUME GeminiInv PROVE OneCall
  OBVIOUS
<1> USE DEF GeminiInv
<1>1. OneSession
  BY DEF Quiet, OneSession
<1>2. CloseLeaves
  <2> SUFFICES ASSUME at[Closer] = "closed", ~ToolAdded
      PROVE  /\ OpenContexts \subseteq {on[t] : t \in crossed} \union {orphan}
             /\ crossed = {} => orphan = None
             /\ \A t, u \in crossed : t = u
    BY DEF CloseLeaves
  <2>1. OpenContexts \subseteq {on[t] : t \in crossed} \union {orphan}
    BY DEF Quiet
  <2>2. crossed = {} => orphan = None
    BY DEF Quiet, Final
  <2>3. \A t, u \in crossed : t = u
    BY DEF Quiet
  <2>4. QED BY <2>1, <2>2, <2>3
<1>3. QED BY <1>1, <1>2 DEF OneCall, Attended

LEMMA TasksDistinct ==
  /\ Start # Events /\ Start # Closer /\ Events # Closer
  /\ \A t \in Tool \union Sender : t \notin {Start, Events, Closer}
  /\ \A t \in Tool : t \notin Sender
  /\ Connecting \subseteq Task /\ Tool \subseteq Task /\ Sender \subseteq Task
  /\ {Start, Events, Closer} \subseteq Task
BY GeminiAssumption DEF Start, Events, Closer, Task, Connecting

LEMMA BudgetType == Cardinality(Tool) \in Nat /\ Budget \in Nat /\ Context = 1 .. Budget /\ None \notin Context
BY GeminiAssumption, FS_CardinalityType DEF Budget, Context, MaxAttempts, None

LEMMA OwedType ==
  ASSUME TypeOK, Staged
  PROVE  /\ IsFiniteSet(ToolsOwed) /\ Cardinality(ToolsOwed) \in Nat
         /\ Owed \in Nat
<1>1. IsFiniteSet(ToolsOwed)
  BY GeminiAssumption, FS_Subset DEF ToolsOwed
<1>2. Cardinality(ToolsOwed) \in Nat
  BY <1>1, FS_CardinalityType
<1>3. QED
  BY <1>1, <1>2 DEF Owed, TypeOK, MaxAttempts

LEMMA NextContext ==
  ASSUME TypeOK, NEW k \in 0 .. Budget, Spare(k), k < Budget
  PROVE  /\ FirstUnused = k + 1 /\ FirstUnused \in Context
         /\ state[FirstUnused] = "unused"
<1>1. k + 1 \in Context /\ state[k + 1] = "unused"
  BY BudgetType DEF Spare
<1>2. \A m \in Context : m < k + 1 => state[m] # "unused"
  BY BudgetType DEF Spare
<1>3. \A n \in Context : state[n] = "unused" /\ (\A m \in Context : m < n => state[m] # "unused") => n = k + 1
  BY <1>1, BudgetType DEF Spare
<1>4. QED
  BY <1>1, <1>2, <1>3 DEF FirstUnused

(* A tool's task that enters a context owes none any more. *)
LEMMA ToolPays ==
  ASSUME TypeOK, NEW t \in Tool, at[t] \notin {"entering", "done"}
  PROVE  /\ IsFiniteSet(ToolsOwed \ {t})
         /\ Cardinality(ToolsOwed \ {t}) = Cardinality(ToolsOwed) - 1
         /\ Cardinality(ToolsOwed \ {t}) \in Nat
<1>1. IsFiniteSet(ToolsOwed) /\ t \in ToolsOwed
  BY GeminiAssumption, FS_Subset DEF ToolsOwed
<1>2. QED
  BY <1>1, FS_RemoveElement, FS_CardinalityType

(* connect() enters a context: one there is still one for. *)
LEMMA EnterStep ==
  ASSUME GeminiInv, NEW t \in Connecting, NEW old, Enter(t, old),
         \/ at[t] = "leaving" /\ old = Left(t)
         \/ at[t] \notin Busy /\ old = state /\ ~Exitable,
         t = Start => at[t] \in {"new", "leaving"},
         t = Events => at[t] \in {"leaving", "sleeping"} \/ (at[t] \in {"receiving", "calling"} /\ ~isClosing),
         t \in Tool => at[t] \in {"closed", "leaving"},
         attempts' = IF t = Events /\ at[t] # "leaving" THEN attempts + 1 ELSE attempts,
         attempts' \in 0 .. MaxAttempts, tries' \in 0 .. attempts',
         UNCHANGED <<asked, lost, crossed, orphan>>
  PROVE  GeminiInv'
<1> USE TasksDistinct DEF GeminiInv, Enter, GoesOn
<1> DEFINE n == FirstUnused
<1>1. PICK k \in 0 .. Budget : Spare(k)
  BY DEF Budgeted
<1>2. TypeOK /\ t \in Task /\ at[t] \in Stages /\ attempts \in 0 .. MaxAttempts
  BY DEF TypeOK
<1>3. at' = [at EXCEPT ![t] = "entering"] /\ at'[t] = "entering" /\ \A u \in Task \ {t} : at'[u] = at[u]
  BY <1>2 DEF TypeOK
<1>4. Owed \in Nat /\ Owed' \in Nat /\ Owed' = Owed - 1
  <2>1. CASE t \in Tool
    <3>1. ToolsOwed' = ToolsOwed \ {t}
      BY <1>3, <2>1 DEF ToolsOwed
    <3>2. at'[Start] = at[Start] /\ at'[Events] = at[Events] /\ attempts' = attempts
      BY <1>3, <2>1
    <3>3. /\ Cardinality(ToolsOwed \ {t}) = Cardinality(ToolsOwed) - 1
          /\ Cardinality(ToolsOwed \ {t}) \in Nat /\ Cardinality(ToolsOwed) \in Nat
      BY <1>2, <2>1, ToolPays, OwedType
    <3>4. QED BY <1>2, <3>1, <3>2, <3>3 DEF Owed, MaxAttempts
  <2>2. CASE t \in {Start, Events}
    <3>1. ToolsOwed' = ToolsOwed
      BY <1>3, <2>2 DEF ToolsOwed
    <3>2. QED BY <1>2, <1>3, <2>2, <3>1, OwedType DEF Owed, MaxAttempts, Busy
  <2>3. QED BY <2>1, <2>2 DEF Connecting
<1>5. k + Owed <= Budget /\ k < Budget /\ k + 1 \in 0 .. Budget
  BY <1>1, <1>4, BudgetType DEF Spare
<1>6. n = k + 1 /\ n \in Context /\ state[n] = "unused"
  BY <1>1, <1>2, <1>5, NextContext
<1>7. /\ at[t] = "leaving" => on[t] \in Context /\ on[t] # n /\ state[on[t]] = "closing"
      /\ \A u \in Task : at[u] \in Busy => on[u] # n
  BY <1>6 DEF Owned, Busy
<1>8. old \in [Context -> {"unused", "entering", "open", "dropped", "closing", "over"}]
  BY <1>2, <1>7 DEF TypeOK, Left
<1>9. state' = [old EXCEPT ![n] = "entering"] /\ state'[n] = "entering"
  BY <1>6, <1>8
<1>10. \A m \in Context \ {n} : state'[m] = IF at[t] = "leaving" /\ m = on[t] THEN "over" ELSE state[m]
  BY <1>2, <1>6, <1>7, <1>8, <1>9 DEF TypeOK, Left, Busy
<1>11. TypeOK'
  <2>1. at' \in [Task -> Stages] /\ on' \in [Task -> Context \union {None}]
    BY <1>2, <1>3, <1>6 DEF TypeOK, Stages
  <2>2. state' \in [Context -> {"unused", "entering", "open", "dropped", "closing", "over"}]
    BY <1>8, <1>9
  <2>3. tries' \in 0 .. MaxAttempts
    BY <1>2 DEF MaxAttempts
  <2>4. QED BY <1>6, <2>1, <2>2, <2>3 DEF TypeOK
<1>12. Staged'
  BY <1>3 DEF Staged, Connecting
<1>13. on'[t] = n /\ \A u \in Task \ {t} : on'[u] = on[u]
  BY <1>2 DEF TypeOK
<1>14. Owned'
  <2>1. ASSUME NEW u \in Task
        PROVE  /\ at'[u] \in Busy => on'[u] \in Context
               /\ at'[u] = "entering" => state'[on'[u]] = "entering"
               /\ at'[u] \in {"leaving", "closing"} => state'[on'[u]] = "closing"
    <3>1. CASE u = t BY <1>3, <1>6, <1>9, <1>13, <3>1
    <3>2. CASE u # t
      <4>1. at'[u] = at[u] /\ on'[u] = on[u]
        BY <1>3, <1>13, <3>2
      <4>2. at[u] \in Busy => on[u] \in Context \ {n} /\ ~(at[t] = "leaving" /\ on[u] = on[t])
        BY <1>7, <3>2 DEF Owned, Busy
      <4>3. at[u] \in Busy => state'[on[u]] = state[on[u]]
        BY <1>10, <4>2
      <4>4. QED BY <4>1, <4>2, <4>3 DEF Owned, Busy
    <3>3. QED BY <3>1, <3>2
  <2>2. ASSUME NEW u \in Task, NEW v \in Task, at'[u] \in Busy, at'[v] \in Busy, on'[u] = on'[v]
        PROVE  u = v
    BY <1>3, <1>7, <1>13, <2>2 DEF Owned
  <2>3. ASSUME NEW m \in Context, state'[m] = "entering"
        PROVE  \E u \in Connecting : at'[u] = "entering" /\ on'[u] = m
    <3>1. CASE m = n BY <1>3, <1>13, <3>1
    <3>2. CASE m # n
      <4>1. state[m] = "entering"
        BY <1>10, <2>3, <3>2
      <4>2. PICK u \in Connecting : at[u] = "entering" /\ on[u] = m
        BY <4>1 DEF Owned
      <4>3. u # t
        BY <4>2 DEF Busy
      <4>4. QED BY <1>3, <1>13, <4>2, <4>3
    <3>3. QED BY <3>1, <3>2
  <2>4. QED BY <2>1, <2>2, <2>3 DEF Owned
<1>15. Budgeted'
  <2>1. \A m \in Context : state'[m] # "unused" <=> m <= k + 1
    BY <1>1, <1>6, <1>7, <1>9, <1>10, BudgetType DEF Spare
  <2>2. Spare(k + 1)'
    BY <1>4, <1>5, <2>1, BudgetType DEF Spare, Budget
  <2>3. QED BY <1>5, <1>2, <2>2 DEF Budgeted, Budget
<1>16. t \in Tool => ToolAdded /\ ToolAdded'
  BY <1>3 DEF ToolAdded
<1>17. t \notin Tool => (ToolAdded <=> ToolAdded')
  BY <1>3 DEF ToolAdded
<1>18. Quiet'
  <2> SUFFICES ASSUME ~ToolAdded'
               PROVE  /\ \A m \in Context : state'[m] \in {"entering", "open"} => m = context' \/ m = orphan
                      /\ \A u \in {Start, Events} : at'[u] # "leaving"
                      /\ at'[Events] \notin {"receiving", "calling"}
                      /\ at[Closer] = at'[Closer]
                      /\ at[Closer] # "none" => t \in crossed
                      /\ at[Closer] # "closed" => orphan = None
                      /\ crossed \in {{}, {Start}, {Events}}
                      /\ Start \in crossed => at'[Events] = "none"
                      /\ Events \in crossed => at'[Events] \notin {"none", "spawned"}
                      /\ crossed = {} => orphan = None
    BY <1>3, <1>13 DEF Quiet, Final, OpenContexts
  <2>1. ~ToolAdded /\ t \in {Start, Events}
    BY <1>16, <1>17 DEF Connecting
  <2>2. /\ \A m \in Context : state[m] \in {"entering", "open"} => m = context \/ m = orphan
        /\ at[Closer] = at'[Closer]
        /\ at[Closer] # "closed" => orphan = None
        /\ crossed \in {{}, {Start}, {Events}}
        /\ Start \in crossed => at[Events] = "none"
        /\ Events \in crossed => at[Events] \notin {"none", "spawned"}
        /\ crossed = {} => orphan = None
    BY <1>3, <2>1 DEF Quiet, Final, OpenContexts
  <2>3. at[Closer] # "none" => t \in crossed
    BY <2>1, <2>2 DEF Quiet, Final, Staged
  <2>4. \A u \in {Start, Events} : at[u] \in {"leaving", "entering"} => u = t
    BY <2>1 DEF Staged
  <2>5. /\ \A u \in {Start, Events} : at'[u] # "leaving"
        /\ at'[Events] \notin {"receiving", "calling"}
        /\ Start \in crossed => at'[Events] = "none"
        /\ Events \in crossed => at'[Events] \notin {"none", "spawned"}
    BY <1>3, <2>1, <2>2, <2>4 DEF Staged
  <2>6. \A m \in Context : state[m] # "entering"
    <3> SUFFICES ASSUME NEW m \in Context, state[m] = "entering" PROVE FALSE
      OBVIOUS
    <3>1. PICK u \in Connecting : at[u] = "entering"
      BY DEF Owned
    <3>2. u \in {Start, Events}
      BY <2>1, <3>1 DEF Connecting, ToolAdded
    <3>3. QED BY <2>4, <3>1, <3>2 DEF Busy
  <2>7. \A m \in Context : state[m] = "open" => m = orphan
    <3>1. CASE at[t] = "leaving"
      <4>1. context \in {on[t], None}
        BY <2>1, <3>1 DEF Quiet
      <4>2. QED BY <1>7, <2>2, <3>1, <4>1, BudgetType
    <3>2. CASE ~Exitable
      BY <2>2, <3>2, BudgetType DEF Exitable
    <3>3. QED BY <3>1, <3>2
  <2>8. \A m \in Context : state'[m] \in {"entering", "open"} => m = n \/ m = orphan
    BY <1>10, <2>6, <2>7
  <2>9. QED BY <2>2, <2>3, <2>5, <2>8
<1>19. Attended'
  <2>1. EndsWithCall'
    BY <1>3, <1>16, <1>17 DEF Attended, EndsWithCall
  <2>2. Undisturbed' => t \in {Start, Events}
    BY <1>16 DEF Undisturbed, Connecting
  <2>3. Undisturbed' => at'[Start] # "done" \/ at'[Events] = "entering"
    BY <1>3, <2>2
  <2>4. QED BY <2>1, <2>3 DEF Attended
<1>20. QED BY <1>11, <1>12, <1>14, <1>15, <1>18, <1>19

(* connect() leaves the context that is there first. *)
LEMMA LeaveFirstStep ==
  ASSUME GeminiInv, NEW t \in Connecting, at[t] \notin Busy, Exitable, Leave(t, "leaving"),
         t = Start => at[t] = "new",
         t = Events => at[t] = "sleeping" \/ (at[t] \in {"receiving", "calling"} /\ ~isClosing),
         t \in Tool => at[t] = "closed",
         attempts' = IF t = Events THEN attempts + 1 ELSE attempts,
         attempts' \in 0 .. MaxAttempts, tries' \in 0 .. attempts',
         UNCHANGED <<session, context, isClosing, asked, lost, crossed, orphan>>
  PROVE  GeminiInv'
<1> USE TasksDistinct DEF GeminiInv, Leave, GoesOn
<1>1. TypeOK /\ t \in Task /\ attempts \in 0 .. MaxAttempts /\ context \in Context
      /\ state[context] \in {"open", "dropped"}
  BY DEF TypeOK, Exitable
<1>2. /\ at' = [at EXCEPT ![t] = "leaving"] /\ at'[t] = "leaving" /\ \A u \in Task \ {t} : at'[u] = at[u]
      /\ on'[t] = context /\ \A u \in Task \ {t} : on'[u] = on[u]
      /\ state'[context] = "closing" /\ \A m \in Context \ {context} : state'[m] = state[m]
  BY <1>1 DEF TypeOK
<1>3. TypeOK'
  <2>1. at' \in [Task -> Stages] /\ on' \in [Task -> Context \union {None}]
    BY <1>1 DEF TypeOK, Stages
  <2>2. state' \in [Context -> {"unused", "entering", "open", "dropped", "closing", "over"}]
    BY <1>1 DEF TypeOK
  <2>3. tries' \in 0 .. MaxAttempts
    BY <1>1 DEF MaxAttempts
  <2>4. QED BY <2>1, <2>2, <2>3 DEF TypeOK
<1>4. Staged'
  BY <1>2 DEF Staged, Connecting
<1>5. Owned'
  <2>1. \A u \in Task : at[u] \in Busy => on[u] # context
    BY <1>1 DEF Owned, Busy
  <2>2. \A m \in Context : state'[m] = "entering" => state[m] = "entering"
    BY <1>2
  <2>3. \A u \in Connecting : at[u] = "entering" => u # t
    BY DEF Busy
  <2>4. QED BY <1>1, <1>2, <2>1, <2>2, <2>3 DEF Owned, Busy
<1>6. Budgeted'
  <2>1. Owed' = Owed
    <3>1. ToolsOwed' = ToolsOwed
      BY <1>2 DEF ToolsOwed, Busy
    <3>2. CASE t = Events
      BY <1>1, <1>2, <3>1, <3>2, OwedType DEF Owed, MaxAttempts
    <3>3. CASE t # Events
      <4>1. at'[Events] = at[Events] /\ attempts' = attempts
            /\ (at[Start] \in {"new", "leaving"} <=> at'[Start] \in {"new", "leaving"})
        BY <1>2, <3>3
      <4>2. QED BY <3>1, <4>1 DEF Owed
    <3>4. QED BY <3>2, <3>3
  <2>2. \A m \in Context : state'[m] = "unused" <=> state[m] = "unused"
    BY <1>1, <1>2
  <2>3. QED BY <2>1, <2>2 DEF Budgeted, Spare, Budget
<1>7. /\ t \in Tool => ToolAdded'
      /\ t \notin Tool => (ToolAdded <=> ToolAdded')
  BY <1>2 DEF ToolAdded
<1>8. Quiet'
  <2> SUFFICES ASSUME ~ToolAdded'
               PROVE  /\ \A m \in Context : state'[m] \in {"entering", "open"} => m = orphan
                      /\ \A u \in {Start, Events} : at'[u] = "leaving" => context \in {on'[u], None}
                      /\ at'[Events] \in {"receiving", "calling"} => session \in {None, on'[Events]}
                      /\ at[Closer] = at'[Closer]
                      /\ at[Closer] # "none" => t \in crossed
                      /\ at[Closer] # "closed" => orphan = None
                      /\ crossed \in {{}, {Start}, {Events}}
                      /\ Start \in crossed => at'[Events] = "none"
                      /\ Events \in crossed => at'[Events] \notin {"none", "spawned"}
                      /\ crossed = {} => orphan = None
    BY DEF Quiet, Final, OpenContexts
  <2>1. ~ToolAdded /\ t \in {Start, Events}
    BY <1>7 DEF Connecting
  <2>2. /\ \A m \in Context : state[m] \in {"entering", "open"} => m = context \/ m = orphan
        /\ at[Closer] = at'[Closer]
        /\ at[Closer] # "closed" => orphan = None
        /\ crossed \in {{}, {Start}, {Events}}
        /\ Start \in crossed => at[Events] = "none"
        /\ Events \in crossed => at[Events] \notin {"none", "spawned"}
        /\ crossed = {} => orphan = None
    BY <1>2, <2>1 DEF Quiet, Final, OpenContexts
  <2>3. at[Closer] # "none" => t \in crossed
    BY <2>1, <2>2 DEF Quiet, Final, Staged, Busy
  <2>4. \A m \in Context : state'[m] \in {"entering", "open"} => m = orphan
    BY <1>2, <2>2
  <2>5. /\ \A u \in {Start, Events} : at'[u] = "leaving" => context \in {on'[u], None}
        /\ at'[Events] \in {"receiving", "calling"} => session \in {None, on'[Events]}
    BY <1>2, <2>1 DEF Quiet
  <2>6. /\ Start \in crossed => at'[Events] = "none"
        /\ Events \in crossed => at'[Events] \notin {"none", "spawned"}
    BY <1>2, <2>1, <2>2 DEF Staged
  <2>7. QED BY <2>2, <2>3, <2>4, <2>5, <2>6
<1>9. Attended'
  BY <1>2, <1>7 DEF Attended, Undisturbed, EndsWithCall, Connecting
<1>10. QED BY <1>3, <1>4, <1>5, <1>6, <1>8, <1>9

(* connect(), whoever calls it. *)
LEMMA ConnectStep ==
  ASSUME GeminiInv, NEW t \in Connecting, at[t] \notin Busy, Connect(t),
         t = Start => at[t] = "new",
         t = Events => at[t] = "sleeping" \/ (at[t] \in {"receiving", "calling"} /\ ~isClosing),
         t \in Tool => at[t] = "closed",
         attempts' = IF t = Events THEN attempts + 1 ELSE attempts,
         attempts' \in 0 .. MaxAttempts, tries' \in 0 .. attempts',
         UNCHANGED <<asked, lost, crossed, orphan>>
  PROVE  GeminiInv'
<1>1. CASE Exitable BY <1>1, LeaveFirstStep DEF Connect
<1>2. CASE ~Exitable
  <2>1. Enter(t, state) /\ at[t] # "leaving"
    BY <1>2 DEF Connect, Busy
  <2>2. QED BY <1>2, <2>1, EnterStep
<1>3. QED BY <1>1, <1>2

LEMMA BeginStep ==
  ASSUME GeminiInv, Begin
  PROVE  GeminiInv'
<1>1. Start \in Connecting /\ Start # Events /\ Start \notin Tool
  BY TasksDistinct DEF Connecting
<1>2. attempts \in 0 .. MaxAttempts /\ tries \in 0 .. attempts
  BY DEF GeminiInv, TypeOK, Budgeted, MaxAttempts
<1>3. QED BY <1>1, <1>2, ConnectStep DEF Begin, ghosts, Busy

LEMMA ReconnectStep ==
  ASSUME GeminiInv, NEW t \in Connecting, Reconnect(t)
  PROVE  GeminiInv'
<1>2. attempts \in 0 .. MaxAttempts /\ tries \in 0 .. attempts
  BY DEF GeminiInv, TypeOK, Budgeted, MaxAttempts
<1>3. QED BY <1>2, EnterStep DEF Reconnect, ghosts

LEMMA ToolConnectsStep ==
  ASSUME GeminiInv, NEW t \in Tool, ToolConnects(t)
  PROVE  GeminiInv'
<1>1. t \in Connecting /\ t # Start /\ t # Events
  BY TasksDistinct DEF Connecting
<1>2. attempts \in 0 .. MaxAttempts /\ tries \in 0 .. attempts
  BY DEF GeminiInv, TypeOK, Budgeted, MaxAttempts
<1>3. QED BY <1>1, <1>2, ConnectStep DEF ToolConnects, ghosts, Busy

(* A task that enters or leaves no context goes on. *)
LEMMA MoveKeeps ==
  ASSUME GeminiInv, NEW t \in Task, NEW stage \in Stages \ Busy, at[t] \notin Busy,
         at' = [at EXCEPT ![t] = stage],
         on' = on \/ \E x \in Context \union {None} : on' = [on EXCEPT ![t] = x],
         t = Start => at[t] # "new" /\ stage # "new",
         t \in Tool => at[t] # "done" /\ stage # "done",
         session' \in Context \union {None}, context' \in Context \union {None},
         isClosing' \in BOOLEAN, asked' \in BOOLEAN, lost' \in BOOLEAN,
         crossed' \in SUBSET Connecting, orphan' \in Context \union {None},
         UNCHANGED <<state, attempts>>, tries' \in 0 .. attempts
  PROVE  /\ TypeOK' /\ Owned' /\ Budgeted'
         /\ at'[t] = stage /\ \A u \in Task \ {t} : at'[u] = at[u] /\ on'[u] = on[u]
<1> USE TasksDistinct DEF GeminiInv
<1>1. at'[t] = stage /\ \A u \in Task \ {t} : at'[u] = at[u] /\ on'[u] = on[u]
  BY DEF TypeOK
<1>2. TypeOK'
  <2>1. at' \in [Task -> Stages] /\ on' \in [Task -> Context \union {None}]
    BY DEF TypeOK
  <2>2. tries' \in 0 .. MaxAttempts /\ attempts \in 0 .. MaxAttempts
    BY DEF TypeOK, MaxAttempts
  <2>3. QED BY <2>1, <2>2 DEF TypeOK
<1>3. Owned'
  <2>1. \A u \in Task : (at'[u] \in Busy <=> at[u] \in Busy) /\ (at[u] \in Busy => at'[u] = at[u] /\ on'[u] = on[u])
    BY <1>1
  <2>2. Connecting \subseteq Task
    OBVIOUS
  <2>3. QED BY <2>1, <2>2 DEF Owned, Busy
<1>4. Budgeted'
  <2>1. ToolsOwed' = ToolsOwed
    BY <1>1 DEF ToolsOwed, Busy
  <2>2. /\ at'[Start] \in {"new", "leaving"} <=> at[Start] \in {"new", "leaving"}
        /\ at'[Events] = "leaving" <=> at[Events] = "leaving"
    BY <1>1 DEF Busy
  <2>3. Owed' = Owed
    BY <2>1, <2>2 DEF Owed
  <2>4. QED BY <2>3 DEF Budgeted, Spare, Budget
<1>5. QED BY <1>1, <1>2, <1>3, <1>4

(* A task begins to leave the context that is there, without a connect(). *)
LEMMA LeaveKeeps ==
  ASSUME GeminiInv, NEW t \in Task \ {Start, Events}, NEW stage \in {"leaving", "closing"},
         at[t] \notin Busy, Exitable, Leave(t, stage),
         t \in Tool => at[t] # "done",
         session' \in Context \union {None}, lost' \in BOOLEAN,
         UNCHANGED <<context, isClosing, attempts, asked, tries, crossed, orphan>>
  PROVE  /\ TypeOK' /\ Owned' /\ Budgeted'
         /\ at'[t] = stage /\ \A u \in Task \ {t} : at'[u] = at[u] /\ on'[u] = on[u]
         /\ context \in Context /\ state'[context] = "closing"
         /\ \A m \in Context \ {context} : state'[m] = state[m]
<1> USE TasksDistinct DEF GeminiInv, Leave, GoesOn
<1>1. context \in Context /\ state[context] \in {"open", "dropped"}
  BY DEF TypeOK, Exitable
<1>2. /\ at'[t] = stage /\ \A u \in Task \ {t} : at'[u] = at[u]
      /\ on'[t] = context /\ \A u \in Task \ {t} : on'[u] = on[u]
      /\ state'[context] = "closing" /\ \A m \in Context \ {context} : state'[m] = state[m]
  BY <1>1 DEF TypeOK
<1>3. TypeOK'
  <2>1. at' \in [Task -> Stages] /\ on' \in [Task -> Context \union {None}]
    BY <1>1 DEF TypeOK, Stages
  <2>2. state' \in [Context -> {"unused", "entering", "open", "dropped", "closing", "over"}]
    BY <1>1 DEF TypeOK
  <2>3. QED BY <2>1, <2>2 DEF TypeOK
<1>4. Owned'
  <2>1. \A u \in Task : at[u] \in Busy => on[u] # context
    BY <1>1 DEF Owned, Busy
  <2>2. \A m \in Context : state'[m] = "entering" => state[m] = "entering"
    BY <1>2
  <2>3. \A u \in Connecting : at[u] = "entering" => u # t
    BY DEF Busy
  <2>4. QED BY <1>1, <1>2, <2>1, <2>2, <2>3 DEF Owned, Busy
<1>5. Budgeted'
  <2>1. ToolsOwed' = ToolsOwed
    BY <1>2 DEF ToolsOwed, Busy
  <2>2. at'[Start] = at[Start] /\ at'[Events] = at[Events]
    BY <1>2
  <2>3. Owed' = Owed
    BY <2>1, <2>2 DEF Owed
  <2>4. \A m \in Context : state'[m] = "unused" <=> state[m] = "unused"
    BY <1>1, <1>2
  <2>5. QED BY <2>3, <2>4 DEF Budgeted, Spare, Budget
<1>6. QED BY <1>1, <1>2, <1>3, <1>4, <1>5

(* The entering or leaving of a context is over, without a connect(). *)
LEMMA RestKeeps ==
  ASSUME GeminiInv, NEW t \in Task, NEW stage \in Stages \ Busy, NEW to \in {"open", "dropped", "over"},
         at[t] \in Busy, Goes(t, stage), state' = [state EXCEPT ![on[t]] = to],
         t \in {Start, Events} => at[t] = "entering",
         t \in Tool => (at[t] = "entering" <=> stage = "done"),
         stage # "new",
         session' \in Context \union {None}, context' \in Context \union {None},
         orphan' \in Context \union {None},
         UNCHANGED <<isClosing, attempts, asked, tries, lost, crossed>>
  PROVE  /\ TypeOK' /\ Owned' /\ Budgeted'
         /\ at'[t] = stage /\ \A u \in Task \ {t} : at'[u] = at[u]
         /\ on' = on /\ on[t] \in Context /\ state'[on[t]] = to
         /\ \A m \in Context \ {on[t]} : state'[m] = state[m]
<1> USE TasksDistinct DEF GeminiInv, Goes, ghosts
<1>1. on[t] \in Context /\ state[on[t]] \in {"entering", "closing"}
  BY DEF Owned, Busy
<1>2. /\ at'[t] = stage /\ \A u \in Task \ {t} : at'[u] = at[u]
      /\ state'[on[t]] = to /\ \A m \in Context \ {on[t]} : state'[m] = state[m]
  BY <1>1 DEF TypeOK
<1>3. TypeOK'
  <2>1. at' \in [Task -> Stages]
    BY DEF TypeOK
  <2>2. state' \in [Context -> {"unused", "entering", "open", "dropped", "closing", "over"}]
    BY <1>1 DEF TypeOK
  <2>3. QED BY <2>1, <2>2 DEF TypeOK
<1>4. Owned'
  <2>1. \A u \in Task \ {t} : at[u] \in Busy => on[u] \in Context \ {on[t]}
    BY DEF Owned
  <2>2. \A u \in Task : at'[u] \in Busy => u # t /\ at[u] = at'[u]
    BY <1>2
  <2>3. ASSUME NEW m \in Context, state'[m] = "entering"
        PROVE  \E u \in Connecting : at'[u] = "entering" /\ on[u] = m
    <3>1. m # on[t] /\ state[m] = "entering"
      BY <1>2, <2>3
    <3>2. PICK u \in Connecting : at[u] = "entering" /\ on[u] = m
      BY <3>1 DEF Owned
    <3>3. QED BY <1>2, <3>1, <3>2
  <2>4. QED BY <1>2, <2>1, <2>2, <2>3 DEF Owned, Busy
<1>5. Budgeted'
  <2>1. ToolsOwed' = ToolsOwed
    BY <1>2 DEF ToolsOwed, Busy
  <2>2. /\ at'[Start] \in {"new", "leaving"} <=> at[Start] \in {"new", "leaving"}
        /\ at'[Events] = "leaving" <=> at[Events] = "leaving"
    BY <1>2 DEF Busy
  <2>3. Owed' = Owed
    BY <2>1, <2>2 DEF Owed
  <2>4. \A m \in Context : state'[m] = "unused" <=> state[m] = "unused"
    BY <1>1, <1>2
  <2>5. QED BY <2>3, <2>4 DEF Budgeted, Spare, Budget
<1>6. QED BY <1>1, <1>2, <1>3, <1>4, <1>5

(* The event task goes on without a connect(). *)
LEMMA EventsMove ==
  ASSUME GeminiInv, NEW stage \in {"spawned", "receiving", "calling", "ended"},
         at[Events] \notin Busy, at[Start] = "done",
         at' = [at EXCEPT ![Events] = stage],
         on' = on \/ \E x \in Context \union {None} : on' = [on EXCEPT ![Events] = x],
         at[Events] = "none" => stage # "ended" /\ at[Closer] = "none",
         stage = "spawned" => at[Events] = "none",
         stage \in {"receiving", "calling"} /\ ~ToolAdded => session \in {None, on'[Events]},
         Events \in crossed /\ ~ToolAdded => on'[Events] = on[Events],
         at[Events] \in {"sleeping", "ended"} => stage = "ended",
         stage = "ended" =>
           \/ asked'
           \/ isClosing
           \/ session = None /\ at[Events] \in {"spawned", "receiving", "calling"},
         tries' \in 0 .. attempts, asked' \in BOOLEAN, asked => asked',
         UNCHANGED <<sessionVars, attempts, lost, crossed, orphan>>
  PROVE  GeminiInv'
<1> USE TasksDistinct DEF GeminiInv, sessionVars
<1>1. /\ TypeOK' /\ Owned' /\ Budgeted'
      /\ at'[Events] = stage /\ \A u \in Task \ {Events} : at'[u] = at[u] /\ on'[u] = on[u]
  BY MoveKeeps DEF TypeOK, Stages, Busy
<1>2. Staged'
  BY <1>1 DEF Staged
<1>3. (ToolAdded' <=> ToolAdded) /\ at'[Closer] = at[Closer] /\ at'[Start] = at[Start]
  BY <1>1 DEF ToolAdded
<1>4. Quiet'
  <2> SUFFICES ASSUME ~ToolAdded PROVE Quiet'
    BY <1>3 DEF Quiet
  <2>1. crossed' = crossed /\ orphan' = orphan /\ OpenContexts' = OpenContexts /\ UNCHANGED <<session, context, isClosing>>
    BY DEF OpenContexts
  <2>2. \A u \in crossed : on'[u] = on[u]
    BY <1>1 DEF Quiet
  <2>3. Final => Final'
    BY <1>1, <1>3, <2>1 DEF Final
  <2>4. Events \in crossed => at'[Events] \notin {"none", "spawned"}
    BY <1>1 DEF Quiet
  <2>5. Start \in crossed => at'[Events] = "none"
    BY <1>1 DEF Quiet, Staged
  <2>6. QED BY <1>1, <1>3, <2>1, <2>2, <2>3, <2>4, <2>5 DEF Quiet
<1>5. Attended'
  <2>1. at[Events] \in {"none", "spawned", "receiving", "calling", "sleeping", "ended"}
    BY DEF Staged, Busy
  <2>2. EndsWithCall'
    BY <1>1, <1>3, <2>1 DEF Attended, Undisturbed, EndsWithCall
  <2>3. QED BY <1>1, <1>3, <2>1, <2>2 DEF Attended, Undisturbed
<1>6. QED BY <1>1, <1>2, <1>4, <1>5

LEMMA LaunchStep ==
  ASSUME GeminiInv, Launch
  PROVE  GeminiInv'
<1>1. at[Start] = "done" /\ tries \in 0 .. attempts /\ asked \in BOOLEAN
  BY DEF Launch, GeminiInv, TypeOK, Budgeted
<1>2. Events \notin crossed
  BY DEF Launch, GeminiInv, Staged
<1>3. QED BY <1>1, <1>2, EventsMove DEF Launch, Goes, Busy, ghosts, sessionVars

LEMMA NextTurnStep ==
  ASSUME GeminiInv, NextTurn
  PROVE  GeminiInv'
<1>1. at[Start] = "done" /\ session \in Context \union {None} /\ tries \in 0 .. attempts /\ asked \in BOOLEAN
  BY DEF NextTurn, GeminiInv, Staged, TypeOK, Budgeted
<1>2. CASE session = None
  BY <1>1, <1>2, EventsMove DEF NextTurn, Goes, Busy, ghosts, sessionVars
<1>3. CASE session # None
  <2>1. on' = [on EXCEPT ![Events] = session] /\ on'[Events] = session
    BY <1>3, TasksDistinct DEF NextTurn, GoesOn, GeminiInv, TypeOK
  <2>2. Events \in crossed /\ ~ToolAdded => on'[Events] = on[Events]
    BY <1>3, <2>1 DEF NextTurn, GeminiInv, Quiet
  <2>3. QED BY <1>1, <1>3, <2>1, <2>2, EventsMove DEF NextTurn, GoesOn, Busy, ghosts, sessionVars
<1>4. QED BY <1>2, <1>3

LEMMA ToolCallStep ==
  ASSUME GeminiInv, ToolCall \/ ToolAnswered
  PROVE  GeminiInv'
<1>1. at[Start] = "done" /\ tries \in 0 .. attempts /\ asked \in BOOLEAN
  BY DEF ToolCall, ToolAnswered, GeminiInv, Staged, TypeOK, Budgeted
<1>2. ~ToolAdded => session \in {None, on[Events]}
  BY DEF ToolCall, ToolAnswered, GeminiInv, Quiet
<1>3. QED BY <1>1, <1>2, EventsMove DEF ToolCall, ToolAnswered, Goes, Busy, ghosts, sessionVars

(* The reconnection loop of the event task. *)
LEMMA TryStep ==
  ASSUME GeminiInv, Try, NEW before \in 0 .. attempts, Tries(before),
         at[Events] = "sleeping" \/ (at[Events] \in {"receiving", "calling"} /\ ~isClosing),
         UNCHANGED <<lost, crossed, orphan>>
  PROVE  GeminiInv'
<1>1. at[Start] = "done" /\ asked \in BOOLEAN /\ attempts \in 0 .. MaxAttempts
  BY DEF GeminiInv, Staged, TypeOK
<1>2. CASE attempts < MaxAttempts
  <2>1. /\ attempts' = attempts + 1 /\ Connect(Events) /\ UNCHANGED asked
        /\ tries' = before + 1
    BY <1>2 DEF Try, Tries
  <2>2. attempts' \in 0 .. MaxAttempts /\ tries' \in 0 .. attempts'
    BY <1>1, <1>2, <2>1 DEF MaxAttempts
  <2>3. Events \in Connecting /\ Events # Start /\ Events \notin Tool
    BY TasksDistinct DEF Connecting
  <2>4. QED BY <2>1, <2>2, <2>3, ConnectStep DEF Busy
<1>3. CASE ~(attempts < MaxAttempts)
  <2>1. GiveUp /\ tries' = before
    BY <1>3 DEF Try, Tries
  <2>2. QED BY <1>1, <2>1, EventsMove DEF GiveUp, Goes, Busy
<1>4. QED BY <1>2, <1>3

LEMMA BreaksStep ==
  ASSUME GeminiInv, Breaks
  PROVE  GeminiInv'
<1>1. at[Start] = "done" /\ tries \in 0 .. attempts /\ asked \in BOOLEAN /\ 0 \in 0 .. attempts
  BY DEF Breaks, GeminiInv, Staged, TypeOK, Budgeted, MaxAttempts
<1>2. CASE isClosing
  BY <1>1, <1>2, EventsMove DEF Breaks, Goes, Busy
<1>3. CASE ~isClosing
  BY <1>1, <1>3, TryStep DEF Breaks
<1>4. QED BY <1>2, <1>3

LEMMA RetryStep ==
  ASSUME GeminiInv, Retry
  PROVE  GeminiInv'
<1>1. tries \in 0 .. attempts
  BY DEF GeminiInv, TypeOK, Budgeted, MaxAttempts
<1>2. QED BY <1>1, TryStep DEF Retry

(* __aenter__ returned, or raised. *)
LEMMA EnteredStep ==
  ASSUME GeminiInv, NEW t \in Connecting, Entered(t) \/ EnterFails(t)
  PROVE  GeminiInv'
<1> USE TasksDistinct DEF GeminiInv
<1> DEFINE stage == at'[t]
           to == IF Entered(t) THEN "open" ELSE "over"
<1>1. t \in Task /\ at[t] = "entering" /\ at[t] \in Busy /\ on[t] \in Context /\ TypeOK
      /\ UNCHANGED <<context, isClosing, attempts, asked, ghosts>> /\ UNCHANGED on
  BY DEF Entered, EnterFails, Owned, Busy, Goes
<1>2. PICK s \in {"receiving", "done", "sleeping", "failed"}, x \in {"open", "over"} :
        /\ Goes(t, s) /\ state' = [state EXCEPT ![on[t]] = x]
        /\ x = "open" => session' = on[t] /\ s = IF t = Events THEN "receiving" ELSE "done"
        /\ x = "over" => session' = session
                         /\ s = CASE t = Events -> "sleeping" [] t = Start -> "failed" [] OTHER -> "done"
  BY DEF Entered, EnterFails
<1>3. t \in Tool => s = "done"
  BY <1>2
<1>4. /\ TypeOK' /\ Owned' /\ Budgeted'
      /\ at'[t] = s /\ \A u \in Task \ {t} : at'[u] = at[u]
      /\ state'[on[t]] = x /\ \A m \in Context \ {on[t]} : state'[m] = state[m]
  <2>1. session' \in Context \union {None} /\ context' \in Context \union {None}
    BY <1>1, <1>2 DEF TypeOK
  <2>2. s \in Stages \ Busy /\ x \in {"open", "dropped", "over"} /\ s # "new"
    BY <1>2 DEF Stages, Busy
  <2>3. /\ UNCHANGED <<isClosing, attempts, asked, tries, lost, crossed>>
        /\ orphan' \in Context \union {None}
    BY <1>1 DEF ghosts, TypeOK
  <2>4. at[t] \in Busy /\ at[t] = "entering" /\ (t \in Tool => s = "done")
    BY <1>1, <1>3
  <2>5. QED BY <1>1, <1>2, <2>1, <2>2, <2>3, <2>4, RestKeeps
<1>5. t = Events => s \in {"receiving", "sleeping"}
  BY <1>2
<1>6. t = Start => s \in {"done", "failed"}
  BY <1>2
<1>7. Staged'
  BY <1>3, <1>4, <1>5, <1>6, <1>1 DEF Staged, Connecting, ghosts
<1>8. (t \in Tool => ToolAdded) /\ (ToolAdded' <=> ToolAdded)
  BY <1>1, <1>4, <1>3 DEF ToolAdded
<1>9. Quiet'
  <2> SUFFICES ASSUME ~ToolAdded PROVE Quiet'
    BY <1>8 DEF Quiet
  <2>1. /\ t \in {Start, Events} /\ at'[Closer] = at[Closer] /\ on' = on
        /\ UNCHANGED <<context, isClosing, crossed, orphan>>
    BY <1>1, <1>4, <1>8 DEF Connecting, ghosts
  <2>2. state[on[t]] = "entering"
    BY <1>1 DEF Owned
  <2>3. OpenContexts' \subseteq OpenContexts
    BY <1>4, <2>2 DEF OpenContexts
  <2>4. \A u \in {Start, Events} : at'[u] = "leaving" => u # t /\ at[u] = "leaving"
    BY <1>2, <1>4, <2>1
  <2>5. at'[Events] \in {"receiving", "calling"} => session' \in {None, on[Events]}
    <3>1. CASE t = Events
      BY <1>1, <1>2, <1>4, <3>1
    <3>2. CASE t # Events
      BY <1>1, <1>4, <2>1, <3>2 DEF Staged
    <3>3. QED BY <3>1, <3>2
  <2>6. crossed = {} => at[Closer] = "none"
    BY <1>1, <2>1 DEF Quiet, Final
  <2>7. Start \in crossed => at'[Events] = "none"
    BY <1>1, <1>4, <2>1 DEF Quiet
  <2>8. Events \in crossed => at'[Events] \notin {"none", "spawned"}
    BY <1>4, <1>5, <2>1 DEF Quiet
  <2>9. QED BY <2>1, <2>3, <2>4, <2>5, <2>6, <2>7, <2>8 DEF Quiet, Final
<1>10. Attended'
  <2>1. at'[Closer] = at[Closer]
    BY <1>4, <1>1 DEF Connecting
  <2>2. EndsWithCall'
    BY <1>1, <1>2, <1>4, <1>8, <2>1 DEF Attended, EndsWithCall, ghosts
  <2>3. Undisturbed' => Undisturbed /\ ~isClosing' /\ t \in {Start, Events}
    BY <1>1, <1>8, <2>1 DEF Undisturbed, Attended, Connecting
  <2>4. ASSUME Undisturbed', ~lost', at'[Start] = "done",
               at'[Events] \in {"none", "spawned", "receiving", "calling"}
        PROVE  session' # None
    <3>1. x = "open"
      <4>1. CASE t = Start BY <1>2, <1>4, <2>4, <4>1
      <4>2. CASE t = Events BY <1>2, <1>4, <2>4, <4>2
      <4>3. QED BY <2>3, <2>4, <4>1, <4>2
    <3>2. QED BY <1>1, <1>2, <3>1, BudgetType
  <2>5. QED BY <2>2, <2>3, <2>4 DEF Attended
<1>11. QED BY <1>4, <1>7, <1>9, <1>10

-----------------------------------------------------------------------------
(* close(), the tasks of tools, send()                                     *)

LEMMA CloseCalledStep ==
  ASSUME GeminiInv, CloseCalled
  PROVE  GeminiInv'
<1> USE TasksDistinct DEF GeminiInv, CloseCalled
<1>1. /\ TypeOK' /\ Owned' /\ Budgeted'
      /\ at'[Closer] = "requested" /\ \A u \in Task \ {Closer} : at'[u] = at[u] /\ on'[u] = on[u]
  <2>1. tries' \in 0 .. attempts /\ crossed' \in SUBSET Connecting /\ isClosing' \in BOOLEAN /\ orphan' \in Context \union {None}
        /\ asked' \in BOOLEAN /\ lost' \in BOOLEAN
        /\ session' \in Context \union {None} /\ context' \in Context \union {None}
    BY DEF TypeOK, Budgeted
  <2>2. QED BY <2>1, MoveKeeps DEF Goes, Stages, Busy
<1>2. Staged'
  BY <1>1 DEF Staged
<1>3. ToolAdded' <=> ToolAdded
  BY <1>1 DEF ToolAdded
<1>4. Quiet'
  <2> SUFFICES ASSUME ~ToolAdded PROVE Quiet'
    BY <1>3 DEF Quiet
  <2>1. /\ \A u \in {Start, Events} : at'[u] = at[u] /\ on'[u] = on[u]
        /\ isClosing' /\ orphan' = orphan /\ OpenContexts' = OpenContexts
        /\ UNCHANGED <<session, context>>
    BY <1>1 DEF OpenContexts
  <2>2. \A u \in Tool : at[u] = "none"
    BY DEF ToolAdded
  <2>3. /\ crossed' = {u \in Connecting : at[u] \in {"new", "leaving", "entering", "sleeping"}}
        /\ at[Events] # "none" => at[Start] = "done"
    BY DEF Staged
  <2>4. /\ crossed' \in {{}, {Start}, {Events}}
        /\ Start \in crossed' => at[Events] = "none"
        /\ Events \in crossed' => at[Events] \notin {"none", "spawned"}
        /\ crossed' = {} => at[Start] \in {"done", "failed"} /\ at[Events] \notin {"leaving", "entering", "sleeping"}
    <3>1. crossed' \subseteq {Start, Events}
      BY <2>2, <2>3 DEF Connecting
    <3>2. /\ Start \in crossed' <=> at[Start] \in {"new", "leaving", "entering", "sleeping"}
          /\ Events \in crossed' <=> at[Events] \in {"new", "leaving", "entering", "sleeping"}
      BY <2>3 DEF Connecting
    <3>3. QED BY <2>3, <3>1, <3>2 DEF Staged
  <2>5. orphan = None
    BY DEF Quiet
  <2>6. QED BY <1>1, <2>1, <2>4, <2>5 DEF Quiet, Final
<1>5. Attended'
  BY <1>1 DEF Attended, Undisturbed, EndsWithCall
<1>6. QED BY <1>1, <1>2, <1>4, <1>5

(* Once a tool was added, only where the tasks are is left to show. *)
LEMMA ToolMoved ==
  ASSUME GeminiInv, NEW t \in Tool, at'[t] # "none"
  PROVE  Quiet' /\ Attended'
BY DEF Quiet, Attended, Undisturbed, EndsWithCall, ToolAdded

LEMMA AddToolStep ==
  ASSUME GeminiInv, NEW t \in Tool, AddTool(t) \/ ToolTask(t)
  PROVE  GeminiInv'
<1> USE TasksDistinct DEF GeminiInv
<1>1. PICK s \in {"begun", "requested"} : at' = [at EXCEPT ![t] = s] /\ UNCHANGED on
  BY DEF AddTool, ToolTask, Goes
<1>2. /\ TypeOK' /\ Owned' /\ Budgeted'
      /\ at'[t] = s /\ \A u \in Task \ {t} : at'[u] = at[u] /\ on'[u] = on[u]
  <2>1. /\ tries' \in 0 .. attempts /\ crossed' \in SUBSET Connecting /\ isClosing' \in BOOLEAN /\ orphan' \in Context \union {None}
        /\ asked' \in BOOLEAN /\ lost' \in BOOLEAN
        /\ session' \in Context \union {None} /\ context' \in Context \union {None}
        /\ UNCHANGED <<state, attempts>>
    <3>1. UNCHANGED <<state, session, context, attempts, asked, ghosts>> /\ isClosing' \in {isClosing, TRUE}
      BY DEF AddTool, ToolTask, sessionVars
    <3>2. tries \in 0 .. attempts
      BY DEF TypeOK, Budgeted
    <3>3. QED BY <3>1, <3>2 DEF TypeOK, ghosts
  <2>2. s \in Stages \ Busy /\ s # "new" /\ s # "done" /\ at[t] \notin Busy /\ at[t] # "done" /\ t # Start
    BY DEF Stages, Busy, AddTool, ToolTask
  <2>3. QED BY <1>1, <2>1, <2>2, MoveKeeps
<1>3. Staged'
  BY <1>1, <1>2 DEF Staged, AddTool, ToolTask, ghosts
<1>4. QED BY <1>1, <1>2, <1>3, ToolMoved

LEMMA DisconnectStep ==
  ASSUME GeminiInv, NEW t \in {Closer} \union Tool, Disconnect(t)
  PROVE  GeminiInv'
<1> USE TasksDistinct DEF GeminiInv, Disconnect
<1>1. /\ t \in Task /\ t \notin {Start, Events} /\ t \notin Sender /\ at[t] = "requested" /\ at[t] \notin Busy
      /\ UNCHANGED <<isClosing, attempts, asked, tries, lost, crossed>>
  BY DEF Busy
<1>2. ASSUME ~ToolAdded, t = Closer
      PROVE  /\ orphan = None /\ \A n \in OpenContexts : n = context
             /\ crossed = {} => \A n \in OpenContexts : state[n] = "open"
  <2>1. orphan = None /\ \A n \in OpenContexts : n = context
    BY <1>1, <1>2, BudgetType DEF Quiet, OpenContexts
  <2>2. ASSUME NEW n \in OpenContexts, crossed = {}
        PROVE  state[n] = "open"
    <3>1. at[Start] \in {"done", "failed"} /\ at[Events] # "entering"
      BY <1>1, <1>2, <2>2 DEF Quiet, Final
    <3>2. state[n] # "entering"
      BY <1>2, <3>1 DEF Owned, Connecting, ToolAdded, OpenContexts
    <3>3. QED BY <3>2 DEF OpenContexts
  <2>3. QED BY <2>1, <2>2
<1>3. CASE Exitable
  <2>1. Leave(t, "closing") /\ UNCHANGED <<session, context, orphan>>
    BY <1>3
  <2>2. /\ TypeOK' /\ Owned' /\ Budgeted'
        /\ at'[t] = "closing" /\ \A u \in Task \ {t} : at'[u] = at[u] /\ on'[u] = on[u]
        /\ context \in Context /\ state'[context] = "closing"
        /\ \A m \in Context \ {context} : state'[m] = state[m]
    BY <1>1, <1>3, <2>1, LeaveKeeps DEF TypeOK, ghosts
  <2>3. Staged'
    BY <1>1, <2>2 DEF Staged, ghosts
  <2>4. CASE t \in Tool
    BY <2>2, <2>3, <2>4, ToolMoved
  <2>5. CASE t = Closer
    <3>1. ToolAdded' <=> ToolAdded
      BY <2>2, <2>5 DEF ToolAdded
    <3>2. Quiet'
      <4> SUFFICES ASSUME ~ToolAdded PROVE Quiet'
        BY <3>1 DEF Quiet
      <4>1. OpenContexts' = {}
        BY <1>2, <2>2, <2>5 DEF OpenContexts
      <4>2. /\ \A u \in {Start, Events} : at'[u] = at[u] /\ on'[u] = on[u]
            /\ UNCHANGED <<session, context, isClosing, crossed, orphan>>
        BY <1>1, <2>1, <2>2, <2>5
      <4>3. QED BY <1>1, <1>2, <2>2, <2>5, <4>1, <4>2 DEF Quiet, Final
    <3>3. Attended'
      BY <2>2, <2>5 DEF Attended, Undisturbed, EndsWithCall
    <3>4. QED BY <2>2, <2>3, <3>2, <3>3
  <2>6. QED BY <2>4, <2>5
<1>4. CASE ~Exitable
  <2>1. Goes(t, "closed") /\ Forget /\ Orphans(t, state) /\ UNCHANGED state
    BY <1>4
  <2>2. /\ TypeOK' /\ Owned' /\ Budgeted'
        /\ at'[t] = "closed" /\ \A u \in Task \ {t} : at'[u] = at[u] /\ on'[u] = on[u]
    <3>1. tries \in 0 .. attempts
      BY DEF TypeOK, Budgeted
    <3>2. orphan' \in Context \union {None}
      BY <2>1 DEF Orphans, TypeOK
    <3>3. QED BY <1>1, <2>1, <3>1, <3>2, MoveKeeps DEF TypeOK, Stages, Busy, Goes, Forget
  <2>3. Staged'
    BY <1>1, <2>2 DEF Staged, ghosts
  <2>4. CASE t \in Tool
    BY <2>2, <2>3, <2>4, ToolMoved
  <2>5. CASE t = Closer
    <3>1. ToolAdded' <=> ToolAdded
      BY <2>2, <2>5 DEF ToolAdded
    <3>2. Quiet'
      <4> SUFFICES ASSUME ~ToolAdded PROVE Quiet'
        BY <3>1 DEF Quiet
      <4>1. OpenContexts' = OpenContexts /\ session' = None /\ context' = None
        BY <2>1 DEF OpenContexts, Forget
      <4>2. /\ \A u \in {Start, Events} : at'[u] = at[u] /\ on'[u] = on[u]
            /\ UNCHANGED <<isClosing, crossed>>
        BY <1>1, <2>2, <2>5
      <4>3. \A n \in OpenContexts : n = orphan'
        BY <1>2, <2>1, <2>5, BudgetType DEF Orphans, OpenContexts
      <4>4. crossed = {} => OpenContexts = {} /\ orphan' = None
        BY <1>2, <1>4, <2>1, <2>5, BudgetType DEF Orphans, OpenContexts, Exitable, TypeOK
      <4>5. QED BY <1>1, <2>2, <2>5, <4>1, <4>2, <4>3, <4>4 DEF Quiet, Final
    <3>3. Attended'
      BY <2>2, <2>5 DEF Attended, Undisturbed, EndsWithCall
    <3>4. QED BY <2>2, <2>3, <3>2, <3>3
  <2>6. QED BY <2>4, <2>5
<1>5. QED BY <1>3, <1>4

LEMMA DisconnectedStep ==
  ASSUME GeminiInv, NEW t \in {Closer} \union Tool, Disconnected(t)
  PROVE  GeminiInv'
<1> USE TasksDistinct DEF GeminiInv, Disconnected
<1>1. /\ t \in Task /\ t \notin {Start, Events} /\ t \notin Sender /\ at[t] = "closing" /\ at[t] \in Busy
      /\ UNCHANGED <<isClosing, attempts, asked, tries, lost, crossed>>
  BY DEF Busy
<1>2. /\ TypeOK' /\ Owned' /\ Budgeted'
      /\ at'[t] = "closed" /\ \A u \in Task \ {t} : at'[u] = at[u]
      /\ on' = on /\ on[t] \in Context /\ state'[on[t]] = "over"
      /\ \A m \in Context \ {on[t]} : state'[m] = state[m]
  <2>1. orphan' \in Context \union {None}
    BY DEF Orphans, TypeOK
  <2>2. QED BY <1>1, <2>1, RestKeeps DEF Stages, Busy, Left, Forget
<1>3. Staged'
  BY <1>1, <1>2 DEF Staged, ghosts
<1>4. CASE t \in Tool
  BY <1>2, <1>3, <1>4, ToolMoved
<1>5. CASE t = Closer
  <2>1. ToolAdded' <=> ToolAdded
    BY <1>2, <1>5 DEF ToolAdded
  <2>2. Quiet'
    <3> SUFFICES ASSUME ~ToolAdded PROVE Quiet'
      BY <2>1 DEF Quiet
    <3>1. orphan = None /\ \A n \in OpenContexts : n = context
      BY <1>1, <1>5, BudgetType DEF Quiet, OpenContexts
    <3>2. OpenContexts' = OpenContexts /\ session' = None /\ context' = None
      <4>1. state[on[t]] = "closing"
        BY <1>1 DEF Owned
      <4>2. QED BY <1>2, <4>1 DEF OpenContexts, Forget
    <3>3. /\ \A u \in {Start, Events} : at'[u] = at[u] /\ on'[u] = on[u]
          /\ UNCHANGED <<isClosing, crossed>>
      BY <1>1, <1>2, <1>5
    <3>4. \A n \in OpenContexts : n = orphan'
      BY <1>2, <1>5, <3>1, <3>2, BudgetType DEF Orphans, OpenContexts
    <3>5. crossed = {} => OpenContexts = {} /\ orphan' = None
      <4>1. crossed = {} => OpenContexts = {}
        BY <1>1, <1>5 DEF Quiet, Final
      <4>2. OpenContexts' = {} => orphan' = orphan
        BY <1>2 DEF Orphans, OpenContexts, TypeOK
      <4>3. QED BY <3>1, <3>2, <4>1, <4>2
    <3>6. QED BY <1>1, <1>2, <1>5, <3>2, <3>3, <3>4, <3>5 DEF Quiet, Final
  <2>3. Attended'
    BY <1>2, <1>5 DEF Attended, Undisturbed, EndsWithCall
  <2>4. QED BY <1>2, <1>3, <2>2, <2>3
<1>6. QED BY <1>4, <1>5

(* A step of neither the start, the event task nor close() that opens nothing. *)
LEMMA QuietKept ==
  ASSUME Quiet, ToolAdded' <=> ToolAdded,
         OpenContexts' \subseteq OpenContexts,
         \A u \in {Start, Events} : at'[u] = at[u] /\ on'[u] = on[u],
         at'[Closer] = at[Closer], session' \in {session, None},
         UNCHANGED <<context, isClosing, crossed, orphan>>
  PROVE  Quiet'
<1>1. SUFFICES ASSUME ~ToolAdded PROVE Quiet'
  BY DEF Quiet
<1>2. crossed = {} => Final'
  BY <1>1 DEF Quiet, Final
<1>3. \A u \in crossed : on'[u] = on[u]
  BY <1>1 DEF Quiet
<1>4. QED BY <1>1, <1>2, <1>3 DEF Quiet

(* A sender moves between sending and idle. *)
LEMMA SendStep ==
  ASSUME GeminiInv, NEW t \in Sender, Send(t) \/ Sent(t)
  PROVE  GeminiInv'
<1> USE TasksDistinct DEF GeminiInv
<1>1. PICK s \in {"sending", "idle"} : at' = [at EXCEPT ![t] = s]
  BY DEF Send, Sent, Goes, GoesOn
<1>2. UNCHANGED <<sessionVars, attempts, asked, ghosts>>
  BY DEF Send, Sent
<1>3. /\ TypeOK' /\ Owned' /\ Budgeted'
      /\ at'[t] = s /\ \A u \in Task \ {t} : at'[u] = at[u] /\ on'[u] = on[u]
  <2>1. tries \in 0 .. attempts
    BY DEF TypeOK, Budgeted
  <2>2. on' = on \/ \E x \in Context \union {None} : on' = [on EXCEPT ![t] = x]
    BY DEF Send, Sent, Goes, GoesOn, TypeOK
  <2>3. at[t] \notin Busy /\ s \in Stages \ Busy /\ t \in Task /\ t \notin Tool /\ t # Start
    BY DEF Busy, Stages, Send, Sent
  <2>4. QED BY <1>1, <1>2, <2>1, <2>2, <2>3, MoveKeeps DEF TypeOK, sessionVars, ghosts
<1>4. Staged' /\ (ToolAdded' <=> ToolAdded)
  BY <1>1, <1>2, <1>3 DEF Staged, ToolAdded, ghosts
<1>5. Quiet'
  <2>1. OpenContexts' = OpenContexts
    BY <1>2 DEF OpenContexts, sessionVars
  <2>2. QED BY <1>2, <1>3, <1>4, <2>1, QuietKept DEF sessionVars, ghosts
<1>6. Attended'
  BY <1>2, <1>3, <1>4 DEF Attended, Undisturbed, EndsWithCall, sessionVars, ghosts
<1>7. QED BY <1>3, <1>4, <1>5, <1>6

(* send() raises: it drops the session and leaves the context that is there. *)
LEMMA SendFailsStep ==
  ASSUME GeminiInv, NEW t \in Sender, SendFails(t)
  PROVE  GeminiInv'
<1> USE TasksDistinct DEF GeminiInv, SendFails
<1>1. /\ t \in Task /\ t \notin {Start, Events, Closer} /\ t \notin Tool /\ at[t] = "sending" /\ at[t] \notin Busy
      /\ UNCHANGED <<context, isClosing, attempts, asked, tries, crossed, orphan>>
  BY DEF Busy, sessionVars
<1>2. tries \in 0 .. attempts /\ None \in Context \union {None}
  BY DEF TypeOK, Budgeted
<1>3. CASE ~isClosing /\ Exitable
  <2>1. Leave(t, "leaving") /\ session' = None /\ lost' = TRUE
    BY <1>3
  <2>2. /\ TypeOK' /\ Owned' /\ Budgeted'
        /\ at'[t] = "leaving" /\ \A u \in Task \ {t} : at'[u] = at[u] /\ on'[u] = on[u]
        /\ context \in Context /\ state'[context] = "closing"
        /\ \A m \in Context \ {context} : state'[m] = state[m]
    BY <1>1, <1>2, <1>3, <2>1, LeaveKeeps
  <2>3. Staged' /\ (ToolAdded' <=> ToolAdded)
    BY <1>1, <2>2 DEF Staged, ToolAdded
  <2>4. Quiet'
    <3>1. OpenContexts' \subseteq OpenContexts
      BY <2>2 DEF OpenContexts
    <3>2. QED BY <1>1, <2>1, <2>2, <2>3, <3>1, QuietKept
  <2>5. Attended'
    BY <1>1, <2>1, <2>2, <2>3 DEF Attended, Undisturbed, EndsWithCall
  <2>6. QED BY <2>2, <2>3, <2>4, <2>5
<1>4. CASE isClosing \/ ~Exitable
  <2>1. /\ Goes(t, "idle") /\ UNCHANGED state
        /\ session' \in {session, None} /\ lost' \in {lost, TRUE} /\ (lost' \/ session' = session)
    BY <1>4 DEF sessionVars
  <2>2. /\ TypeOK' /\ Owned' /\ Budgeted'
        /\ at'[t] = "idle" /\ \A u \in Task \ {t} : at'[u] = at[u] /\ on'[u] = on[u]
    BY <1>1, <1>2, <2>1, MoveKeeps DEF TypeOK, Stages, Busy, Goes
  <2>3. Staged' /\ (ToolAdded' <=> ToolAdded)
    BY <1>1, <2>2 DEF Staged, ToolAdded
  <2>4. Quiet'
    <3>1. OpenContexts' = OpenContexts
      BY <2>1 DEF OpenContexts
    <3>2. QED BY <1>1, <2>1, <2>2, <2>3, <3>1, QuietKept
  <2>5. Attended'
    BY <1>1, <2>1, <2>2, <2>3 DEF Attended, Undisturbed, EndsWithCall, TypeOK
  <2>6. QED BY <2>2, <2>3, <2>4, <2>5
<1>5. QED BY <1>3, <1>4

LEMMA SenderLeftStep ==
  ASSUME GeminiInv, NEW t \in Sender, SenderLeft(t)
  PROVE  GeminiInv'
<1> USE TasksDistinct DEF GeminiInv, SenderLeft
<1>1. /\ t \in Task /\ t \notin {Start, Events, Closer} /\ t \notin Tool /\ at[t] = "leaving" /\ at[t] \in Busy
      /\ UNCHANGED <<session, context, isClosing, attempts, asked, ghosts>>
  BY DEF Busy
<1>2. /\ TypeOK' /\ Owned' /\ Budgeted'
      /\ at'[t] = "idle" /\ \A u \in Task \ {t} : at'[u] = at[u]
      /\ on' = on /\ on[t] \in Context /\ state'[on[t]] = "over"
      /\ \A m \in Context \ {on[t]} : state'[m] = state[m]
  BY <1>1, RestKeeps DEF TypeOK, Stages, Busy, Left, ghosts
<1>3. Staged' /\ (ToolAdded' <=> ToolAdded)
  BY <1>1, <1>2 DEF Staged, ToolAdded, ghosts
<1>4. Quiet'
  <2>1. OpenContexts' \subseteq OpenContexts
    BY <1>2 DEF OpenContexts
  <2>2. QED BY <1>1, <1>2, <1>3, <2>1, QuietKept DEF ghosts
<1>5. Attended'
  BY <1>1, <1>2, <1>3 DEF Attended, Undisturbed, EndsWithCall, ghosts
<1>6. QED BY <1>2, <1>3, <1>4, <1>5

(* The service or the network ends a session. *)
LEMMA DropStep ==
  ASSUME GeminiInv, NEW n \in Context, Drop(n)
  PROVE  GeminiInv'
<1> USE DEF GeminiInv, Drop, ghosts
<1>1. state'[n] = "dropped" /\ \A m \in Context \ {n} : state'[m] = state[m]
  BY DEF TypeOK
<1>2. TypeOK'
  <2>1. state' \in [Context -> {"unused", "entering", "open", "dropped", "closing", "over"}]
    BY DEF TypeOK
  <2>2. QED BY <2>1 DEF TypeOK
<1>3. Owned'
  <2>1. \A u \in Task : at[u] \in Busy => on[u] # n
    BY DEF Owned, Busy
  <2>2. QED BY <1>1, <2>1 DEF Owned, Busy
<1>4. Budgeted'
  <2>1. Owed' = Owed
    BY DEF Owed, ToolsOwed
  <2>2. \A m \in Context : state'[m] = "unused" <=> state[m] = "unused"
    BY <1>1
  <2>3. QED BY <2>1, <2>2 DEF Budgeted, Spare, Budget
<1>5. Staged' /\ Attended' /\ (ToolAdded' <=> ToolAdded)
  BY DEF Staged, Attended, Undisturbed, EndsWithCall, ToolAdded
<1>6. Quiet'
  <2>1. OpenContexts' \subseteq OpenContexts
    BY <1>1 DEF OpenContexts
  <2>2. QED BY <1>5, <2>1, QuietKept
<1>7. QED BY <1>2, <1>3, <1>4, <1>5, <1>6

LEMMA GeminiInit ==
  ASSUME Init
  PROVE  GeminiInv
<1> USE TasksDistinct DEF Init
<1>1. /\ at[Start] = "new" /\ at[Events] = "none" /\ at[Closer] = "none"
      /\ \A t \in Tool : at[t] = "none"
      /\ \A t \in Sender : at[t] = "idle"
      /\ \A t \in Task : at[t] \in {"new", "none", "idle"}
  OBVIOUS
<1>2. TypeOK
  <2>1. at \in [Task -> Stages]
    BY <1>1 DEF Stages
  <2>2. on \in [Task -> Context \union {None}]
    OBVIOUS
  <2>3. state \in [Context -> {"unused", "entering", "open", "dropped", "closing", "over"}]
    OBVIOUS
  <2>4. attempts \in 0 .. MaxAttempts /\ tries \in 0 .. MaxAttempts
    BY DEF MaxAttempts
  <2>5. QED BY <2>1, <2>2, <2>3, <2>4 DEF TypeOK
<1>3. Staged
  BY <1>1 DEF Staged
<1>4. Owned
  BY <1>1 DEF Owned, Busy
<1>5. Budgeted
  <2>1. ToolsOwed = Tool
    BY <1>1 DEF ToolsOwed
  <2>2. Owed = Budget
    BY <1>1, <2>1, BudgetType DEF Owed, Budget, MaxAttempts
  <2>3. Spare(0)
    BY <2>2, BudgetType DEF Spare
  <2>4. QED BY <2>3, BudgetType DEF Budgeted
<1>6. Quiet /\ Attended
  BY <1>1 DEF Quiet, Final, OpenContexts, Attended, EndsWithCall
<1>7. QED BY <1>2, <1>3, <1>4, <1>5, <1>6 DEF GeminiInv

LEMMA GeminiStutter ==
  ASSUME GeminiInv, UNCHANGED vars
  PROVE  GeminiInv'
<1> USE DEF GeminiInv, vars, sessionVars, ghosts
<1>1. TypeOK' /\ Staged' /\ Owned'
  BY DEF TypeOK, Staged, Owned
<1>2. Budgeted'
  BY DEF Budgeted, Spare, Owed, ToolsOwed
<1>3. Quiet' /\ Attended'
  BY DEF Quiet, Final, OpenContexts, Attended, Undisturbed, EndsWithCall, ToolAdded
<1>4. QED BY <1>1, <1>2, <1>3

(* A provider of the Gemini live model has one session, ends with it and
   closes for good, for any number of tools added in mid-call and of sending
   tasks. *)
THEOREM AlwaysOneCall == Spec => []OneCall
<1>1. Init => GeminiInv
  BY GeminiInit
<1>2. GeminiInv /\ [Next]_vars => GeminiInv'
  <2> SUFFICES ASSUME GeminiInv, [Next]_vars PROVE GeminiInv'
    OBVIOUS
  <2>1. CASE Begin BY <2>1, BeginStep
  <2>2. CASE Launch BY <2>2, LaunchStep
  <2>3. CASE NextTurn BY <2>3, NextTurnStep
  <2>4. CASE ToolCall \/ ToolAnswered BY <2>4, ToolCallStep
  <2>5. CASE Breaks BY <2>5, BreaksStep
  <2>6. CASE Retry BY <2>6, RetryStep
  <2>7. CASE CloseCalled BY <2>7, CloseCalledStep
  <2>8. ASSUME NEW t \in Connecting, Reconnect(t) \/ Entered(t) \/ EnterFails(t) PROVE GeminiInv'
    BY <2>8, ReconnectStep, EnteredStep
  <2>9. ASSUME NEW t \in Tool, AddTool(t) \/ ToolTask(t) \/ ToolConnects(t) PROVE GeminiInv'
    BY <2>9, AddToolStep, ToolConnectsStep
  <2>10. ASSUME NEW t \in {Closer} \union Tool, Disconnect(t) \/ Disconnected(t) PROVE GeminiInv'
    BY <2>10, DisconnectStep, DisconnectedStep
  <2>11. ASSUME NEW t \in Sender, Send(t) \/ Sent(t) \/ SendFails(t) \/ SenderLeft(t) PROVE GeminiInv'
    BY <2>11, SendStep, SendFailsStep, SenderLeftStep
  <2>12. ASSUME NEW n \in Context, Drop(n) PROVE GeminiInv'
    BY <2>12, DropStep
  <2>13. CASE UNCHANGED vars BY <2>13, GeminiStutter
  <2>14. QED
    BY <2>1, <2>2, <2>3, <2>4, <2>5, <2>6, <2>7, <2>8, <2>9, <2>10, <2>11, <2>12, <2>13 DEF Next
<1>3. GeminiInv => OneCall
  BY GeminiInvSuffices
<1>4. QED BY <1>1, <1>2, <1>3, PTL DEF Spec

-----------------------------------------------------------------------------
(* The inductive invariant of RoboticsLive                                 *)

(* The context that is entered, left or open is the one self.session_context
   holds, and a receive loop at rest has none that is open. *)
Doors ==
  /\ closer # "open" => receiver \in {"new", "loading", "ended", "failed"}
  /\ raced \/ closer = "open" \/ receiver \in {"ended", "failed"}
  /\ raced => closer # "open"
  /\ \A s \in Sessions : ws[s] = "entering" => receiver \in {"loading", "entering"}
  /\ receiver \in {"loading", "entering"} =>
       /\ held.session = NoSession
       /\ \E s \in Sessions :
            /\ ws[s] = "entering" /\ \A r \in Sessions : ws[r] = "entering" => r = s
            /\ closer # "closed" => held.context = s
  /\ receiver \in {"new", "sleeping", "failed"} => held.session = NoSession
  /\ receiver \in {"new", "failed", "sleeping", "loading", "entering"} =>
       \A s \in Sessions : ws[s] \notin {"open", "closing"}
  /\ \A s \in Sessions : ws[s] = "open" =>
       /\ held.session = s /\ (closer # "closed" => held.context = s)
       /\ receiver = "receiving" \/ closer # "open"
  /\ \A s \in Sessions : ws[s] = "closing" => receiver = "leaving" \/ closer = "closing"
  /\ receiver = "leaving" => \A s \in Sessions : ws[s] # "open"
  /\ held.session # NoSession => ws[held.session] \notin {"unused", "entering"}
  /\ closer = "closing" => receiver = "ended" /\ \A s \in Sessions : ws[s] # "open"
  /\ closer = "closed" /\ ~raced => \A s \in Sessions : ws[s] # "open"
  /\ receiver \notin {"leaving", "ended"} => reconnects <= MaxReconnects

Asked(s) == {u \in 1 .. turn.n : askedOn[u] = s}
Queued(s, u) == \E i \in 1 .. Len(unanswered[s]) : unanswered[s][i] = u

(* One turn is under way at most, of a session that has been open. *)
OneTurn ==
  /\ turn.n = 0 => turn.at = "idle"
  /\ turn.at = "idle" <=> pending.is = "none"
  /\ turn.at # "idle" => result[turn.n] = {} /\ turn.n \notin givenUp
  /\ \A u \in Turns : u > turn.n => result[u] = {} /\ u \notin givenUp
  /\ \A u \in 1 .. turn.n : askedOn[u] \in Sessions /\ ws[askedOn[u]] \notin {"unused", "entering"}
  /\ \A u \in givenUp : result[u] = {}
  /\ \A s \in Sessions : \A i \in 1 .. Len(unanswered[s]) : unanswered[s][i] \in Asked(s)
  /\ held.session # NoSession => \A u \in Asked(held.session) : askedOn[turn.n] = held.session
  /\ pending.is # "answer" => pending.text = {}
  /\ pending.is \in {"error", "cancelled"} /\ receiver = "receiving" => held.session # askedOn[turn.n]

(* The session that is received from: its queue, and what was taken from it. *)
Serving == receiver = "receiving" /\ held.session # NoSession
Over(u) == result[u] # {} \/ u \in givenUp \/ (u = turn.n /\ turn.at = "waiting")
Answered(s) == {u \in Asked(s) : result[u] # {}}
Taken(s) == {u \in Asked(s) : Over(u) /\ ~Queued(s, u)}
InOrder ==
  LET s == held.session
      q == unanswered[s]
  IN Serving =>
       /\ \A i, j \in 1 .. Len(q) : i < j => q[i] < q[j]
       /\ \A i \in 1 .. Len(q) : Over(q[i]) /\ \A u \in Taken(s) : u < q[i]
       /\ turn.at = "waiting" /\ pending.is = "waiting" => Queued(s, turn.n) \/ askedOn[turn.n] # s
       /\ Cardinality(Answered(s)) + (IF pending.is = "answer" /\ askedOn[turn.n] = s THEN 1 ELSE 0)
            <= Cardinality(Taken(s))
       /\ textParts # {} => q # <<>> /\ textParts = {Head(q)}

(* An answer that came is no later than the turns of its session that were
   given up. *)
LaterThan(other, t) ==
  {u \in Asked(askedOn[t]) : u > other /\ (u \in givenUp \/ result[u] # {} \/ u = t)}
InTime ==
  pending.is = "answer" =>
    \E other \in Asked(askedOn[turn.n]) :
      /\ pending.text = {other}
      /\ Cardinality(LaterThan(other, turn.n)) <= Cardinality(Asked(askedOn[turn.n]) \intersect givenUp)

RoboticsInv ==
  RoboticsTypeOK /\ Doors /\ OneTurn /\ InOrder /\ InTime /\ OwnAnswer /\ WaitsOnSession

-----------------------------------------------------------------------------
LEMMA SessionsType == Sessions \subseteq Nat /\ NoSession \notin Sessions /\ Turns \subseteq Nat
BY RoboticsAssumption DEF Sessions, NoSession, Turns

(* Another session is entered. *)
LEMMA OpenStep ==
  ASSUME NEW old \in [Sessions -> {"unused", "entering", "open", "closing", "over"}],
         \A s \in Sessions : old[s] # "entering",
         Open(old)
  PROVE  \E s \in Sessions :
           /\ old[s] = "unused" /\ ws' = [old EXCEPT ![s] = "entering"]
           /\ ws'[s] = "entering" /\ \A r \in Sessions \ {s} : ws'[r] = old[r]
           /\ held' = [session |-> NoSession, context |-> s]
           /\ ws' \in [Sessions -> {"unused", "entering", "open", "closing", "over"}]
BY DEF Open

LEMMA TheEntering ==
  ASSUME RoboticsTypeOK, Doors, receiver \in {"loading", "entering"}
  PROVE  /\ Entering \in Sessions /\ ws[Entering] = "entering"
         /\ \A r \in Sessions : ws[r] = "entering" => r = Entering
BY DEF Entering, Doors

LEMMA LeftAllType ==
  ASSUME RoboticsTypeOK
  PROVE  /\ LeftAll \in [Sessions -> {"unused", "entering", "open", "closing", "over"}]
         /\ \A s \in Sessions : LeftAll[s] = IF ws[s] = "closing" THEN "over" ELSE ws[s]
BY DEF LeftAll, RoboticsTypeOK

(* What a step of load(), of the receive loop or of close() does to the
   sessions, as the turns see it. *)
DoorsMoved ==
  /\ RoboticsTypeOK' /\ Doors'
  /\ \A s \in Sessions : ws[s] \notin {"unused", "entering"} => ws'[s] \notin {"unused", "entering"}
  /\ held'.session \in {held.session, NoSession}
     \/ (held'.session \in Sessions /\ ws[held'.session] = "entering" /\ textParts' = {})
  /\ receiver' = "receiving" => held'.session = NoSession \/ ws[held'.session] = "entering"

LEMMA LoadDoors ==
  ASSUME RoboticsTypeOK, Doors, Load
  PROVE  DoorsMoved
<1> USE SessionsType DEF Load, turnVars
<1>1. PICK s \in Sessions :
           /\ ws[s] = "unused" /\ ws' = [ws EXCEPT ![s] = "entering"]
           /\ ws'[s] = "entering" /\ \A r \in Sessions \ {s} : ws'[r] = ws[r]
           /\ held' = [session |-> NoSession, context |-> s]
           /\ ws' \in [Sessions -> {"unused", "entering", "open", "closing", "over"}]
  BY OpenStep DEF RoboticsTypeOK, Doors
<1>2. RoboticsTypeOK'
  BY <1>1 DEF RoboticsTypeOK
<1>3. Doors'
  BY <1>1 DEF Doors
<1>4. QED BY <1>1, <1>2, <1>3 DEF DoorsMoved

LEMMA OpenedDoors ==
  ASSUME RoboticsTypeOK, Doors, Opened
  PROVE  DoorsMoved
<1> USE SessionsType, TheEntering DEF Opened, turnVars, ShuttingDown
<1>1. /\ ws'[Entering] = "open" /\ \A r \in Sessions \ {Entering} : ws'[r] = ws[r]
      /\ held'.session = Entering /\ held'.context = held.context
  BY DEF RoboticsTypeOK
<1>2. RoboticsTypeOK'
  <2>1. ws' \in [Sessions -> {"unused", "entering", "open", "closing", "over"}]
    BY DEF RoboticsTypeOK
  <2>2. held' \in [session : Sessions \union {NoSession}, context : Sessions \union {NoSession}]
    BY DEF RoboticsTypeOK
  <2>3. QED BY <2>1, <2>2 DEF RoboticsTypeOK
<1>3. Doors'
  BY <1>1 DEF Doors
<1>4. QED BY <1>1, <1>2, <1>3 DEF DoorsMoved

LEMMA OpenFailsDoors ==
  ASSUME RoboticsTypeOK, Doors, OpenFails
  PROVE  DoorsMoved
<1> USE SessionsType, TheEntering DEF OpenFails, turnVars
<1>1. ws'[Entering] = "over" /\ \A r \in Sessions \ {Entering} : ws'[r] = ws[r]
  BY DEF RoboticsTypeOK
<1>2. RoboticsTypeOK'
  BY DEF RoboticsTypeOK
<1>3. Doors'
  BY <1>1 DEF Doors
<1>4. QED BY <1>1, <1>2, <1>3 DEF DoorsMoved

(* The old session is left for another, or for good. *)
LEMMA ReplaceDoors ==
  ASSUME RoboticsTypeOK, Doors, receiver \in {"receiving", "leaving"},
         NEW newAttempts \in 0 .. MaxReconnects + 1, reconnects' = newAttempts,
         NEW old \in [Sessions -> {"unused", "entering", "open", "closing", "over"}],
         \A s \in Sessions : old[s] = IF ws[s] = "closing" THEN "over" ELSE ws[s],
         \A s \in Sessions : old[s] # "open",
         Replace(old, newAttempts),
         pending' \in [is : {"none", "waiting", "error", "cancelled", "answer"}, text : SUBSET Turns],
         UNCHANGED <<turn, textParts, unanswered, askedOn, givenUp, result, closer, raced>>
  PROVE  DoorsMoved
<1> USE SessionsType DEF Replace
<1>0. closer = "open" /\ ~raced
  BY DEF Doors
<1>1. \A s \in Sessions : old[s] \in {"unused", "over"}
  BY DEF Doors
<1>2. CASE newAttempts > MaxReconnects
  <2>1. receiver' = "ended" /\ ws' = old /\ held' = NoneHeld
    BY <1>2
  <2>2. RoboticsTypeOK'
    BY <2>1 DEF RoboticsTypeOK, NoneHeld
  <2>3. Doors'
    BY <1>0, <1>1, <2>1 DEF Doors, NoneHeld
  <2>4. QED BY <1>0, <1>1, <2>1, <2>2, <2>3 DEF DoorsMoved, NoneHeld
<1>3. CASE ~(newAttempts > MaxReconnects)
  <2>1. receiver' = "entering" /\ Open(old) /\ reconnects' <= MaxReconnects
    BY <1>3 DEF MaxReconnects
  <2>2. PICK s \in Sessions :
           /\ old[s] = "unused" /\ ws' = [old EXCEPT ![s] = "entering"]
           /\ ws'[s] = "entering" /\ \A r \in Sessions \ {s} : ws'[r] = old[r]
           /\ held' = [session |-> NoSession, context |-> s]
           /\ ws' \in [Sessions -> {"unused", "entering", "open", "closing", "over"}]
    BY <1>1, <2>1, OpenStep
  <2>3. RoboticsTypeOK'
    BY <2>1, <2>2 DEF RoboticsTypeOK
  <2>4. Doors'
    BY <1>0, <1>1, <1>3, <2>1, <2>2 DEF Doors, MaxReconnects
  <2>5. QED BY <1>1, <2>1, <2>2, <2>3, <2>4 DEF DoorsMoved
<1>4. QED BY <1>2, <1>3

LEMMA ResolvedType ==
  ASSUME RoboticsTypeOK, NEW is \in {"error", "cancelled"}
  PROVE  /\ Resolved(Future(is)) \in [is : {"none", "waiting", "error", "cancelled", "answer"}, text : SUBSET Turns]
         /\ Resolved(Future(is)).is # "waiting"
BY DEF Resolved, Future, RoboticsTypeOK

LEMMA ReceiveFailsDoors ==
  ASSUME RoboticsTypeOK, Doors, ReceiveFails
  PROVE  DoorsMoved
<1> USE SessionsType, ResolvedType DEF ReceiveFails, SocketBreaks, MaxReconnects
<1>1. reconnects' = reconnects + 1 /\ reconnects' \in 0 .. MaxReconnects + 1 /\ receiver = "receiving"
  BY DEF RoboticsTypeOK, Doors
<1>2. CASE HeldOpen
  <2>1. receiver' = "leaving" /\ Exits /\ held.context \in Sessions
    BY <1>2 DEF HeldOpen, RoboticsTypeOK
  <2>2. ws'[held.context] = "closing" /\ \A r \in Sessions \ {held.context} : ws'[r] = ws[r]
    BY <2>1 DEF Exits, RoboticsTypeOK
  <2>3. RoboticsTypeOK'
    <3>1. ws' \in [Sessions -> {"unused", "entering", "open", "closing", "over"}]
      BY <2>1 DEF Exits, RoboticsTypeOK
    <3>2. pending' \in [is : {"none", "waiting", "error", "cancelled", "answer"}, text : SUBSET Turns]
      OBVIOUS
    <3>3. QED BY <1>1, <2>1, <3>1, <3>2 DEF Exits, RoboticsTypeOK
  <2>4. Doors'
    BY <1>1, <1>2, <2>1, <2>2 DEF Doors, Exits, HeldOpen
  <2>5. QED BY <2>1, <2>2, <2>3, <2>4 DEF DoorsMoved, Exits
<1>3. CASE ~HeldOpen
  <2>1. closer = "open" /\ \A s \in Sessions : ws[s] \notin {"open", "closing"}
    BY <1>1, <1>3 DEF Doors, HeldOpen
  <2>2. pending' \in [is : {"none", "waiting", "error", "cancelled", "answer"}, text : SUBSET Turns]
    OBVIOUS
  <2>3. Replace(ws, reconnects')
    BY <1>3
  <2>4. \A s \in Sessions : ws[s] = IF ws[s] = "closing" THEN "over" ELSE ws[s]
    BY <2>1
  <2>5. ws \in [Sessions -> {"unused", "entering", "open", "closing", "over"}]
    BY DEF RoboticsTypeOK
  <2>6. QED BY <1>1, <2>1, <2>2, <2>3, <2>4, <2>5, ReplaceDoors
<1>4. QED BY <1>2, <1>3

LEMMA SessionLeftDoors ==
  ASSUME RoboticsTypeOK, Doors, SessionLeft
  PROVE  DoorsMoved
<1> USE LeftAllType DEF SessionLeft, turnVars
<1>1. \A s \in Sessions : LeftAll[s] # "open"
  BY DEF Doors
<1>2. reconnects \in 0 .. MaxReconnects + 1
  BY DEF RoboticsTypeOK
<1>3. pending' \in [is : {"none", "waiting", "error", "cancelled", "answer"}, text : SUBSET Turns]
  BY DEF RoboticsTypeOK
<1>4. QED BY <1>1, <1>2, <1>3, ReplaceDoors

LEMMA WakesDoors ==
  ASSUME RoboticsTypeOK, Doors, Wakes
  PROVE  DoorsMoved
<1> USE DEF Wakes, turnVars
<1>1. RoboticsTypeOK'
  BY DEF RoboticsTypeOK
<1>2. Doors'
  BY DEF Doors
<1>3. QED BY <1>1, <1>2 DEF DoorsMoved, Doors

LEMMA CloseCalledDoors ==
  ASSUME RoboticsTypeOK, Doors, RoboticsCloseCalled
  PROVE  DoorsMoved
<1> USE SessionsType, ResolvedType DEF RoboticsCloseCalled
<1>1. /\ ws' \in [Sessions -> {"unused", "entering", "open", "closing", "over"}]
      /\ receiver \in {"new", "loading", "failed"} => ws' = ws /\ receiver' = receiver
      /\ receiver \notin {"new", "loading", "failed"} =>
           /\ receiver' = "ended"
           /\ \A s \in Sessions : ws'[s] = IF ws[s] \in {"entering", "closing"} THEN "over" ELSE ws[s]
  BY DEF RoboticsTypeOK
<1>2. RoboticsTypeOK'
  BY <1>1 DEF RoboticsTypeOK
<1>3. closer = "open" /\ closer' = "requested" /\ UNCHANGED <<held, reconnects>>
      /\ raced' = (receiver \in {"new", "loading"}) /\ ~raced
  BY DEF Doors
<1>4. Doors'
  <2>1. CASE receiver \in {"new", "loading", "failed"}
    BY <1>1, <1>3, <2>1 DEF Doors
  <2>2. CASE receiver \notin {"new", "loading", "failed"}
    <3>. receiver \notin {"new", "loading"}
      BY <2>2
    <3>0. ~raced'
      BY <1>3, Zenon
    <3>1. /\ receiver' = "ended"
          /\ \A s \in Sessions : ws'[s] = IF ws[s] \in {"entering", "closing"} THEN "over" ELSE ws[s]
      BY <1>1, <1>3, <2>2
    <3>2. held.session # NoSession => held.session \in Sessions
      BY DEF RoboticsTypeOK
    <3>3. QED BY <1>3, <3>0, <3>1, <3>2 DEF Doors
  <2>3. QED BY <2>1, <2>2
<1>5. QED BY <1>1, <1>2, <1>3, <1>4 DEF DoorsMoved, Doors

LEMMA ClosesDoors ==
  ASSUME RoboticsTypeOK, Doors, Closes
  PROVE  DoorsMoved
<1> USE SessionsType DEF Closes, turnVars
<1>1. CASE HeldOpen
  <2>1. /\ closer' = "closing" /\ Exits /\ held.context \in Sessions
        /\ ws[held.context] = "open" /\ UNCHANGED <<held, receiver>>
    BY <1>1 DEF HeldOpen, RoboticsTypeOK, Exits
  <2>2. ws'[held.context] = "closing" /\ \A r \in Sessions \ {held.context} : ws'[r] = ws[r]
    BY <2>1 DEF Exits, RoboticsTypeOK
  <2>3. RoboticsTypeOK'
    BY <2>1 DEF Exits, RoboticsTypeOK
  <2>4. receiver = "ended"
    BY <2>1 DEF Doors
  <2>5. Doors'
    BY <2>1, <2>2, <2>4 DEF Doors
  <2>6. QED BY <2>1, <2>2, <2>3, <2>4, <2>5 DEF DoorsMoved
<1>2. CASE ~HeldOpen
  <2>1. closer' = "closed" /\ held' = NoneHeld /\ UNCHANGED <<ws, receiver>>
    BY <1>2
  <2>2. \A s \in Sessions : ws[s] \notin {"open", "closing"}
    BY <1>2, <2>1 DEF Doors, HeldOpen
  <2>3. RoboticsTypeOK'
    BY <2>1 DEF RoboticsTypeOK, NoneHeld
  <2>4. Doors'
    BY <2>1, <2>2 DEF Doors, NoneHeld
  <2>5. QED BY <2>1, <2>3, <2>4 DEF DoorsMoved, NoneHeld
<1>3. QED BY <1>1, <1>2

LEMMA ClosedDoors ==
  ASSUME RoboticsTypeOK, Doors, Closed
  PROVE  DoorsMoved
<1> USE SessionsType, LeftAllType DEF Closed, turnVars
<1>1. receiver = "ended" /\ \A s \in Sessions : ws'[s] \notin {"open", "closing", "entering"}
  BY DEF Doors
<1>2. RoboticsTypeOK'
  BY DEF RoboticsTypeOK, NoneHeld
<1>3. Doors'
  BY <1>1 DEF Doors, NoneHeld
<1>4. QED BY <1>1, <1>2, <1>3 DEF DoorsMoved, NoneHeld

-----------------------------------------------------------------------------
(* The turns, when the sessions move                                       *)

TurnsKept ==
  /\ UNCHANGED <<turn, askedOn, givenUp, result, unanswered>>
  /\ \/ UNCHANGED pending
     \/ \E is \in {"error", "cancelled"} : pending' = Resolved(Future(is)) /\ receiver' # "receiving"
  /\ closer' = "open" => closer = "open"
  /\ receiver # "receiving" \/ closer' # "open" \/ pending'.is # "waiting"

LEMMA OwnAnswerKept ==
  ASSUME OwnAnswer, RoboticsTypeOK',
         \A t \in Turns : result'[t] # {} =>
           /\ result'[t] = result[t]
           /\ \A u \in 1 .. t : askedOn'[u] = askedOn[u] /\ result'[u] = result[u]
                                /\ (u \in givenUp' <=> u \in givenUp)
  PROVE  OwnAnswer'
<1> SUFFICES ASSUME NEW t \in Turns, NEW other \in result'[t]
             PROVE  /\ result'[t] = {other} /\ other \in SameSession(t)'
                    /\ Cardinality(Later(t, other)') <= Cardinality((SameSession(t) \intersect givenUp)')
  BY DEF OwnAnswer
<1>1. t \in 1 .. t
  BY SessionsType DEF Turns
<1>2. SameSession(t)' = SameSession(t)
  BY <1>1 DEF SameSession
<1>3. Later(t, other)' = Later(t, other) /\ (SameSession(t) \intersect givenUp)' = SameSession(t) \intersect givenUp
  BY <1>2 DEF Later, SameSession
<1>4. QED BY <1>2, <1>3 DEF OwnAnswer

LEMMA DoorsStep ==
  ASSUME RoboticsInv, DoorsMoved, TurnsKept
  PROVE  RoboticsInv'
<1> USE SessionsType DEF RoboticsInv
<1>1. /\ RoboticsTypeOK /\ RoboticsTypeOK' /\ Doors'
      /\ UNCHANGED <<turn, askedOn, givenUp, result, unanswered>>
      /\ \A s : Asked(s)' = Asked(s)
  BY DEF DoorsMoved, TurnsKept, Asked
<1>2. /\ pending'.is # "answer" => pending'.text = {}
      /\ pending'.is = "answer" => pending' = pending
      /\ pending'.is = "none" <=> pending.is = "none"
      /\ pending'.is = "waiting" => pending' = pending
      /\ pending' = pending \/ receiver' # "receiving"
  <2>1. CASE UNCHANGED pending BY <2>1 DEF OneTurn
  <2>2. CASE ~UNCHANGED pending
    <3>1. PICK is \in {"error", "cancelled"} : pending' = Resolved(Future(is)) /\ receiver' # "receiving"
      BY <2>2 DEF TurnsKept
    <3>2. QED BY <2>2, <3>1 DEF Resolved, Future, OneTurn
  <2>3. QED BY <2>1, <2>2
<1>3. ASSUME receiver' = "receiving", held'.session # NoSession
      PROVE  Asked(held'.session) = {} /\ textParts' = {}
  <2>1. ws[held'.session] = "entering" /\ textParts' = {}
    BY <1>3 DEF DoorsMoved, RoboticsTypeOK, Doors
  <2>2. QED BY <2>1 DEF OneTurn, Asked
<1>4. OneTurn'
  <2>1. \A u \in 1 .. turn.n : askedOn[u] \in Sessions /\ ws'[askedOn[u]] \notin {"unused", "entering"}
    BY DEF OneTurn, DoorsMoved
  <2>2. held'.session # NoSession => \A u \in Asked(held'.session) : askedOn[turn.n] = held'.session
    <3>1. CASE held'.session \in {held.session, NoSession}
      BY <3>1 DEF OneTurn
    <3>2. CASE held'.session \notin {held.session, NoSession}
      BY <3>2 DEF DoorsMoved, OneTurn, Asked
    <3>3. QED BY <3>1, <3>2
  <2>3. ASSUME pending'.is \in {"error", "cancelled"}, receiver' = "receiving"
        PROVE  held'.session # askedOn[turn.n]
    <3>1. pending' = pending /\ turn.at # "idle" /\ turn.n # 0 /\ turn.n \in 1 .. turn.n
      BY <1>1, <1>2, <2>3 DEF OneTurn, RoboticsTypeOK
    <3>2. askedOn[turn.n] \in Sessions
      BY <3>1 DEF OneTurn
    <3>3. CASE held'.session = NoSession BY <3>2, <3>3
    <3>4. CASE held'.session # NoSession
      BY <1>3, <2>3, <3>1, <3>4 DEF Asked
    <3>5. QED BY <3>3, <3>4
  <2>4. QED BY <1>1, <1>2, <2>1, <2>2, <2>3 DEF OneTurn
<1>5. InOrder'
  <2> SUFFICES ASSUME Serving' PROVE InOrder'
    BY DEF InOrder
  <2>0. PICK s \in Sessions : s = held'.session
    BY <1>1 DEF Serving, RoboticsTypeOK
  <2>1. Asked(s) = {} /\ textParts' = {}
    BY <1>3, <2>0 DEF Serving
  <2>2. unanswered[s] = <<>> /\ Len(unanswered[s]) = 0
    <3>1. unanswered[s] \in Seq(Turns)
      BY <2>1 DEF RoboticsTypeOK
    <3>2. \A i \in 1 .. Len(unanswered[s]) : FALSE
      BY <2>1 DEF OneTurn
    <3>3. Len(unanswered[s]) = 0
      BY <3>1, <3>2
    <3>4. QED BY <3>1, <3>3
  <2>3. Answered(s)' = {} /\ Taken(s)' = {}
    BY <1>1, <2>1 DEF Answered, Taken
  <2>4. ~(turn.n \in 1 .. turn.n /\ askedOn[turn.n] = s)
    BY <2>1 DEF Asked
  <2>5. pending'.is \in {"answer", "waiting"} => turn.n \in 1 .. turn.n
    BY <1>1, <1>2 DEF OneTurn, RoboticsTypeOK
  <2>6. Cardinality({}) = 0
    BY FS_EmptySet
  <2>7. QED BY <1>1, <2>0, <2>1, <2>2, <2>3, <2>4, <2>5, <2>6 DEF InOrder
<1>6. InTime'
  <2> SUFFICES ASSUME pending'.is = "answer" PROVE InTime'
    BY DEF InTime
  <2>1. pending' = pending
    BY <1>2
  <2>2. \A other : LaterThan(other, turn.n)' = LaterThan(other, turn.n)
    BY <1>1 DEF LaterThan
  <2>3. QED BY <1>1, <2>1, <2>2 DEF InTime
<1>7. OwnAnswer'
  BY <1>1, OwnAnswerKept
<1>8. WaitsOnSession'
  BY <1>1, <1>2 DEF WaitsOnSession, TurnsKept
<1>9. QED BY <1>1, <1>4, <1>5, <1>6, <1>7, <1>8

LEMMA SessionsMove ==
  ASSUME RoboticsInv,
         \/ Load \/ Opened \/ OpenFails \/ ReceiveFails \/ SessionLeft \/ Wakes
         \/ RoboticsCloseCalled \/ Closes \/ Closed
  PROVE  RoboticsInv'
<1> USE DEF RoboticsInv
<1>1. DoorsMoved
  BY LoadDoors, OpenedDoors, OpenFailsDoors, ReceiveFailsDoors, SessionLeftDoors, WakesDoors,
     CloseCalledDoors, ClosesDoors, ClosedDoors
<1>2. CASE Load \/ Opened \/ OpenFails \/ SessionLeft \/ Wakes \/ Closes \/ Closed
  <2>1. TurnsKept
    BY <1>2 DEF TurnsKept, Load, Opened, OpenFails, SessionLeft, Wakes, Closes, Closed, turnVars
  <2>2. QED BY <1>1, <2>1, DoorsStep
<1>3. CASE ReceiveFails
  <2>1. receiver' # "receiving" /\ closer' = closer
    BY <1>3 DEF ReceiveFails, SocketBreaks, Replace
  <2>2. TurnsKept
    BY <1>3, <2>1, ResolvedType DEF TurnsKept, ReceiveFails, SocketBreaks
  <2>3. QED BY <1>1, <2>2, DoorsStep
<1>4. CASE RoboticsCloseCalled
  <2>1. receiver' # "receiving" /\ closer' # "open"
    BY <1>4 DEF RoboticsCloseCalled, Doors
  <2>2. TurnsKept
    BY <1>4, <2>1, ResolvedType DEF TurnsKept, RoboticsCloseCalled
  <2>3. QED BY <1>1, <2>2, DoorsStep
<1>5. QED BY <1>2, <1>3, <1>4

-----------------------------------------------------------------------------
(* The turns of one session: how late an answer can be                     *)

LEMMA DisjointUnion ==
  ASSUME NEW S, NEW T, IsFiniteSet(S), IsFiniteSet(T), S \intersect T = {}
  PROVE  /\ IsFiniteSet(S \union T)
         /\ Cardinality(S \union T) = Cardinality(S) + Cardinality(T)
         /\ Cardinality(S) \in Nat /\ Cardinality(T) \in Nat
BY FS_Union, FS_EmptySet, FS_CardinalityType

LEMMA OneMore ==
  ASSUME NEW S, IsFiniteSet(S), NEW x, x \notin S
  PROVE  IsFiniteSet(S \union {x}) /\ Cardinality(S \union {x}) = Cardinality(S) + 1
BY FS_AddElement

LEMMA NoMore ==
  ASSUME NEW S, IsFiniteSet(S), NEW T, T \subseteq S
  PROVE  IsFiniteSet(T) /\ Cardinality(T) <= Cardinality(S) /\ Cardinality(T) \in Nat
BY FS_Subset, FS_CardinalityType

(* Of the turns A, R were answered, G given up and n waits.  The answers taken
   so far are of P, all before o, the next: no more turns than were given up
   can be waiting for, or have had, an answer that was not theirs. *)
Lateness(A, R, G, P, o, n, L) ==
  /\ A \in SUBSET Nat /\ IsFiniteSet(A) /\ \A u \in A : u <= n
  /\ R \in SUBSET A /\ G \in SUBSET A /\ R \intersect G = {}
  /\ n \in A /\ n \notin R \union G
  /\ o \in A /\ o \in R \union G \union {n}
  /\ P \in SUBSET (R \union G) /\ Cardinality(R) <= Cardinality(P) /\ \A u \in P : u < o
  /\ L \in SUBSET A /\ \A u \in L : u > o /\ (u \in G \/ u \in R \/ u = n)

LEMMA LateBound ==
  ASSUME NEW A, NEW R, NEW G, NEW P, NEW o, NEW n, NEW L, Lateness(A, R, G, P, o, n, L)
  PROVE  Cardinality(L) <= Cardinality(G)
<1> DEFINE RB == {u \in R : u < o}
           RA == {u \in R : u > o}
           GB == {u \in G : u < o}
           GA == {u \in G : u > o}
<1> USE DEF Lateness
<1>0. /\ \A u \in A : (u < o \/ u = o \/ u > o) /\ ~(u < o /\ u > o) /\ ~(o < o) /\ ~(o > o)
      /\ \A u \in A : u > n => FALSE
      /\ \A u \in R \union G : u \in A
  OBVIOUS
<1>1. /\ RB \subseteq R /\ RA \subseteq R /\ GB \subseteq G /\ GA \subseteq G
      /\ RB \intersect RA = {} /\ GB \intersect GA = {} /\ RA \intersect GA = {} /\ RB \intersect GB = {}
      /\ o \notin RB \union RA /\ o \notin GB \union GA
      /\ P \subseteq RB \union GB
      /\ R \subseteq (RB \union RA) \union {o} /\ (o \notin R => R = RB \union RA)
      /\ o \in R => R = (RB \union RA) \union {o}
      /\ G \subseteq (GB \union GA) \union {o} /\ (o \notin G => G = GB \union GA)
      /\ o \in G => G = (GB \union GA) \union {o}
  BY <1>0
<1>2. o # n => L \subseteq (RA \union GA) \union {n}
  BY <1>0
<1>3. o = n => L = {}
  BY <1>0
<1>4. n \notin RA \union GA
  BY <1>0
<1> HIDE DEF RB, RA, GB, GA
<1>5. /\ IsFiniteSet(R) /\ IsFiniteSet(G) /\ Cardinality(R) \in Nat /\ Cardinality(G) \in Nat
  BY NoMore
<1>6. /\ IsFiniteSet(RB) /\ IsFiniteSet(RA) /\ IsFiniteSet(GB) /\ IsFiniteSet(GA)
      /\ Cardinality(RB) \in Nat /\ Cardinality(RA) \in Nat
      /\ Cardinality(GB) \in Nat /\ Cardinality(GA) \in Nat
  BY <1>1, <1>5, NoMore
<1>7. /\ IsFiniteSet(RB \union RA) /\ Cardinality(RB \union RA) = Cardinality(RB) + Cardinality(RA)
      /\ IsFiniteSet(GB \union GA) /\ Cardinality(GB \union GA) = Cardinality(GB) + Cardinality(GA)
      /\ IsFiniteSet(RA \union GA) /\ Cardinality(RA \union GA) = Cardinality(RA) + Cardinality(GA)
      /\ IsFiniteSet(RB \union GB) /\ Cardinality(RB \union GB) = Cardinality(RB) + Cardinality(GB)
  BY <1>1, <1>6, DisjointUnion
<1>8. Cardinality(P) <= Cardinality(RB) + Cardinality(GB) /\ Cardinality(P) \in Nat
  <2>1. Cardinality(P) <= Cardinality(RB \union GB) /\ Cardinality(P) \in Nat
    BY <1>1, <1>7, NoMore
  <2>2. QED BY <1>7, <2>1
<1>9. CASE o = n
  <2>1. Cardinality(L) = 0
    BY <1>3, <1>9, FS_EmptySet
  <2>2. QED BY <1>5, <2>1
<1>10. CASE o # n
  <2>1. Cardinality(L) <= Cardinality(RA) + Cardinality(GA) + 1 /\ Cardinality(L) \in Nat
    <3>1. /\ IsFiniteSet((RA \union GA) \union {n})
          /\ Cardinality((RA \union GA) \union {n}) = Cardinality(RA \union GA) + 1
      BY <1>4, <1>7, OneMore
    <3>2. Cardinality(L) <= Cardinality((RA \union GA) \union {n}) /\ Cardinality(L) \in Nat
      BY <1>2, <1>10, <3>1, NoMore
    <3>3. QED BY <1>7, <3>1, <3>2
  <2>2. CASE o \in R
    <3>1. Cardinality(R) = Cardinality(RB) + Cardinality(RA) + 1
      BY <1>1, <1>7, <2>2, OneMore
    <3>2. Cardinality(G) = Cardinality(GB) + Cardinality(GA)
      BY <1>1, <1>7, <2>2
    <3>3. QED BY <1>5, <1>6, <1>8, <2>1, <3>1, <3>2
  <2>3. CASE o \in G
    <3>1. Cardinality(R) = Cardinality(RB) + Cardinality(RA)
      BY <1>1, <1>7, <2>3
    <3>2. Cardinality(G) = Cardinality(GB) + Cardinality(GA) + 1
      BY <1>1, <1>7, <2>3, OneMore
    <3>3. QED BY <1>5, <1>6, <1>8, <2>1, <3>1, <3>2
  <2>4. QED BY <1>10, <2>2, <2>3
<1>11. QED BY <1>9, <1>10

LEMMA AskedType ==
  ASSUME RoboticsTypeOK, NEW s
  PROVE  /\ IsFiniteSet(Asked(s)) /\ Asked(s) \in SUBSET Nat /\ Asked(s) \subseteq Turns
         /\ IsFiniteSet(Answered(s)) /\ Cardinality(Answered(s)) \in Nat
         /\ IsFiniteSet(Taken(s)) /\ Cardinality(Taken(s)) \in Nat
<1>1. turn.n \in Int /\ turn.n \in 0 .. MaxTurns /\ 1 .. turn.n \subseteq Turns
  BY RoboticsAssumption DEF RoboticsTypeOK, Turns
<1>2. IsFiniteSet(1 .. turn.n)
  BY <1>1, FS_Interval
<1>3. IsFiniteSet(Asked(s))
  BY <1>2, FS_Subset DEF Asked
<1>4. IsFiniteSet(Answered(s)) /\ IsFiniteSet(Taken(s))
  BY <1>3, FS_Subset DEF Answered, Taken
<1>5. QED BY <1>1, <1>3, <1>4, FS_CardinalityType DEF Asked

(* The session that is received from has an answer for a turn that waits. *)
LEMMA AnswerBound ==
  ASSUME RoboticsInv, Serving, unanswered[held.session] # <<>>, pending.is = "waiting"
  PROVE  /\ askedOn[turn.n] = held.session
         /\ turn.n \in Asked(held.session)
         /\ Head(unanswered[held.session]) \in Asked(held.session)
         /\ Cardinality(LaterThan(Head(unanswered[held.session]), turn.n))
              <= Cardinality(Asked(held.session) \intersect givenUp)
<1> DEFINE s == held.session
           q == unanswered[s]
           o == Head(q)
           A == Asked(s)
           R == Answered(s)
           G == A \intersect givenUp
<1> USE DEF RoboticsInv
<1>1. s \in Sessions /\ q \in Seq(Turns) /\ 1 \in 1 .. Len(q) /\ o = q[1]
  BY DEF Serving, RoboticsTypeOK
<1>2. o \in A /\ Over(o) /\ \A u \in Taken(s) : u < o
  BY <1>1 DEF OneTurn, InOrder
<1>3. askedOn[turn.n] = s /\ turn.at # "idle" /\ turn.n # 0
  BY <1>2 DEF OneTurn, Serving
<1>4. turn.n \in A
  BY <1>3 DEF Asked, RoboticsTypeOK
<1>5. result[turn.n] = {} /\ turn.n \notin givenUp
  BY <1>3 DEF OneTurn
<1>6. Taken(s) \in SUBSET (R \union G)
  BY <1>3 DEF Taken, Over, InOrder, Answered
<1>7. R \in SUBSET A /\ G \in SUBSET A /\ R \intersect G = {} /\ turn.n \notin R \union G
  BY <1>5, AskedType DEF Answered, OneTurn
<1>8. Cardinality(R) <= Cardinality(Taken(s))
  BY AskedType DEF InOrder
<1>9. o \in R \union G \union {turn.n}
  BY <1>2 DEF Over, Answered
<1>10. IsFiniteSet(A) /\ A \in SUBSET Nat /\ \A u \in A : u <= turn.n
  <2>1. IsFiniteSet(A) /\ A \in SUBSET Nat
    BY AskedType
  <2>2. turn.n \in Nat
    BY RoboticsAssumption DEF RoboticsTypeOK
  <2>3. QED BY <2>1, <2>2 DEF Asked
<1>11. LaterThan(o, turn.n) = {u \in A : u > o /\ (u \in G \/ u \in R \/ u = turn.n)}
  BY <1>3 DEF LaterThan, Answered
<1>12. Cardinality(LaterThan(o, turn.n)) <= Cardinality(G)
  <2>1. \A u \in Taken(s) : u < o
    BY <1>2
  <2> DEFINE L == LaterThan(o, turn.n)
             P == Taken(s)
  <2>2. L \in SUBSET A /\ \A u \in L : u > o /\ (u \in G \/ u \in R \/ u = turn.n)
    BY <1>11
  <2>3. P \in SUBSET (R \union G) /\ Cardinality(R) <= Cardinality(P) /\ \A u \in P : u < o
    BY <1>6, <1>8, <2>1
  <2>4. Lateness(A, R, G, P, o, turn.n, L)
    BY <1>2, <1>4, <1>7, <1>9, <1>10, <2>2, <2>3 DEF Lateness
  <2>5. QED BY <2>4, LateBound
<1>13. QED BY <1>2, <1>3, <1>4, <1>12

-----------------------------------------------------------------------------
(* The steps of the turns                                                  *)

LEMMA DoorsKept ==
  ASSUME Doors, UNCHANGED <<receiver, reconnects, ws, held, closer, raced>>
  PROVE  Doors'
BY DEF Doors

LEMMA AskedKept ==
  ASSUME UNCHANGED <<turn, askedOn>>
  PROVE  \A s : Asked(s)' = Asked(s)
BY DEF Asked

LEMMA PartStep ==
  ASSUME RoboticsInv, Part
  PROVE  RoboticsInv'
<1> USE SessionsType DEF RoboticsInv, Part, turnVars
<1>1. held.session \in Sessions
  BY DEF RoboticsTypeOK
<1>0. PICK q \in Seq(Turns) : q = unanswered[held.session]
  BY <1>1 DEF RoboticsTypeOK
<1>2. RoboticsTypeOK'
  <2>1. Head(q) \in Turns
    BY <1>0
  <2>2. QED BY <1>0, <2>1 DEF RoboticsTypeOK
<1>3. /\ Doors' /\ OneTurn' /\ InTime' /\ OwnAnswer' /\ WaitsOnSession'
  <2>1. Doors' BY DoorsKept
  <2>2. OneTurn' BY AskedKept DEF OneTurn
  <2>3. InTime'
    <3>1. \A o : LaterThan(o, turn.n)' = LaterThan(o, turn.n)
      BY AskedKept DEF LaterThan
    <3>2. QED BY <3>1, AskedKept DEF InTime
  <2>4. OwnAnswer' BY <1>2, OwnAnswerKept
  <2>5. WaitsOnSession' BY DEF WaitsOnSession
  <2>6. QED BY <2>1, <2>2, <2>3, <2>4, <2>5
<1>4. InOrder'
  <2>1. \A s : Taken(s)' = Taken(s) /\ Answered(s)' = Answered(s)
    BY AskedKept DEF Taken, Answered, Over, Queued
  <2>2. \A u : Over(u)' = Over(u) /\ \A s : Queued(s, u)' = Queued(s, u)
    BY DEF Over, Queued
  <2>3. textParts' = {Head(unanswered[held.session])}
    BY DEF InOrder, Serving
  <2>4. QED BY <2>1, <2>2, <2>3 DEF InOrder, Serving
<1>5. QED BY <1>2, <1>3, <1>4

LEMMA SendTurnStep ==
  ASSUME RoboticsInv, SendTurn
  PROVE  RoboticsInv'
<1> USE SessionsType, RoboticsAssumption DEF RoboticsInv, SendTurn
<1>0. PICK m : m = turn.n + 1
  OBVIOUS
<1>1. /\ turn.n \in Nat /\ m \in Turns /\ turn' = [n |-> m, at |-> "sending"] /\ held.session \in Sessions
      /\ pending' = [is |-> "waiting", text |-> {}] /\ pending.is = "none"
      /\ result[m] = {} /\ m \notin givenUp
      /\ askedOn'[m] = held.session /\ \A u \in Turns \ {m} : askedOn'[u] = askedOn[u]
      /\ 1 .. turn.n \subseteq Turns
      /\ 1 .. m = (1 .. turn.n) \union {m} /\ m \notin 1 .. turn.n
  BY <1>0 DEF RoboticsTypeOK, Turns, Future, OneTurn
<1>2. RoboticsTypeOK'
  <2>1. turn' \in [n : 0 .. MaxTurns, at : {"idle", "sending", "waiting"}]
    BY <1>1
  <2>2. askedOn' \in [Turns -> Sessions \union {NoSession}]
    BY <1>1 DEF RoboticsTypeOK
  <2>3. pending' \in [is : {"none", "waiting", "error", "cancelled", "answer"}, text : SUBSET Turns]
    BY <1>1
  <2>4. QED BY <2>1, <2>2, <2>3 DEF RoboticsTypeOK
<1>3. \A s \in Sessions : Asked(s)' = IF s = held.session THEN Asked(s) \union {m} ELSE Asked(s)
  BY <1>1 DEF Asked
<1>4. Doors'
  BY DoorsKept
<1>5. OneTurn'
  <2>1. \A u \in 1 .. m : askedOn'[u] \in Sessions /\ ws[askedOn'[u]] \notin {"unused", "entering"}
    BY <1>1 DEF OneTurn, Doors
  <2>2. \A s \in Sessions : \A i \in 1 .. Len(unanswered[s]) : unanswered[s][i] \in Asked(s)'
    BY <1>3 DEF OneTurn
  <2>3. \A u \in Turns : u > m => result[u] = {} /\ u \notin givenUp
    BY <1>1 DEF OneTurn, Turns
  <2>4. QED BY <1>1, <2>1, <2>2, <2>3 DEF OneTurn
<1>6. InOrder'
  <2> SUFFICES ASSUME Serving PROVE InOrder'
    BY DEF InOrder, Serving
  <2>1. \A u \in 1 .. turn.n : Over(u)' = Over(u)
    BY <1>1 DEF Over
  <2>2. ~Over(m)'
    BY <1>1 DEF Over
  <2>3. Answered(held.session)' = Answered(held.session) /\ Taken(held.session)' = Taken(held.session)
    BY <1>1, <1>3, <2>1, <2>2 DEF Answered, Taken, Queued, Asked
  <2>4. \A i \in 1 .. Len(unanswered[held.session]) : unanswered[held.session][i] \in 1 .. turn.n
    BY <1>1 DEF OneTurn, Asked
  <2>5. QED BY <1>1, <2>1, <2>3, <2>4 DEF InOrder, Serving
<1>7. InTime' /\ WaitsOnSession'
  BY <1>1 DEF InTime, WaitsOnSession
<1>8. OwnAnswer'
  <2>1. \A t \in Turns : result[t] # {} => t \in 1 .. turn.n
    BY <1>1 DEF OneTurn, Turns
  <2>2. \A t \in 1 .. turn.n : \A u \in 1 .. t : askedOn'[u] = askedOn[u]
    BY <1>1
  <2>3. QED BY <1>2, <2>1, <2>2, OwnAnswerKept
<1>9. QED BY <1>2, <1>4, <1>5, <1>6, <1>7, <1>8

LEMMA TurnSentStep ==
  ASSUME RoboticsInv, TurnSent
  PROVE  RoboticsInv'
<1> USE SessionsType, RoboticsAssumption DEF RoboticsInv, TurnSent
<1>0. PICK n, s, q : n = turn.n /\ s = askedOn[n] /\ q = unanswered[s]
  OBVIOUS
<1>00. n \in Turns /\ n \in 1 .. n /\ s \in Sessions
  BY <1>0 DEF RoboticsTypeOK, Turns, OneTurn
<1>1. /\ n \in Turns /\ n \in 1 .. n /\ turn.n = n /\ askedOn[n] = s /\ turn' = [n |-> n, at |-> "waiting"]
      /\ s \in Sessions /\ held.session = s /\ (receiver = "receiving" \/ closer # "open")
      /\ result[n] = {} /\ n \notin givenUp /\ n \in Asked(s)
  BY <1>0, <1>00 DEF RoboticsTypeOK, OneTurn, Doors, Asked
<1>01. PICK p : p = unanswered'[s]
  OBVIOUS
<1>2. /\ q \in Seq(Turns) /\ p = Append(q, n) /\ unanswered'[s] = p /\ unanswered[s] = q
      /\ \A r \in Sessions \ {s} : unanswered'[r] = unanswered[r]
      /\ Len(p) = Len(q) + 1 /\ Len(q) \in Nat
      /\ p[Len(q) + 1] = n
      /\ \A i \in 1 .. Len(q) : p[i] = q[i]
  BY <1>0, <1>01, <1>1 DEF RoboticsTypeOK
<1>3. RoboticsTypeOK'
  <2>1. unanswered' \in [Sessions -> Seq(Turns)]
    BY <1>0, <1>1, <1>2 DEF RoboticsTypeOK
  <2>2. turn' \in [n : 0 .. MaxTurns, at : {"idle", "sending", "waiting"}]
    <3>1. n \in 0 .. MaxTurns
      BY <1>1 DEF Turns
    <3>2. QED BY <1>1, <3>1
  <2>3. QED BY <2>1, <2>2 DEF RoboticsTypeOK
<1>4. \A r : Asked(r)' = Asked(r)
  BY <1>1 DEF Asked
<1>5. Doors'
  BY DoorsKept
<1>6. OneTurn'
  <2>1. \A r \in Sessions : \A i \in 1 .. Len(unanswered'[r]) : unanswered'[r][i] \in Asked(r)
    BY <1>1, <1>2 DEF OneTurn
  <2>2. QED BY <1>1, <1>4, <2>1 DEF OneTurn
<1>7. InOrder'
  <2> SUFFICES ASSUME Serving PROVE InOrder'
    BY DEF InOrder, Serving
  <2>1. \A u \in Asked(s) \ {n} : (Over(u)' <=> Over(u)) /\ u < n
    BY <1>1 DEF Over, Asked
  <2>2. Over(n)' /\ ~Over(n)
    BY <1>1 DEF Over
  <2>3. \A u : Queued(s, u)' <=> (Queued(s, u) \/ u = n)
    BY <1>2 DEF Queued
  <2>4. Taken(s)' = Taken(s) /\ Answered(s)' = Answered(s)
    BY <1>4, <2>1, <2>2, <2>3 DEF Taken, Answered
  <2>5. \A i \in 1 .. Len(q) : q[i] \in Asked(s) \ {n} /\ Over(q[i]) /\ q[i] < n
    BY <1>1, <1>2, <2>1, <2>2 DEF OneTurn, InOrder
  <2>6. \A u \in Taken(s) : u < n
    BY <2>1, <2>2 DEF Taken
  <2>7. \A i \in 1 .. Len(p) :
          /\ Over(p[i])' /\ \A u \in Taken(s) : u < p[i]
          /\ \A j \in 1 .. Len(p) : i < j => p[i] < p[j]
    <3> TAKE i \in 1 .. Len(p)
    <3>1. CASE i \in 1 .. Len(q)
      <4>1. p[i] = q[i] /\ Over(q[i])' /\ \A u \in Taken(s) : u < q[i]
        BY <1>1, <1>2, <2>1, <2>5, <3>1 DEF InOrder
      <4>2. \A j \in 1 .. Len(p) : i < j => q[i] < p[j]
        BY <1>1, <1>2, <2>5, <3>1 DEF InOrder
      <4>3. QED BY <4>1, <4>2
    <3>2. CASE i = Len(q) + 1
      BY <1>2, <2>2, <2>6, <3>2
    <3>3. QED BY <1>2, <3>1, <3>2
  <2>8. textParts # {} => p # <<>> /\ textParts = {Head(p)}
    <3>1. textParts # {} => q # <<>> /\ textParts = {Head(q)}
      BY <1>1, <1>2 DEF InOrder
    <3>2. q # <<>> => Head(p) = Head(q) /\ p # <<>>
      BY <1>2
    <3>3. QED BY <3>1, <3>2
  <2>9. QED BY <1>1, <1>2, <2>3, <2>4, <2>7, <2>8 DEF InOrder, Serving
<1>8. InTime'
  <2>1. \A o : LaterThan(o, n)' = LaterThan(o, n)
    BY <1>1, <1>4 DEF LaterThan
  <2>2. QED BY <1>1, <1>4, <2>1 DEF InTime
<1>9. OwnAnswer'
  BY <1>3, OwnAnswerKept
<1>10. WaitsOnSession'
  BY <1>1 DEF WaitsOnSession
<1>11. QED BY <1>3, <1>5, <1>6, <1>7, <1>8, <1>9, <1>10

(* _run_turn is over: with a text, if the future was completed with one. *)
LEMMA ReturnsStep ==
  ASSUME RoboticsInv, turn.at # "idle", NEW text, Returns(text),
         \/ turn.at = "sending" /\ text = {} /\ givenUp' = givenUp
         \/ turn.at = "waiting" /\ pending.is # "waiting" /\ text = pending.text /\ givenUp' = givenUp
         \/ turn.at = "waiting" /\ pending.is = "waiting" /\ text = {} /\ givenUp' = givenUp \union {turn.n}
  PROVE  RoboticsInv'
<1> USE SessionsType, RoboticsAssumption DEF RoboticsInv, Returns
<1>0. PICK n, s, r : n = turn.n /\ s = held.session /\ r = askedOn[n]
  OBVIOUS
<1>1. /\ n \in Turns /\ n \in 1 .. n /\ turn.n = n /\ turn' = [n |-> n, at |-> "idle"]
      /\ r \in Sessions /\ askedOn[n] = r /\ held.session = s
      /\ result[n] = {} /\ n \notin givenUp /\ n \in Asked(r)
      /\ pending' = [is |-> "none", text |-> {}] /\ pending.is # "none"
  <2>1. n \in Turns /\ n \in 1 .. n
    BY <1>0 DEF RoboticsTypeOK, OneTurn, Turns
  <2>2. turn' = [n |-> n, at |-> "idle"]
    BY <1>0 DEF RoboticsTypeOK
  <2>3. r \in Sessions /\ result[n] = {} /\ n \notin givenUp /\ n \in Asked(r)
    BY <1>0, <2>1 DEF OneTurn, Asked
  <2>4. QED BY <1>0, <2>1, <2>2, <2>3 DEF OneTurn, Future
<1>2. /\ text = {} \/ \E other \in Asked(r) : text = {other}
      /\ text # {} => pending.is = "answer" /\ turn.at = "waiting" /\ text = pending.text
      /\ turn.at = "waiting" /\ pending.is = "answer" => text # {}
      /\ givenUp' \in {givenUp, givenUp \union {n}}
      /\ text # {} => givenUp' = givenUp
      /\ text \in SUBSET Turns
  BY <1>0, <1>1, AskedType DEF InTime, OneTurn
<1>3. result'[n] = text /\ \A u \in Turns \ {n} : result'[u] = result[u]
  BY <1>1, <1>2 DEF RoboticsTypeOK
<1>4. RoboticsTypeOK'
  <2>1. result' \in [Turns -> SUBSET Turns]
    BY <1>0, <1>2 DEF RoboticsTypeOK
  <2>2. turn' \in [n : 0 .. MaxTurns, at : {"idle", "sending", "waiting"}]
    BY <1>1 DEF RoboticsTypeOK, Turns
  <2>3. pending' \in [is : {"none", "waiting", "error", "cancelled", "answer"}, text : SUBSET Turns]
    BY <1>1
  <2>4. givenUp' \subseteq Turns
    BY <1>1, <1>2 DEF RoboticsTypeOK
  <2>5. QED BY <2>1, <2>2, <2>3, <2>4 DEF RoboticsTypeOK
<1>5. \A x : Asked(x)' = Asked(x)
  BY <1>1 DEF Asked
<1>6. Doors'
  BY DoorsKept
<1>7. OneTurn'
  <2>1. \A u \in givenUp' : result'[u] = {}
    BY <1>1, <1>2, <1>3 DEF OneTurn, RoboticsTypeOK
  <2>2. \A u \in Turns : u > n => result'[u] = {} /\ u \notin givenUp'
    BY <1>1, <1>2, <1>3 DEF OneTurn, Turns
  <2>3. QED BY <1>1, <1>5, <2>1, <2>2 DEF OneTurn
<1>8. InOrder'
  <2> SUFFICES ASSUME Serving PROVE InOrder'
    BY DEF InOrder, Serving
  <2>0. s \in Sessions
    BY <1>0 DEF Serving, RoboticsTypeOK
  <2>1. \A u \in Asked(s) : Over(u)' <=> Over(u)
    <3> TAKE u \in Asked(s)
    <3>1. u \in Turns
      BY AskedType
    <3>2. CASE u # n
      BY <1>1, <1>2, <1>3, <3>1, <3>2 DEF Over
    <3>3. CASE u = n
      <4>1. r = s
        BY <1>1, <3>3 DEF Asked
      <4>2. CASE turn.at = "sending"
        BY <1>1, <1>3, <3>3, <4>2 DEF Over
      <4>3. CASE turn.at = "waiting"
        <5>1. pending.is \in {"waiting", "answer"}
          BY <1>0, <1>1, <4>1 DEF RoboticsTypeOK, OneTurn, Serving
        <5>2. result'[n] # {} \/ n \in givenUp'
          BY <1>0, <1>2, <1>3, <4>3, <5>1
        <5>3. QED BY <1>1, <3>3, <4>3, <5>2 DEF Over
      <4>4. QED BY <1>1, <4>2, <4>3 DEF RoboticsTypeOK
    <3>4. QED BY <3>2, <3>3
  <2>2. Taken(s)' = Taken(s)
    BY <1>5, <2>1 DEF Taken, Queued
  <2>3. Answered(s)' = IF text # {} /\ r = s THEN Answered(s) \union {n} ELSE Answered(s)
    <3>1. \A u \in Asked(s) \ {n} : result'[u] = result[u]
      BY <1>3, AskedType
    <3>2. n \in Asked(s) <=> r = s
      BY <1>1 DEF Asked
    <3>3. QED BY <1>1, <1>3, <1>5, <3>1, <3>2 DEF Answered
  <2>4. Cardinality(Answered(s)') <= Cardinality(Taken(s))
    <3>1. n \notin Answered(s)
      BY <1>1 DEF Answered
    <3>2. IsFiniteSet(Answered(s)) /\ Cardinality(Answered(s)) \in Nat /\ Cardinality(Taken(s)) \in Nat
      BY AskedType
    <3>3. CASE text # {} /\ r = s
      <4>1. Cardinality(Answered(s)) + 1 <= Cardinality(Taken(s))
        BY <1>1, <1>2, <3>3 DEF InOrder
      <4>2. Cardinality(Answered(s) \union {n}) = Cardinality(Answered(s)) + 1
        BY <3>1, <3>2, OneMore
      <4>3. QED BY <2>3, <3>3, <4>1, <4>2
    <3>4. CASE ~(text # {} /\ r = s)
      BY <1>1, <2>3, <3>2, <3>4 DEF InOrder
    <3>5. QED BY <3>3, <3>4
  <2>5. Cardinality(Answered(s)') \in Nat
    <3>1. IsFiniteSet(Answered(s)) /\ IsFiniteSet(Answered(s) \union {n})
      BY AskedType, FS_AddElement
    <3>2. IsFiniteSet(Answered(s)')
      BY <2>3, <3>1
    <3>3. QED BY <3>2, FS_CardinalityType
  <2>6. \A i \in 1 .. Len(unanswered[s]) : unanswered[s][i] \in Asked(s)
    BY <2>0 DEF OneTurn
  <2>7. QED BY <1>1, <2>1, <2>2, <2>4, <2>5, <2>6 DEF InOrder, Serving
<1>9. InTime' /\ WaitsOnSession'
  BY <1>1 DEF InTime, WaitsOnSession
<1>10. OwnAnswer'
  <2> SUFFICES ASSUME NEW t \in Turns, NEW other \in result'[t]
               PROVE  /\ result'[t] = {other} /\ other \in SameSession(t)'
                      /\ Cardinality(Later(t, other)') <= Cardinality((SameSession(t) \intersect givenUp)')
    BY <1>4 DEF OwnAnswer
  <2>1. CASE t = n
    <3>1. text = {other} /\ pending.is = "answer" /\ other \in Asked(r) /\ givenUp' = givenUp
      BY <1>2, <1>3, <2>1
    <3>2. SameSession(n)' = Asked(r)
      BY <1>1 DEF SameSession, Asked
    <3>3. Later(n, other)' = LaterThan(other, n)
      <4>1. \A u \in Asked(r) : (result'[u] # {}) <=> (result[u] # {} \/ u = n)
        BY <1>1, <1>3, <3>1, AskedType
      <4>2. QED BY <1>1, <3>1, <3>2, <4>1 DEF Later, LaterThan
    <3>4. Cardinality(LaterThan(other, n)) <= Cardinality(Asked(r) \intersect givenUp)
      BY <1>1, <1>2, <3>1 DEF InTime
    <3>5. (SameSession(n) \intersect givenUp)' = Asked(r) \intersect givenUp
      BY <3>1, <3>2
    <3>6. QED BY <1>3, <2>1, <3>1, <3>2, <3>3, <3>4, <3>5
  <2>2. CASE t # n
    <3>1. other \in result[t] /\ result'[t] = result[t] /\ t < n /\ t \in 1 .. t
      BY <1>1, <1>3, <2>2 DEF OneTurn, Turns
    <3>2. \A u \in 1 .. t : u \in Turns \ {n} /\ result'[u] = result[u] /\ (u \in givenUp' <=> u \in givenUp)
      BY <1>1, <1>2, <1>3, <3>1 DEF Turns
    <3>3. SameSession(t)' = SameSession(t)
      BY <3>1 DEF SameSession
    <3>4. Later(t, other)' = Later(t, other)
          /\ (SameSession(t) \intersect givenUp)' = SameSession(t) \intersect givenUp
      BY <3>2, <3>3 DEF Later, SameSession
    <3>5. QED BY <3>1, <3>3, <3>4 DEF OwnAnswer
  <2>3. QED BY <2>1, <2>2
<1>11. QED BY <1>4, <1>6, <1>7, <1>8, <1>9, <1>10

(* The service has answered a turn: the future that waits is completed. *)
LEMMA TurnCompleteStep ==
  ASSUME RoboticsInv, TurnComplete
  PROVE  RoboticsInv'
<1> USE SessionsType, RoboticsAssumption DEF RoboticsInv, TurnComplete
<1>0. PICK n, s, q, p : n = turn.n /\ s = held.session /\ q = unanswered[s] /\ p = Tail(q)
  OBVIOUS
<1> DEFINE o == Head(q)
<1>1. /\ s \in Sessions /\ held.session = s /\ turn.n = n /\ q \in Seq(Turns) /\ q # <<>>
      /\ unanswered[s] = q /\ unanswered'[s] = p
      /\ \A r \in Sessions \ {s} : unanswered'[r] = unanswered[r]
  BY <1>0 DEF RoboticsTypeOK
<1>2. /\ p \in Seq(Turns) /\ Len(q) \in Nat /\ Len(q) = Len(p) + 1 /\ Len(p) \in Nat
      /\ o = q[1] /\ 1 \in 1 .. Len(q) /\ o \in Turns
      /\ \A i \in 1 .. Len(p) : p[i] = q[i + 1] /\ i + 1 \in 1 .. Len(q) /\ 1 < i + 1
  BY <1>0, <1>1
<1>3. Serving /\ textParts = {o}
  BY <1>0, <1>1 DEF Serving, InOrder
<1>4. /\ pending' = IF pending.is = "waiting" THEN [is |-> "answer", text |-> {o}] ELSE pending
  BY <1>3 DEF Resolved
<1>5. RoboticsTypeOK'
  <2>1. unanswered' \in [Sessions -> Seq(Turns)]
    BY <1>0, <1>1, <1>2 DEF RoboticsTypeOK
  <2>2. pending' \in [is : {"none", "waiting", "error", "cancelled", "answer"}, text : SUBSET Turns]
    BY <1>2, <1>4 DEF RoboticsTypeOK
  <2>3. QED BY <2>1, <2>2 DEF RoboticsTypeOK, MaxReconnects
<1>6. \A x : Asked(x)' = Asked(x)
  BY AskedKept
<1>7. Doors'
  <2>1. reconnects \in Nat
    BY DEF RoboticsTypeOK
  <2>2. QED BY <2>1 DEF Doors, MaxReconnects
<1>8. OneTurn'
  <2>1. \A r \in Sessions : \A i \in 1 .. Len(unanswered'[r]) : unanswered'[r][i] \in Asked(r)
    <3> TAKE r \in Sessions
    <3>1. CASE r = s BY <1>1, <1>2, <3>1 DEF OneTurn
    <3>2. CASE r # s BY <1>1, <3>2 DEF OneTurn
    <3>3. QED BY <3>1, <3>2
  <2>2. pending'.is = "none" <=> pending.is = "none"
    BY <1>4
  <2>3. /\ pending'.is # "answer" => pending' = pending
        /\ pending'.is \in {"error", "cancelled"} => pending' = pending
    BY <1>4
  <2>4. QED BY <1>6, <2>1, <2>2, <2>3 DEF OneTurn
<1>9. InTime'
  <2>1. \A x : LaterThan(x, n)' = LaterThan(x, n)
    BY <1>1, <1>6 DEF LaterThan
  <2>2. CASE pending.is = "waiting"
    <3>1. /\ askedOn[n] = s /\ o \in Asked(s)
          /\ Cardinality(LaterThan(o, n)) <= Cardinality(Asked(s) \intersect givenUp)
      BY <1>0, <1>1, <1>3, <2>2, AnswerBound
    <3>2. pending' = [is |-> "answer", text |-> {o}]
      BY <1>4, <2>2
    <3>3. Asked(askedOn[n])' = Asked(s) /\ turn'.n = n /\ askedOn'[n] = s
      BY <1>1, <3>1 DEF Asked
    <3>4. (Asked(askedOn[turn.n]) \intersect givenUp)' = Asked(s) \intersect givenUp
          /\ LaterThan(o, n)' = LaterThan(o, n)
      BY <1>1, <2>1, <3>3
    <3>5. QED BY <1>1, <2>1, <3>1, <3>2, <3>3, <3>4 DEF InTime
  <2>3. CASE pending.is # "waiting"
    <3>1. pending' = pending
      BY <1>4, <2>3
    <3>2. Asked(askedOn[n])' = Asked(askedOn[n])
      BY <1>1 DEF Asked
    <3>3. QED BY <1>1, <2>1, <3>1, <3>2 DEF InTime
  <2>4. QED BY <2>2, <2>3
<1>10. WaitsOnSession'
  BY <1>4 DEF WaitsOnSession
<1>11. OwnAnswer'
  BY <1>5, OwnAnswerKept
<1>12. InOrder'
  <2>1. \A i, j \in 1 .. Len(q) : i < j => q[i] < q[j]
    BY <1>1, <1>3 DEF InOrder
  <2>2. \A i \in 1 .. Len(q) : Over(q[i]) /\ q[i] \in Asked(s) /\ \A u \in Taken(s) : u < q[i]
    BY <1>1, <1>3 DEF InOrder, OneTurn
  <2>3. \A u : (Over(u)' <=> Over(u))
    BY DEF Over
  <2>4. \A i \in 1 .. Len(p) : o < p[i] /\ p[i] \in Turns /\ o # p[i]
    <3> TAKE i \in 1 .. Len(p)
    <3>1. p[i] = q[i + 1] /\ i + 1 \in 1 .. Len(q) /\ 1 < i + 1 /\ p[i] \in Turns
      BY <1>2
    <3>2. q[1] < q[i + 1]
      BY <1>2, <2>1, <3>1
    <3>3. o < p[i] /\ o \in Nat /\ p[i] \in Nat
      BY <1>2, <3>1, <3>2
    <3> HIDE DEF o
    <3>4. QED BY <3>1, <3>3
  <2>5. \A u : Queued(s, u) <=> (Queued(s, u)' \/ u = o)
    <3>1. \A u : Queued(s, u)' => Queued(s, u)
      BY <1>1, <1>2 DEF Queued
    <3>2. \A u : Queued(s, u) => Queued(s, u)' \/ u = o
      <4> TAKE u
      <4> HAVE Queued(s, u)
      <4>1. PICK i \in 1 .. Len(q) : q[i] = u
        BY <1>1 DEF Queued
      <4>2. CASE i = 1 BY <1>2, <4>1, <4>2
      <4>3. CASE i # 1
        <5>1. i - 1 \in 1 .. Len(p) /\ p[i - 1] = u
          BY <1>2, <4>1, <4>3
        <5>2. QED BY <1>1, <5>1 DEF Queued
      <4>4. QED BY <4>2, <4>3
    <3>3. Queued(s, o)
      BY <1>1, <1>2 DEF Queued
    <3>4. QED BY <3>1, <3>2, <3>3
  <2>6. ~Queued(s, o)'
    BY <1>1, <2>4 DEF Queued
  <2>7. Taken(s)' = Taken(s) \union {o} /\ o \notin Taken(s)
    <3>1. o \in Asked(s) /\ Over(o)
      BY <1>2, <2>2
    <3>2. QED BY <1>6, <2>3, <2>5, <2>6, <3>1 DEF Taken
  <2>8. Answered(s)' = Answered(s)
    BY <1>6 DEF Answered
  <2>9. /\ IsFiniteSet(Taken(s)) /\ Cardinality(Taken(s)) \in Nat /\ Cardinality(Answered(s)) \in Nat
        /\ Cardinality(Taken(s) \union {o}) = Cardinality(Taken(s)) + 1
    BY <2>7, AskedType, OneMore
  <2>10. Cardinality(Answered(s)) + (IF pending'.is = "answer" /\ askedOn[n] = s THEN 1 ELSE 0)
           <= Cardinality(Taken(s)) + 1
    <3>1. Cardinality(Answered(s)) + (IF pending.is = "answer" /\ askedOn[n] = s THEN 1 ELSE 0)
            <= Cardinality(Taken(s))
      BY <1>1, <1>3 DEF InOrder
    <3>2. CASE pending.is = "waiting"
      <4>1. Cardinality(Answered(s)) <= Cardinality(Taken(s))
        BY <2>9, <3>1, <3>2
      <4>2. QED BY <2>9, <4>1
    <3>3. CASE pending.is # "waiting"
      BY <1>4, <2>9, <3>1, <3>3
    <3>4. QED BY <3>2, <3>3
  <2>11. \A i \in 1 .. Len(p) : Over(p[i])' /\ \A u \in Taken(s)' : u < p[i]
    BY <1>2, <2>2, <2>3, <2>4, <2>7
  <2>12. \A i, j \in 1 .. Len(p) : i < j => p[i] < p[j]
    BY <1>2, <2>1
  <2>13. pending'.is # "waiting" /\ textParts' = {}
    BY <1>4
  <2>14. QED BY <1>1, <2>7, <2>8, <2>9, <2>10, <2>11, <2>12, <2>13 DEF InOrder, Serving
<1>13. QED BY <1>5, <1>7, <1>8, <1>9, <1>10, <1>11, <1>12

LEMMA RoboticsInitInv ==
  ASSUME RoboticsInit
  PROVE  RoboticsInv
<1> USE SessionsType, RoboticsAssumption DEF RoboticsInit, NoneHeld, Future
<1>1. RoboticsTypeOK
  <2>1. unanswered \in [Sessions -> Seq(Turns)] /\ askedOn \in [Turns -> Sessions \union {NoSession}]
    OBVIOUS
  <2>2. result \in [Turns -> SUBSET Turns] /\ ws \in [Sessions -> {"unused", "entering", "open", "closing", "over"}]
    OBVIOUS
  <2>3. turn \in [n : 0 .. MaxTurns, at : {"idle", "sending", "waiting"}]
    OBVIOUS
  <2>4. pending \in [is : {"none", "waiting", "error", "cancelled", "answer"}, text : SUBSET Turns]
    OBVIOUS
  <2>5. held \in [session : Sessions \union {NoSession}, context : Sessions \union {NoSession}]
    OBVIOUS
  <2>6. reconnects \in 0 .. MaxReconnects + 1 /\ textParts \subseteq Turns /\ givenUp \subseteq Turns
        /\ receiver = "new" /\ closer = "open" /\ raced = FALSE
    BY DEF MaxReconnects
  <2> HIDE DEF RoboticsInit
  <2>7. QED BY <2>1, <2>2, <2>3, <2>4, <2>5, <2>6 DEF RoboticsTypeOK
<1>2. Doors
  BY DEF Doors, MaxReconnects
<1>3. OneTurn
  <2>1. \A s \in Sessions : Len(unanswered[s]) = 0
    OBVIOUS
  <2>2. QED BY <2>1 DEF OneTurn
<1>4. InOrder /\ InTime /\ WaitsOnSession
  BY DEF InOrder, Serving, InTime, WaitsOnSession
<1>5. OwnAnswer
  BY <1>1 DEF OwnAnswer
<1>6. QED BY <1>1, <1>2, <1>3, <1>4, <1>5 DEF RoboticsInv

LEMMA RoboticsStep ==
  ASSUME RoboticsInv, [RoboticsNext]_roboticsVars
  PROVE  RoboticsInv'
<1>1. CASE Part BY <1>1, PartStep
<1>2. CASE TurnComplete BY <1>2, TurnCompleteStep
<1>3. CASE SendTurn BY <1>3, SendTurnStep
<1>4. CASE TurnSent BY <1>4, TurnSentStep
<1>5. CASE TurnSendFails
  BY <1>5, ReturnsStep DEF TurnSendFails
<1>6. CASE TurnReturns
  BY <1>6, ReturnsStep DEF TurnReturns
<1>7. CASE TurnTimesOut
  BY <1>7, ReturnsStep DEF TurnTimesOut
<1>8. CASE UNCHANGED roboticsVars
  <2> USE <1>8 DEF roboticsVars, turnVars, RoboticsInv
  <2>1. RoboticsTypeOK' BY DEF RoboticsTypeOK
  <2>2. Doors' BY DoorsKept
  <2>3. OneTurn' BY AskedKept DEF OneTurn
  <2>4. OwnAnswer' BY <2>1, OwnAnswerKept
  <2>5. \A o : LaterThan(o, turn.n)' = LaterThan(o, turn.n)
    BY AskedKept DEF LaterThan
  <2>6. InTime' BY <2>5, AskedKept DEF InTime
  <2>7. \A s : Taken(s)' = Taken(s) /\ Answered(s)' = Answered(s)
    BY AskedKept DEF Taken, Answered, Over, Queued
  <2>8. \A u : Over(u)' = Over(u) /\ \A s : Queued(s, u)' = Queued(s, u)
    BY DEF Over, Queued
  <2>9. InOrder' BY <2>7, <2>8 DEF InOrder, Serving
  <2>10. WaitsOnSession' BY DEF WaitsOnSession
  <2>11. QED BY <2>1, <2>2, <2>3, <2>4, <2>6, <2>9, <2>10
<1>9. QED
  BY <1>1, <1>2, <1>3, <1>4, <1>5, <1>6, <1>7, <1>8, SessionsMove DEF RoboticsNext

LEMMA RoboticsInvSuffices == RoboticsInv => RoboticsClosed
BY DEF RoboticsInv, Doors, RoboticsClosed, RoboticsTypeOK

(* A turn of Gemini Robotics gets its own answer, or one of its session that is
   late by no more turns than timed out, for any number of turns and
   sessions. *)
THEOREM AlwaysOwnAnswer == RoboticsSpec => []OwnAnswer
<1>1. RoboticsInv => OwnAnswer
  BY DEF RoboticsInv
<1>2. QED BY <1>1, RoboticsInitInv, RoboticsStep, PTL DEF RoboticsSpec

(* A turn that waits waits for the session that is received from. *)
THEOREM AlwaysWaitsOnSession == RoboticsSpec => []WaitsOnSession
<1>1. RoboticsInv => WaitsOnSession
  BY DEF RoboticsInv
<1>2. QED BY <1>1, RoboticsInitInv, RoboticsStep, PTL DEF RoboticsSpec

(* A close() that did not come before load() was over leaves no session. *)
THEOREM AlwaysRoboticsClosed == RoboticsSpec => []RoboticsClosed
BY RoboticsInvSuffices, RoboticsInitInv, RoboticsStep, PTL DEF RoboticsSpec
=============================================================================
