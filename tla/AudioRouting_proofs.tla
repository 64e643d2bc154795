------------------------- MODULE AudioRouting_proofs ------------------------
(***************************************************************************)
(* Proofs about the audio of a session: AudioRouting, for any number of    *)
(* connections, any bounds of the queues and any lengths of the frames,    *)
(* and that it implements SessionBroadcast.                                *)
(*                                                                         *)
(* Frames pass through a connection's queue, buffer and track.  Line says  *)
(* that whatever is in one of them is addressed to the connection and not  *)
(* newer than what is behind it, and Kept says what a queue has lost.  For *)
(* each there is a lemma for every way in which a step moves frames; the   *)
(* actions choose among them.  Last, what an interruption leaves is counted*)
(* by mapping the units that are left after a step to those before it.     *)
(***************************************************************************)
EXTENDS AudioRouting, SequenceTheorems, FiniteSetTheorems, TLAPS

(* The frames of queue q, buffer b and track t of a connection whose peer has
   heard frame h are among F, and in the order in which they were made. *)
Line(q, b, t, h, F) ==
  /\ \A j \in 1 .. Len(q) : q[j] \in F /\ h < q[j]
  /\ \A i \in 1 .. Len(b) : b[i] \in F /\ h <= b[i]
  /\ \A d \in 1 .. Len(t) : \A i \in 1 .. Len(t[d]) : t[d][i] \in F /\ h <= t[d][i]
  /\ \A i, j \in 1 .. Len(b) : i <= j => b[i] <= b[j]
  /\ \A i \in 1 .. Len(b), j \in 1 .. Len(q) : b[i] < q[j]
  /\ \A d \in 1 .. Len(t) : \A i \in 1 .. Len(t[d]) :
       /\ \A j \in 1 .. Len(b) : t[d][i] <= b[j]
       /\ \A j \in 1 .. Len(q) : t[d][i] < q[j]
       /\ \A e \in d + 1 .. Len(t) : \A j \in 1 .. Len(t[e]) : t[d][i] <= t[e][j]

(* A queue q is rising and has lost of the frames k that came only those older
   than all it has, and only because it is full. *)
Kept(q, k) ==
  /\ Len(q) <= MaxQueue
  /\ \A i, j \in 1 .. Len(q) : i < j => q[i] < q[j]
  /\ \A i \in 1 .. Len(q) : q[i] \in k
  /\ \A f \in k : \/ \E i \in 1 .. Len(q) : q[i] = f
                  \/ Len(q) = MaxQueue /\ \A i \in 1 .. Len(q) : f < q[i]

-----------------------------------------------------------------------------
(* A full queue loses its head to the new item (connection.py:192-201). *)
LEMMA PutProperties ==
  ASSUME NEW S, NEW q \in Seq(S), NEW x \in S
  PROVE  LET p == PutDroppingOldest(q, x)
             lost == IF Len(q) < MaxQueue THEN 0 ELSE 1
         IN /\ p \in Seq(S)
            /\ Len(p) = Len(q) + 1 - lost /\ p[Len(p)] = x
            /\ Len(q) >= lost
            /\ \A i \in 1 .. Len(q) - lost : p[i] = q[i + lost]
<1>1. CASE Len(q) < MaxQueue
  BY <1>1, AppendProperties DEF PutDroppingOldest
<1>2. CASE ~(Len(q) < MaxQueue)
  <2>1. Len(q) \in Nat \ {0} /\ q # <<>> BY <1>2, AudioAssumption, QueueAssumption
  <2>2. /\ Tail(q) \in Seq(S) /\ Len(Tail(q)) = Len(q) - 1
        /\ \A i \in 1 .. Len(Tail(q)) : Tail(q)[i] = q[i + 1]
    BY <2>1, HeadTailProperties
  <2> DEFINE r == Tail(q)
  <2> HIDE DEF r
  <2>3. r \in Seq(S) /\ Len(r) = Len(q) - 1 /\ \A i \in 1 .. Len(q) - 1 : r[i] = q[i + 1]
    BY <2>2 DEF r
  <2>4. PutDroppingOldest(q, x) = Append(r, x) BY <1>2 DEF PutDroppingOldest, r
  <2>5. QED BY <1>2, <2>1, <2>3, <2>4, AppendProperties
<1>3. QED BY <1>1, <1>2

LEMMA KeptPut ==
  ASSUME NEW q \in Seq(Nat), NEW k \in SUBSET Nat, NEW f \in Nat,
         Kept(q, k), \A x \in k : x < f
  PROVE  Kept(PutDroppingOldest(q, f), k \union {f})
<1> DEFINE p == PutDroppingOldest(q, f)
           lost == IF Len(q) < MaxQueue THEN 0 ELSE 1
<1> HIDE DEF p
<1>1. /\ p \in Seq(Nat) /\ Len(p) = Len(q) + 1 - lost /\ p[Len(p)] = f /\ Len(q) >= lost
      /\ \A i \in 1 .. Len(q) - lost : p[i] = q[i + lost]
  BY PutProperties DEF p
<1>2. MaxQueue \in Nat \ {0} /\ Len(q) \in Nat BY AudioAssumption, QueueAssumption
<1>3. Len(p) <= MaxQueue BY <1>1, <1>2 DEF Kept
<1>4. \A i \in 1 .. Len(q) : q[i] \in Nat /\ q[i] < f BY DEF Kept
<1>5. \A i \in 1 .. Len(p) :
        \/ i = Len(p) /\ p[i] = f
        \/ i \in 1 .. Len(q) - lost /\ p[i] = q[i + lost] /\ i + lost \in 1 .. Len(q)
  <2> SUFFICES ASSUME NEW i \in 1 .. Len(p), i # Len(p)
               PROVE  i \in 1 .. Len(q) - lost /\ p[i] = q[i + lost] /\ i + lost \in 1 .. Len(q)
    BY <1>1
  <2>1. i \in 1 .. Len(q) - lost BY <1>1, <1>2
  <2>2. QED BY <1>1, <1>2, <2>1
<1>6. \A i, j \in 1 .. Len(p) : i < j => p[i] < p[j]
  <2> SUFFICES ASSUME NEW i \in 1 .. Len(p), NEW j \in 1 .. Len(p), i < j PROVE p[i] < p[j]
    OBVIOUS
  <2>1. i \in 1 .. Len(q) - lost /\ p[i] = q[i + lost] /\ i + lost \in 1 .. Len(q) BY <1>1, <1>2, <1>5
  <2>2. CASE j = Len(p) BY <1>1, <1>4, <2>1, <2>2
  <2>3. CASE j # Len(p)
    <3>1. p[j] = q[j + lost] /\ j + lost \in 1 .. Len(q) BY <1>5, <2>3
    <3>2. QED BY <1>2, <2>1, <3>1 DEF Kept
  <2>4. QED BY <2>2, <2>3
<1>7. \A i \in 1 .. Len(p) : p[i] \in k \union {f} BY <1>5 DEF Kept
<1>8. ASSUME NEW g \in k \union {f}
      PROVE  \/ \E i \in 1 .. Len(p) : p[i] = g
             \/ Len(p) = MaxQueue /\ \A i \in 1 .. Len(p) : g < p[i]
  <2>1. CASE g = f BY <1>1, <1>2, <2>1
  <2>2. CASE g \in k /\ Len(q) = MaxQueue /\ \A i \in 1 .. Len(q) : g < q[i]
    BY <1>1, <1>2, <1>5, <2>2
  <2>3. CASE g \in k /\ \E i \in 1 .. Len(q) : q[i] = g
    <3>1. PICK i \in 1 .. Len(q) : q[i] = g BY <2>3
    <3>2. CASE i > lost
      <4>1. i - lost \in 1 .. Len(q) - lost /\ (i - lost) + lost = i BY <1>2, <3>2
      <4>2. i - lost \in 1 .. Len(p) /\ p[i - lost] = g BY <1>1, <1>2, <3>1, <4>1
      <4>3. QED BY <4>2
    <3>3. CASE ~(i > lost)
      <4>1. i = 1 /\ lost = 1 /\ Len(q) >= MaxQueue BY <1>2, <3>3
      <4>2. Len(p) = MaxQueue BY <1>1, <1>2, <4>1 DEF Kept
      <4>3. \A j \in 1 .. Len(p) : g < p[j]
        <5> SUFFICES ASSUME NEW j \in 1 .. Len(p) PROVE g < p[j]
          OBVIOUS
        <5>1. CASE j = Len(p) BY <1>1, <2>3, <5>1
        <5>2. CASE j # Len(p)
          <6>1. p[j] = q[j + 1] /\ j + 1 \in 1 .. Len(q) BY <1>5, <4>1, <5>2
          <6>2. QED BY <3>1, <4>1, <6>1 DEF Kept
        <5>3. QED BY <5>1, <5>2
      <4>4. QED BY <4>2, <4>3
    <3>4. QED BY <3>2, <3>3
  <2>4. QED BY <2>1, <2>2, <2>3 DEF Kept
<1>9. QED BY <1>3, <1>6, <1>7, <1>8 DEF Kept, p

LEMMA KeptTake ==
  ASSUME NEW q \in Seq(Nat), NEW k \in SUBSET Nat, Kept(q, k), q # <<>>
  PROVE  Kept(Tail(q), {f \in k : f > Head(q)})
<1> DEFINE r == Tail(q)
           g == {f \in k : f > Head(q)}
<1> HIDE DEF r, g
<1>1. /\ r \in Seq(Nat) /\ Len(r) = Len(q) - 1 /\ Len(q) \in Nat \ {0}
      /\ \A i \in 1 .. Len(r) : r[i] = q[i + 1]
  BY HeadTailProperties, LenProperties, EmptySeq DEF r
<1>2. Head(q) = q[1] BY <1>1
<1>3. \A i \in 1 .. Len(q) : q[i] \in Nat OBVIOUS
<1>4. Len(r) <= MaxQueue BY <1>1, AudioAssumption, QueueAssumption DEF Kept
<1>5. \A i, j \in 1 .. Len(r) : i < j => r[i] < r[j]
  <2> SUFFICES ASSUME NEW i \in 1 .. Len(r), NEW j \in 1 .. Len(r), i < j PROVE r[i] < r[j]
    OBVIOUS
  <2>1. i + 1 < j + 1 BY <1>1
  <2>2. i + 1 \in 1 .. Len(q) /\ j + 1 \in 1 .. Len(q) BY <1>1
  <2>3. q[i + 1] < q[j + 1] BY <2>1, <2>2 DEF Kept
  <2>4. QED BY <1>1, <2>3
<1>6. \A i \in 1 .. Len(r) : r[i] \in g
  <2> SUFFICES ASSUME NEW i \in 1 .. Len(r) PROVE r[i] \in g
    OBVIOUS
  <2>1. 1 < i + 1 /\ 1 \in 1 .. Len(q) /\ i + 1 \in 1 .. Len(q) BY <1>1
  <2>2. q[1] < q[i + 1] /\ q[i + 1] \in k BY <2>1 DEF Kept
  <2>3. r[i] > q[1] /\ r[i] \in k BY <1>1, <1>3, <2>1, <2>2
  <2>4. QED BY <1>2, <2>3 DEF g
<1>7. ASSUME NEW f \in g PROVE \E i \in 1 .. Len(r) : r[i] = f
  <2>1. f \in k /\ f > q[1] /\ f \in Nat BY <1>2 DEF g
  <2>2. PICK i \in 1 .. Len(q) : q[i] = f BY <1>1, <1>3, <2>1 DEF Kept
  <2>3. i # 1 BY <1>3, <2>1, <2>2
  <2>4. i - 1 \in 1 .. Len(r) /\ (i - 1) + 1 = i BY <1>1, <2>3
  <2>5. QED BY <1>1, <2>2, <2>4
<1>8. QED BY <1>4, <1>5, <1>6, <1>7 DEF Kept, r, g

-----------------------------------------------------------------------------
(* A frame f newer than all joins the queue, or the queue just loses some. *)
LEMMA LineQueue ==
  ASSUME NEW F \in SUBSET Nat, NEW q \in Seq(Nat), NEW b \in Seq(Nat), NEW t \in Seq(Seq(Nat)),
         NEW h \in Nat, NEW f \in Nat, NEW p \in Seq(Nat), NEW G \in SUBSET Nat,
         Line(q, b, t, h, F), F \subseteq G,
         \A j \in 1 .. Len(p) :
           \/ \E i \in 1 .. Len(q) : p[j] = q[i]
           \/ p[j] = f /\ f \in G /\ h < f /\ \A x \in F : x < f
  PROVE  Line(p, b, t, h, G)
<1>1. ASSUME NEW j \in 1 .. Len(p)
      PROVE  /\ p[j] \in G /\ h < p[j]
             /\ \A i \in 1 .. Len(b) : b[i] < p[j]
             /\ \A d \in 1 .. Len(t) : \A i \in 1 .. Len(t[d]) : t[d][i] < p[j]
  <2>1. CASE \E i \in 1 .. Len(q) : p[j] = q[i] BY <2>1 DEF Line
  <2>2. CASE p[j] = f /\ f \in G /\ h < f /\ \A x \in F : x < f BY <2>2 DEF Line
  <2>3. QED BY <2>1, <2>2
<1>2. \A i \in 1 .. Len(b) : b[i] \in G /\ h <= b[i] BY DEF Line
<1>3. \A d \in 1 .. Len(t) : \A i \in 1 .. Len(t[d]) : t[d][i] \in G /\ h <= t[d][i] BY DEF Line
<1>4. QED BY <1>1, <1>2, <1>3 DEF Line

(* The loop takes the queue's head and appends its n units to the buffer
   (connection.py:920-932). *)
LEMMA LineTake ==
  ASSUME NEW F \in SUBSET Nat, NEW q \in Seq(Nat), NEW b \in Seq(Nat), NEW t \in Seq(Seq(Nat)),
         NEW h \in Nat, NEW n \in Nat, Line(q, b, t, h, F), q # <<>>,
         \A i, j \in 1 .. Len(q) : i < j => q[i] < q[j]
  PROVE  LET u == b \o [i \in 1 .. n |-> Head(q)]
         IN u \in Seq(Nat) /\ Line(Tail(q), u, t, h, F)
<1> DEFINE g == Head(q)
           units == [i \in 1 .. n |-> g]
           u == b \o units
           r == Tail(q)
<1>1. /\ r \in Seq(Nat) /\ Len(r) = Len(q) - 1 /\ Len(q) \in Nat \ {0}
      /\ \A i \in 1 .. Len(r) : r[i] = q[i + 1]
  BY HeadTailProperties, LenProperties, EmptySeq
<1>2. g = q[1] /\ g \in Nat BY <1>1
<1>3. units \in Seq(Nat) /\ Len(units) = n /\ \A i \in 1 .. n : units[i] = g BY <1>2
<1> HIDE DEF g, units, r
<1>4. /\ u \in Seq(Nat)
      /\ \A i \in 1 .. Len(u) : \/ i \in 1 .. Len(b) /\ u[i] = b[i]
                                \/ i > Len(b) /\ u[i] = g
  BY <1>2, <1>3, ConcatProperties
<1> HIDE DEF u
<1>5. /\ g \in F /\ h < g
      /\ \A i \in 1 .. Len(b) : b[i] \in F /\ b[i] \in Nat /\ h <= b[i] /\ b[i] < g
      /\ \A d \in 1 .. Len(t) : \A i \in 1 .. Len(t[d]) :
           /\ t[d][i] \in Nat /\ t[d][i] < g
           /\ \A j \in 1 .. Len(b) : t[d][i] <= b[j]
  <2>1. 1 \in 1 .. Len(q) BY <1>1
  <2>2. g \in F /\ h < g BY <1>2, <2>1 DEF Line
  <2>3. \A i \in 1 .. Len(b) : b[i] \in F /\ b[i] \in Nat /\ h <= b[i] /\ b[i] < g
    BY <1>2, <2>1 DEF Line
  <2>4. ASSUME NEW d \in 1 .. Len(t), NEW i \in 1 .. Len(t[d])
        PROVE  /\ t[d][i] \in Nat /\ t[d][i] < g
               /\ \A j \in 1 .. Len(b) : t[d][i] <= b[j]
    BY <1>2, <2>1 DEF Line
  <2>5. QED BY <2>2, <2>3, <2>4
<1>6. \A i \in 1 .. Len(r) : \E j \in 2 .. Len(q) : r[i] = q[j] /\ g < q[j]
  <2> SUFFICES ASSUME NEW i \in 1 .. Len(r)
               PROVE  i + 1 \in 2 .. Len(q) /\ r[i] = q[i + 1] /\ g < q[i + 1]
    OBVIOUS
  <2>1. i + 1 \in 2 .. Len(q) /\ 1 \in 1 .. Len(q) BY <1>1
  <2>2. q[1] < q[i + 1] BY <2>1
  <2>3. QED BY <1>1, <1>2, <2>1, <2>2
<1>7. Line(r, b, t, h, F)
  <2>1. \A i \in 1 .. Len(r) : \E j \in 1 .. Len(q) : r[i] = q[j] BY <1>6
  <2>2. QED BY <1>1, <1>2, <2>1, LineQueue
<1>8. \A i \in 1 .. Len(u) : u[i] \in F /\ h <= u[i]
  <2> SUFFICES ASSUME NEW i \in 1 .. Len(u) PROVE u[i] \in F /\ h <= u[i]
    OBVIOUS
  <2>1. CASE i \in 1 .. Len(b) /\ u[i] = b[i] BY <1>5, <2>1
  <2>2. CASE u[i] = g BY <1>2, <1>5, <2>2
  <2>3. QED BY <1>4, <2>1, <2>2
<1>9. \A i, j \in 1 .. Len(u) : i <= j => u[i] <= u[j]
  <2> SUFFICES ASSUME NEW i \in 1 .. Len(u), NEW j \in 1 .. Len(u), i <= j PROVE u[i] <= u[j]
    OBVIOUS
  <2>1. u[i] <= g
    <3>1. CASE i \in 1 .. Len(b) /\ u[i] = b[i] BY <1>2, <1>5, <3>1
    <3>2. CASE u[i] = g BY <1>2, <3>2
    <3>3. QED BY <1>4, <3>1, <3>2
  <2>2. CASE j \in 1 .. Len(b) /\ u[j] = b[j]
    <3>1. i \in 1 .. Len(b) /\ u[i] = b[i] BY <1>4, <2>2
    <3>2. QED BY <2>2, <3>1 DEF Line
  <2>3. CASE u[j] = g BY <2>1, <2>3
  <2>4. QED BY <1>4, <2>2, <2>3
<1>10. \A i \in 1 .. Len(u), j \in 1 .. Len(r) : u[i] < r[j]
  <2> SUFFICES ASSUME NEW i \in 1 .. Len(u), NEW j \in 1 .. Len(r) PROVE u[i] < r[j]
    OBVIOUS
  <2>1. PICK k \in 2 .. Len(q) : r[j] = q[k] /\ g < q[k] BY <1>6
  <2>2. k \in 1 .. Len(q) BY <1>1
  <2>3. r[j] \in Nat /\ g < r[j] BY <2>1, <2>2
  <2>4. CASE i \in 1 .. Len(b) /\ u[i] = b[i] BY <1>2, <1>5, <2>3, <2>4
  <2>5. CASE u[i] = g BY <2>3, <2>5
  <2>6. QED BY <1>4, <2>4, <2>5
<1>11. \A d \in 1 .. Len(t) : \A i \in 1 .. Len(t[d]) : \A j \in 1 .. Len(u) : t[d][i] <= u[j]
  <2> SUFFICES ASSUME NEW d \in 1 .. Len(t), NEW i \in 1 .. Len(t[d]), NEW j \in 1 .. Len(u)
               PROVE  t[d][i] <= u[j]
    OBVIOUS
  <2>1. CASE j \in 1 .. Len(b) /\ u[j] = b[j] BY <1>5, <2>1
  <2>2. CASE u[j] = g BY <1>2, <1>5, <2>2
  <2>3. QED BY <1>4, <2>1, <2>2
<1>12. Line(r, u, t, h, F) BY <1>7, <1>8, <1>9, <1>10, <1>11 DEF Line
<1>13. QED BY <1>4, <1>12 DEF r, u, units, g

(* What is left of the buffer when a piece was cut off. *)
LEMMA LineBuffer ==
  ASSUME NEW F \in SUBSET Nat, NEW q \in Seq(Nat), NEW b \in Seq(Nat), NEW t \in Seq(Seq(Nat)),
         NEW h \in Nat, NEW n \in Nat, n <= Len(b), Line(q, b, t, h, F)
  PROVE  LET r == SubSeq(b, n + 1, Len(b)) IN r \in Seq(Nat) /\ Line(q, r, t, h, F)
<1> DEFINE r == SubSeq(b, n + 1, Len(b))
<1>1. /\ r \in Seq(Nat) /\ Len(r) = Len(b) - n
      /\ \A i \in 1 .. Len(r) : r[i] = b[i + n]
  BY SubSeqProperties
<1> HIDE DEF r
<1>2. \A i \in 1 .. Len(r) : i + n \in 1 .. Len(b) /\ r[i] = b[i + n] BY <1>1
<1>3. \A i \in 1 .. Len(r) : \E j \in 1 .. Len(b) : r[i] = b[j] BY <1>2
<1>4. \A i, j \in 1 .. Len(r) : i <= j => r[i] <= r[j]
  <2> SUFFICES ASSUME NEW i \in 1 .. Len(r), NEW j \in 1 .. Len(r), i <= j PROVE r[i] <= r[j]
    OBVIOUS
  <2>1. i + n <= j + n /\ i + n \in 1 .. Len(b) /\ j + n \in 1 .. Len(b) BY <1>1
  <2>2. b[i + n] <= b[j + n] BY <2>1 DEF Line
  <2>3. QED BY <1>2, <2>2
<1>5. \A i \in 1 .. Len(r) :
        /\ r[i] \in F /\ h <= r[i]
        /\ \A j \in 1 .. Len(q) : r[i] < q[j]
        /\ \A d \in 1 .. Len(t) : \A j \in 1 .. Len(t[d]) : t[d][j] <= r[i]
  BY <1>3 DEF Line
<1>6. Line(q, r, t, h, F) BY <1>4, <1>5 DEF Line
<1>7. QED BY <1>1, <1>6 DEF r

(* A piece between the track and the buffer joins the track. *)
LEMMA LineTrack ==
  ASSUME NEW F \in SUBSET Nat, NEW q \in Seq(Nat), NEW b \in Seq(Nat), NEW t \in Seq(Seq(Nat)),
         NEW h \in Nat, NEW x \in Seq(Nat), Line(q, b, t, h, F),
         \A i \in 1 .. Len(x) :
           /\ x[i] \in F /\ h <= x[i]
           /\ \A j \in 1 .. Len(b) : x[i] <= b[j]
           /\ \A j \in 1 .. Len(q) : x[i] < q[j]
           /\ \A d \in 1 .. Len(t) : \A j \in 1 .. Len(t[d]) : t[d][j] <= x[i]
  PROVE  Line(q, b, PutDroppingOldest(t, x), h, F)
<1> DEFINE p == PutDroppingOldest(t, x)
           lost == IF Len(t) < MaxQueue THEN 0 ELSE 1
<1> HIDE DEF p
<1>1. /\ p \in Seq(Seq(Nat)) /\ Len(p) = Len(t) + 1 - lost /\ p[Len(p)] = x /\ Len(t) >= lost
      /\ \A i \in 1 .. Len(t) - lost : p[i] = t[i + lost]
  BY PutProperties DEF p
<1>2. lost \in Nat /\ Len(t) \in Nat OBVIOUS
<1> HIDE DEF lost
<1>3. \A d \in 1 .. Len(p) : \/ d = Len(p) /\ p[d] = x
                             \/ d + lost \in 1 .. Len(t) /\ p[d] = t[d + lost] /\ d < Len(p)
  <2> SUFFICES ASSUME NEW d \in 1 .. Len(p), d # Len(p)
               PROVE  d + lost \in 1 .. Len(t) /\ p[d] = t[d + lost]
    BY <1>1, <1>2
  <2>1. d \in 1 .. Len(t) - lost BY <1>1, <1>2
  <2>2. QED BY <1>1, <1>2, <2>1
<1>4. ASSUME NEW d \in 1 .. Len(p), NEW i \in 1 .. Len(p[d])
      PROVE  /\ p[d][i] \in F /\ h <= p[d][i]
             /\ \A j \in 1 .. Len(b) : p[d][i] <= b[j]
             /\ \A j \in 1 .. Len(q) : p[d][i] < q[j]
             /\ \A e \in d + 1 .. Len(p) : \A j \in 1 .. Len(p[e]) : p[d][i] <= p[e][j]
  <2>1. CASE d = Len(p) /\ p[d] = x BY <1>1, <2>1
  <2>2. CASE d + lost \in 1 .. Len(t) /\ p[d] = t[d + lost] /\ d < Len(p)
    <3>1. /\ p[d][i] \in F /\ h <= p[d][i]
          /\ \A j \in 1 .. Len(b) : p[d][i] <= b[j]
          /\ \A j \in 1 .. Len(q) : p[d][i] < q[j]
      BY <2>2 DEF Line
    <3>2. ASSUME NEW e \in d + 1 .. Len(p), NEW j \in 1 .. Len(p[e]) PROVE p[d][i] <= p[e][j]
      <4>0. e \in 1 .. Len(p) BY <1>1, <1>2
      <4>1. CASE p[e] = x BY <2>2, <4>1
      <4>2. CASE e + lost \in 1 .. Len(t) /\ p[e] = t[e + lost]
        <5>1. e + lost \in (d + lost) + 1 .. Len(t) BY <1>2, <4>2
        <5>2. QED BY <2>2, <4>2, <5>1 DEF Line
      <4>3. QED BY <1>3, <4>0, <4>1, <4>2
    <3>3. QED BY <3>1, <3>2
  <2>3. QED BY <1>3, <2>1, <2>2
<1>5. QED BY <1>4 DEF Line, p

(* The peer connection takes the track's head (connection.py:256-265). *)
LEMMA LinePeer ==
  ASSUME NEW F \in SUBSET Nat, NEW q \in Seq(Nat), NEW b \in Seq(Nat), NEW t \in Seq(Seq(Nat)),
         NEW h \in Nat, NEW g \in Nat, Line(q, b, t, h, F), t # <<>>,
         \/ g = h
         \/ \E i \in 1 .. Len(Head(t)) : g = Head(t)[i]
  PROVE  Line(q, b, Tail(t), g, F)
<1> DEFINE r == Tail(t)
<1>1. /\ r \in Seq(Seq(Nat)) /\ Len(r) = Len(t) - 1 /\ Len(t) \in Nat \ {0}
      /\ \A i \in 1 .. Len(r) : r[i] = t[i + 1]
  BY HeadTailProperties, LenProperties, EmptySeq
<1> HIDE DEF r
<1>2. Head(t) = t[1] BY <1>1
<1>3. \A d \in 1 .. Len(r) : d + 1 \in 2 .. Len(t) /\ r[d] = t[d + 1] BY <1>1
<1>4. /\ \A j \in 1 .. Len(q) : g < q[j]
      /\ \A i \in 1 .. Len(b) : g <= b[i]
      /\ \A d \in 2 .. Len(t) : \A i \in 1 .. Len(t[d]) : g <= t[d][i]
  <2>1. CASE g = h
    <3>1. \A d \in 2 .. Len(t) : d \in 1 .. Len(t) BY <1>1
    <3>2. QED BY <2>1, <3>1 DEF Line
  <2>2. CASE \E i \in 1 .. Len(t[1]) : g = t[1][i]
    <3>1. PICK i \in 1 .. Len(t[1]) : g = t[1][i] BY <2>2
    <3>2. 1 \in 1 .. Len(t) BY <1>1
    <3>3. \A e \in 1 + 1 .. Len(t) : \A j \in 1 .. Len(t[e]) : t[1][i] <= t[e][j]
      BY <3>2 DEF Line
    <3>4. \A j \in 1 .. Len(q) : t[1][i] < q[j] BY <3>2 DEF Line
    <3>5. \A j \in 1 .. Len(b) : t[1][i] <= b[j] BY <3>2 DEF Line
    <3>6. QED BY <3>1, <3>3, <3>4, <3>5
  <2>3. QED BY <1>2, <2>1, <2>2
<1>5. ASSUME NEW d \in 1 .. Len(r), NEW i \in 1 .. Len(r[d])
      PROVE  /\ r[d][i] \in F /\ g <= r[d][i]
             /\ \A j \in 1 .. Len(b) : r[d][i] <= b[j]
             /\ \A j \in 1 .. Len(q) : r[d][i] < q[j]
             /\ \A e \in d + 1 .. Len(r) : \A j \in 1 .. Len(r[e]) : r[d][i] <= r[e][j]
  <2>1. d + 1 \in 1 .. Len(t) /\ d + 1 \in 2 .. Len(t) /\ r[d] = t[d + 1] BY <1>1, <1>3
  <2>2. g <= r[d][i] BY <1>4, <2>1
  <2>3. /\ r[d][i] \in F
        /\ \A j \in 1 .. Len(b) : r[d][i] <= b[j]
        /\ \A j \in 1 .. Len(q) : r[d][i] < q[j]
    BY <2>1 DEF Line
  <2>4. ASSUME NEW e \in d + 1 .. Len(r), NEW j \in 1 .. Len(r[e]) PROVE r[d][i] <= r[e][j]
    <3>1. e + 1 \in (d + 1) + 1 .. Len(t) /\ r[e] = t[e + 1] BY <1>1
    <3>2. QED BY <2>1, <3>1 DEF Line
  <2>5. QED BY <2>2, <2>3, <2>4
<1>6. QED BY <1>4, <1>5 DEF Line, r

-----------------------------------------------------------------------------
(* The inductive invariant                                                 *)

\* The frames of m that are addressed to c.
AddressedTo(m, c) == {f \in 1 .. Len(m) : c \in m[f].to}

(* What holds of the queue q, buffer b and track t of connection c, whose peer
   has heard frame h, when frames k came and frames m were made. *)
InPlace(c, q, b, t, h, k, m) ==
  /\ q \in Seq(Nat) /\ b \in Seq(Nat) /\ t \in Seq(Seq(Nat))
  /\ h \in 0 .. Len(m) /\ k \subseteq 1 .. Len(m)
  /\ Kept(q, k)
  /\ Line(q, b, t, h, AddressedTo(m, c))

Frames == [from : Conn, kind : {"mic", "answer"}, to : SUBSET Conn, len : Lengths]

OthersTyped ==
  /\ attached \subseteq Conn /\ learned \subseteq Conn
  /\ Len(made) <= MaxFrames
  /\ made \in Seq(Frames)
  /\ cut \in [Conn -> 0 .. MaxFrames]

AudioInv ==
  /\ OthersTyped
  /\ outputQueue = [c \in Conn |-> outputQueue[c]]
  /\ buffer = [c \in Conn |-> buffer[c]]
  /\ track = [c \in Conn |-> track[c]]
  /\ heard = [c \in Conn |-> heard[c]]
  /\ came = [c \in Conn |-> came[c]]
  /\ \A c \in Conn : InPlace(c, outputQueue[c], buffer[c], track[c], heard[c], came[c], made)

LEMMA Retyped ==
  ASSUME NEW T, NEW S, NEW s \in Seq(T), \A i \in 1 .. Len(s) : s[i] \in S
  PROVE  s \in Seq(S)
  BY SeqDef, LenProperties

LEMMA SoundTypes == AudioInv => TypeOK
<1> SUFFICES ASSUME AudioInv PROVE TypeOK
  OBVIOUS
<1> USE DEF AudioInv, OthersTyped
<1>1. ASSUME NEW c \in Conn
      PROVE  /\ outputQueue[c] \in Seq(FrameIds) /\ buffer[c] \in Seq(FrameIds)
             /\ track[c] \in Seq(Seq(FrameIds))
             /\ heard[c] \in 0 .. MaxFrames /\ came[c] \in SUBSET FrameIds
  <2>1. InPlace(c, outputQueue[c], buffer[c], track[c], heard[c], came[c], made)
    OBVIOUS
  <2>2. 1 .. Len(made) \subseteq FrameIds /\ 0 .. Len(made) \subseteq 0 .. MaxFrames
    BY LenProperties, AudioAssumption, QueueAssumption DEF FrameIds
  <2>3. AddressedTo(made, c) \subseteq FrameIds BY <2>2 DEF AddressedTo
  <2>4. outputQueue[c] \in Seq(FrameIds) BY <2>1, <2>3, Retyped DEF InPlace, Line
  <2>5. buffer[c] \in Seq(FrameIds) BY <2>1, <2>3, Retyped DEF InPlace, Line
  <2>6. track[c] \in Seq(Seq(FrameIds))
    <3>1. \A d \in 1 .. Len(track[c]) : track[c][d] \in Seq(Nat) BY <2>1 DEF InPlace
    <3>2. \A d \in 1 .. Len(track[c]) : track[c][d] \in Seq(FrameIds)
      BY <2>1, <2>3, <3>1, Retyped DEF InPlace, Line
    <3>3. track[c] \in Seq(Seq(Nat)) BY <2>1 DEF InPlace
    <3>4. QED BY <3>2, <3>3, Retyped
  <2>7. QED BY <2>1, <2>2, <2>4, <2>5, <2>6 DEF InPlace
<1>2. outputQueue \in [Conn -> Seq(FrameIds)] /\ buffer \in [Conn -> Seq(FrameIds)] BY <1>1
<1>3. track \in [Conn -> Seq(Seq(FrameIds))] BY <1>1
<1>4. heard \in [Conn -> 0 .. MaxFrames] /\ came \in [Conn -> SUBSET FrameIds] BY <1>1
<1>5. QED BY <1>2, <1>3, <1>4 DEF TypeOK, Frames

LEMMA SoundKeepsNewest == AudioInv => NewestKept
<1> SUFFICES ASSUME AudioInv PROVE NewestKept
  OBVIOUS
<1>1. ASSUME NEW c \in Conn
      PROVE  LET queued == ToSet(outputQueue[c]) IN
             /\ queued \subseteq came[c]
             /\ \A i, j \in DOMAIN outputQueue[c] : i < j => outputQueue[c][i] < outputQueue[c][j]
             /\ \A f \in came[c] \ queued :
                  Len(outputQueue[c]) = MaxQueue /\ \A g \in queued : f < g
  <2>1. outputQueue[c] \in Seq(Nat) /\ Kept(outputQueue[c], came[c]) BY DEF AudioInv, InPlace
  <2>2. DOMAIN outputQueue[c] = 1 .. Len(outputQueue[c]) BY <2>1
  <2>3. QED BY <2>1, <2>2 DEF Kept, ToSet
<1>2. QED BY <1>1, SoundTypes DEF NewestKept

-----------------------------------------------------------------------------
(* What the actions do to one connection                                   *)

LEMMA AddressedProperties ==
  ASSUME NEW m \in Seq(Frames), NEW r \in Frames, NEW c
  PROVE  /\ AddressedTo(m, c) \in SUBSET Nat
         /\ \A x \in AddressedTo(m, c) : x <= Len(m)
         /\ AddressedTo(m, c) \subseteq AddressedTo(Append(m, r), c)
         /\ c \in r.to => Len(m) + 1 \in AddressedTo(Append(m, r), c)
<1> DEFINE n == Append(m, r)
<1>1. /\ Len(n) = Len(m) + 1 /\ Len(m) \in Nat
      /\ n[Len(m) + 1] = r /\ \A i \in 1 .. Len(m) : n[i] = m[i]
  BY AppendProperties
<1> HIDE DEF n
<1>2. AddressedTo(m, c) \in SUBSET Nat BY DEF AddressedTo
<1>3. \A x \in AddressedTo(m, c) : x <= Len(m) BY DEF AddressedTo
<1>4. AddressedTo(m, c) \subseteq AddressedTo(n, c) BY <1>1 DEF AddressedTo
<1>5. c \in r.to => Len(m) + 1 \in AddressedTo(n, c) BY <1>1 DEF AddressedTo
<1>6. QED BY <1>2, <1>3, <1>4, <1>5 DEF n

(* The next frame is made; a connection it is queued at is one of those it is
   addressed to (connection.py:546-556, 711-737). *)
LEMMA FrameComes ==
  ASSUME NEW c, NEW q, NEW b, NEW t, NEW h, NEW k, NEW m \in Seq(Frames), NEW r \in Frames,
         InPlace(c, q, b, t, h, k, m)
  PROVE  LET f == Len(m) + 1
             n == Append(m, r)
         IN /\ InPlace(c, q, b, t, h, k, n)
            /\ c \in r.to => InPlace(c, PutDroppingOldest(q, f), b, t, h, k \union {f}, n)
<1> DEFINE f == Len(m) + 1
           n == Append(m, r)
           p == PutDroppingOldest(q, f)
           F == AddressedTo(m, c)
           G == AddressedTo(n, c)
<1>1. /\ q \in Seq(Nat) /\ b \in Seq(Nat) /\ t \in Seq(Seq(Nat))
      /\ h \in 0 .. Len(m) /\ k \subseteq 1 .. Len(m)
      /\ Kept(q, k) /\ Line(q, b, t, h, F)
  BY DEF InPlace
<1>2. Len(m) \in Nat /\ f \in Nat /\ Len(n) = f BY AppendProperties
<1>3. F \subseteq G /\ F \in SUBSET Nat /\ \A x \in F : x <= Len(m)
  BY AddressedProperties
<1>4. c \in r.to => f \in G BY AddressedProperties
<1>5. G \in SUBSET Nat BY DEF AddressedTo
<1>6. k \in SUBSET Nat /\ \A x \in k : x < f BY <1>1, <1>2
<1>7. h \in Nat /\ h < f /\ \A x \in F : x < f BY <1>1, <1>2, <1>3
<1> HIDE DEF n, F, G, f
<1>8. Line(q, b, t, h, G)
  <2>1. \A j \in 1 .. Len(q) : \E i \in 1 .. Len(q) : q[j] = q[i] OBVIOUS
  <2>2. QED BY <1>1, <1>2, <1>3, <1>5, <1>7, <2>1, LineQueue
<1>9. h \in 0 .. Len(n) /\ k \subseteq 1 .. Len(n) BY <1>1, <1>2 DEF f
<1>10. InPlace(c, q, b, t, h, k, n) BY <1>1, <1>8, <1>9 DEF InPlace, G
<1>11. ASSUME c \in r.to PROVE InPlace(c, p, b, t, h, k \union {f}, n)
  <2>1. p \in Seq(Nat) /\ Kept(p, k \union {f}) BY <1>1, <1>2, <1>6, KeptPut, PutProperties
  <2>2. \A j \in 1 .. Len(p) : \/ \E i \in 1 .. Len(q) : p[j] = q[i]
                               \/ p[j] = f
    <3> DEFINE lost == IF Len(q) < MaxQueue THEN 0 ELSE 1
    <3>1. /\ Len(p) = Len(q) + 1 - lost /\ p[Len(p)] = f
          /\ \A i \in 1 .. Len(q) - lost : p[i] = q[i + lost]
      BY <1>1, <1>2, PutProperties
    <3> HIDE DEF p
    <3> SUFFICES ASSUME NEW j \in 1 .. Len(p), j # Len(p)
                 PROVE  j + lost \in 1 .. Len(q) /\ p[j] = q[j + lost]
      BY <3>1
    <3>2. Len(q) \in Nat BY <1>1
    <3>3. j \in 1 .. Len(q) - lost BY <3>1, <3>2
    <3>4. QED BY <3>1, <3>2, <3>3
  <2> HIDE DEF p
  <2>3. Line(p, b, t, h, G)
    BY <1>1, <1>2, <1>3, <1>4, <1>5, <1>7, <1>11, <2>1, <2>2, LineQueue
  <2>4. f \in 1 .. Len(n) BY <1>2 DEF f
  <2>5. k \union {f} \subseteq 1 .. Len(n) BY <1>9, <2>4
  <2>6. QED BY <1>1, <1>9, <2>1, <2>3, <2>5 DEF InPlace, G
<1>12. QED BY <1>10, <1>11 DEF f, n

(* The loop takes a frame into the buffer. *)
LEMMA FrameTaken ==
  ASSUME NEW c, NEW q, NEW b, NEW t, NEW h, NEW k, NEW m \in Seq(Frames), NEW l \in Nat,
         InPlace(c, q, b, t, h, k, m), q # <<>>
  PROVE  InPlace(c, Tail(q), b \o [i \in 1 .. l |-> Head(q)], t, h,
                 {f \in k : f > Head(q)}, m)
<1> DEFINE F == AddressedTo(m, c)
           u == b \o [i \in 1 .. l |-> Head(q)]
<1>1. /\ q \in Seq(Nat) /\ b \in Seq(Nat) /\ t \in Seq(Seq(Nat))
      /\ h \in 0 .. Len(m) /\ k \subseteq 1 .. Len(m)
      /\ Kept(q, k) /\ Line(q, b, t, h, F)
  BY DEF InPlace
<1>2. F \in SUBSET Nat BY DEF AddressedTo
<1>3. h \in Nat /\ k \in SUBSET Nat BY <1>1
<1> HIDE DEF F
<1>4. \A i, j \in 1 .. Len(q) : i < j => q[i] < q[j] BY <1>1 DEF Kept
<1>5. u \in Seq(Nat) /\ Line(Tail(q), u, t, h, F) BY <1>1, <1>2, <1>3, <1>4, LineTake
<1>6. Tail(q) \in Seq(Nat) BY <1>1, HeadTailProperties
<1> HIDE DEF u
<1>7. Kept(Tail(q), {f \in k : f > Head(q)}) BY <1>1, <1>3, KeptTake
<1>8. {f \in k : f > Head(q)} \subseteq 1 .. Len(m) BY <1>1
<1>9. InPlace(c, Tail(q), u, t, h, {f \in k : f > Head(q)}, m)
  BY <1>1, <1>5, <1>6, <1>7, <1>8 DEF InPlace, F
<1>10. QED BY <1>9 DEF u

(* It cuts a piece off the buffer, for the track where there is one. *)
LEMMA PieceCut ==
  ASSUME NEW c, NEW q, NEW b, NEW t, NEW h, NEW k, NEW m \in Seq(Frames),
         InPlace(c, q, b, t, h, k, m), Len(b) >= Piece
  PROVE  LET r == SubSeq(b, Piece + 1, Len(b))
         IN /\ InPlace(c, q, r, t, h, k, m)
            /\ InPlace(c, q, r, PutDroppingOldest(t, SubSeq(b, 1, Piece)), h, k, m)
<1> DEFINE F == AddressedTo(m, c)
           r == SubSeq(b, Piece + 1, Len(b))
           x == SubSeq(b, 1, Piece)
<1>1. /\ q \in Seq(Nat) /\ b \in Seq(Nat) /\ t \in Seq(Seq(Nat))
      /\ h \in 0 .. Len(m) /\ Kept(q, k) /\ Line(q, b, t, h, F)
  BY DEF InPlace
<1>2. F \in SUBSET Nat BY DEF AddressedTo
<1>3. h \in Nat /\ Piece \in Nat BY <1>1, AudioAssumption, QueueAssumption
<1> HIDE DEF F
<1>4. r \in Seq(Nat) /\ Line(q, r, t, h, F) BY <1>1, <1>2, <1>3, LineBuffer
<1>5. \A i \in 1 .. Len(r) : r[i] = b[Piece + i] /\ Piece + i \in 1 .. Len(b)
  <2>1. Len(b) \in Nat /\ Piece + 1 \in Int /\ \A i \in Piece + 1 .. Len(b) : b[i] \in Nat
    BY <1>1, <1>3
  <2>2. /\ Len(r) = IF Piece + 1 <= Len(b) THEN Len(b) - (Piece + 1) + 1 ELSE 0
        /\ \A i \in 1 .. Len(b) - (Piece + 1) + 1 : r[i] = b[(Piece + 1) + i - 1]
    BY <2>1, SubSeqProperties
  <2> HIDE DEF r
  <2>3. QED BY <1>3, <2>1, <2>2
<1>6. x \in Seq(Nat) /\ \A i \in 1 .. Len(x) : x[i] = b[i] /\ i \in 1 .. Piece /\ i \in 1 .. Len(b)
  <2>1. Len(b) \in Nat /\ \A i \in 1 .. Piece : b[i] \in Nat
    BY <1>1, <1>3
  <2>2. /\ x \in Seq(Nat) /\ Len(x) = IF 1 <= Piece THEN Piece - 1 + 1 ELSE 0
        /\ \A i \in 1 .. Piece - 1 + 1 : x[i] = b[1 + i - 1]
    BY <1>3, <2>1, SubSeqProperties
  <2> HIDE DEF x
  <2>3. QED BY <1>3, <2>1, <2>2
<1> HIDE DEF r, x
<1>7. ASSUME NEW i \in 1 .. Len(x)
      PROVE  /\ x[i] \in F /\ h <= x[i]
             /\ \A j \in 1 .. Len(r) : x[i] <= r[j]
             /\ \A j \in 1 .. Len(q) : x[i] < q[j]
             /\ \A d \in 1 .. Len(t) : \A j \in 1 .. Len(t[d]) : t[d][j] <= x[i]
  <2>1. x[i] = b[i] /\ i \in 1 .. Piece /\ i \in 1 .. Len(b) BY <1>6
  <2>2. ASSUME NEW j \in 1 .. Len(r) PROVE x[i] <= r[j]
    <3>1. r[j] = b[Piece + j] /\ Piece + j \in 1 .. Len(b) BY <1>5
    <3>2. i <= Piece + j BY <1>3, <1>4, <2>1
    <3>3. b[i] <= b[Piece + j] BY <1>1, <2>1, <3>1, <3>2 DEF Line
    <3>4. QED BY <2>1, <3>1, <3>3
  <2>3. QED BY <1>1, <2>1, <2>2 DEF Line
<1>8. Line(q, r, PutDroppingOldest(t, x), h, F) BY <1>1, <1>2, <1>3, <1>4, <1>6, <1>7, LineTrack
<1>9. PutDroppingOldest(t, x) \in Seq(Seq(Nat)) BY <1>1, <1>6, PutProperties
<1>10. InPlace(c, q, r, t, h, k, m) BY <1>1, <1>4 DEF InPlace, F
<1>11. InPlace(c, q, r, PutDroppingOldest(t, x), h, k, m) BY <1>1, <1>4, <1>8, <1>9, <1>10 DEF InPlace, F
<1>12. QED BY <1>10, <1>11 DEF r, x

(* Silence is put in the track, a piece is taken from it, both queues are
   emptied (connection.py:697-706, 936-940). *)
LEMMA TrackChanges ==
  ASSUME NEW c, NEW q, NEW b, NEW t, NEW h, NEW k, NEW m \in Seq(Frames),
         InPlace(c, q, b, t, h, k, m)
  PROVE  /\ InPlace(c, q, b, PutDroppingOldest(t, <<>>), h, k, m)
         /\ t # <<>> =>
              InPlace(c, q, b, Tail(t), IF Head(t) = <<>> THEN h ELSE Last(Head(t)), k, m)
         /\ InPlace(c, <<>>, b, <<>>, h, {}, m)
<1> DEFINE F == AddressedTo(m, c)
<1>1. /\ q \in Seq(Nat) /\ b \in Seq(Nat) /\ t \in Seq(Seq(Nat))
      /\ h \in 0 .. Len(m) /\ k \subseteq 1 .. Len(m) /\ Kept(q, k) /\ Line(q, b, t, h, F)
  BY DEF InPlace
<1>2. F \in SUBSET Nat /\ F \subseteq 1 .. Len(m) BY DEF AddressedTo
<1>3. h \in Nat BY <1>1
<1> HIDE DEF F
<1>4. InPlace(c, q, b, PutDroppingOldest(t, <<>>), h, k, m)
  <2> DEFINE x == <<>>
  <2>1. x \in Seq(Nat) /\ 1 .. Len(x) = {} OBVIOUS
  <2> HIDE DEF x
  <2>2. Line(q, b, PutDroppingOldest(t, x), h, F) BY <1>1, <1>2, <1>3, <2>1, LineTrack
  <2>3. PutDroppingOldest(t, x) \in Seq(Seq(Nat)) BY <1>1, <2>1, PutProperties
  <2>4. QED BY <1>1, <2>2, <2>3 DEF InPlace, F, x
<1>5. ASSUME t # <<>>
      PROVE  InPlace(c, q, b, Tail(t), IF Head(t) = <<>> THEN h ELSE Last(Head(t)), k, m)
  <2> DEFINE x == Head(t)
             g == IF x = <<>> THEN h ELSE Last(x)
  <2>1. x \in Seq(Nat) /\ x = t[1] /\ 1 \in 1 .. Len(t) /\ Tail(t) \in Seq(Seq(Nat))
    BY <1>1, <1>5, HeadTailProperties, EmptySeq
  <2> HIDE DEF x
  <2>2. x # <<>> => /\ Len(x) \in 1 .. Len(x) /\ Last(x) = x[Len(x)]
                    /\ x[Len(x)] \in F
    <3>1. x # <<>> => Len(x) \in Nat \ {0} BY <2>1, EmptySeq
    <3>2. \A i \in 1 .. Len(x) : x[i] \in F BY <1>1, <2>1 DEF Line
    <3>3. QED BY <3>1, <3>2 DEF Last
  <2>3. g \in 0 .. Len(m) /\ g \in Nat
    <3>1. CASE x = <<>> BY <1>1, <1>3, <3>1
    <3>2. CASE x # <<>>
      <4>1. g \in F BY <2>2, <3>2
      <4>2. g \in 1 .. Len(m) BY <1>2, <4>1
      <4>3. QED BY <4>2
    <3>3. QED BY <3>1, <3>2
  <2>4. \/ g = h
        \/ \E i \in 1 .. Len(x) : g = x[i]
    BY <2>2
  <2> HIDE DEF g
  <2>5. Line(q, b, Tail(t), g, F) BY <1>1, <1>2, <1>3, <1>5, <2>3, <2>4, LinePeer DEF x
  <2>6. InPlace(c, q, b, Tail(t), g, k, m) BY <1>1, <2>1, <2>3, <2>5 DEF InPlace, F
  <2>7. QED BY <2>6 DEF g, x
<1>6. InPlace(c, <<>>, b, <<>>, h, {}, m)
  <2>1. Line(<<>>, b, <<>>, h, F) BY <1>1 DEF Line
  <2>2. Kept(<<>>, {}) BY AudioAssumption, QueueAssumption DEF Kept
  <2>3. QED BY <1>1, <2>1, <2>2 DEF InPlace, F
<1>7. QED BY <1>4, <1>5, <1>6

-----------------------------------------------------------------------------
(* The steps                                                               *)

(* A frame is made and queued at those it is addressed to. *)
LEMMA MadeStep ==
  ASSUME AudioInv, NEW r \in Frames, NEW to \in SUBSET Conn, NEW own \in SUBSET Conn,
         to \union own = r.to, Len(made) < MaxFrames,
         made' = Append(made, r), Queued(Len(made) + 1, to, own),
         UNCHANGED <<attached, buffer, learned, track, heard, cut>>
  PROVE  AudioInv'
<1> USE DEF AudioInv
<1>1. made \in Seq(Frames) BY DEF OthersTyped
<1>2. made' \in Seq(Frames) /\ Len(made') = Len(made) + 1 /\ Len(made) \in Nat
  BY <1>1, AppendProperties
<1>3. OthersTyped' BY <1>2, AudioAssumption, QueueAssumption DEF OthersTyped
<1>4. ASSUME NEW c \in Conn
      PROVE  InPlace(c, outputQueue'[c], buffer'[c], track'[c], heard'[c], came'[c], made')
  <2>1. InPlace(c, outputQueue[c], buffer[c], track[c], heard[c], came[c], made)
    OBVIOUS
  <2>2. CASE c \in to \union own
    <3>1. outputQueue'[c] = PutDroppingOldest(outputQueue[c], Len(made) + 1)
      BY <2>2 DEF Queued
    <3>2. came'[c] = came[c] \union {Len(made) + 1} BY <2>2 DEF Queued
    <3>3. c \in r.to BY <2>2
    <3>4. InPlace(c, PutDroppingOldest(outputQueue[c], Len(made) + 1), buffer[c], track[c],
                  heard[c], came[c] \union {Len(made) + 1}, made')
      BY <1>1, <2>1, <3>3, FrameComes
    <3>5. QED BY <3>1, <3>2, <3>4
  <2>3. CASE c \notin to \union own
    <3>1. outputQueue'[c] = outputQueue[c] /\ came'[c] = came[c] BY <2>3 DEF Queued
    <3>2. QED BY <1>1, <2>1, <3>1, FrameComes
  <2>4. QED BY <2>2, <2>3
<1>5. outputQueue' = [c \in Conn |-> outputQueue'[c]] /\ came' = [c \in Conn |-> came'[c]]
  BY DEF Queued
<1>6. QED BY <1>3, <1>4, <1>5

LEMMA ListenersAreMembers ==
  ASSUME AudioInv, NEW c \in Conn
  PROVE  Listeners(c) \in SUBSET Conn /\ c \notin Listeners(c)
  BY DEF AudioInv, OthersTyped, Listeners

LEMMA MicrophoneStep ==
  ASSUME AudioInv, NEW c \in Conn, NEW len \in Lengths, Microphone(c, len)
  PROVE  AudioInv'
<1> DEFINE r == [from |-> c, kind |-> "mic", to |-> Listeners(c), len |-> len]
<1>1. Listeners(c) \in SUBSET Conn BY ListenersAreMembers
<1>2. r \in Frames /\ Listeners(c) \union {} = r.to BY <1>1 DEF Frames
<1>3. Len(made) < MaxFrames /\ made' = Append(made, r) BY DEF Microphone, Makes
<1> HIDE DEF r
<1>4. QED BY <1>1, <1>2, <1>3, MadeStep DEF Microphone

LEMMA AnswerStep ==
  ASSUME AudioInv, NEW c \in Conn, NEW len \in Lengths, Answer(c, len)
  PROVE  AudioInv'
<1> DEFINE r == [from |-> c, kind |-> "answer", to |-> Listeners(c) \union {c}, len |-> len]
<1>1. Listeners(c) \in SUBSET Conn BY ListenersAreMembers
<1>2. r \in Frames /\ Listeners(c) \union {c} = r.to BY <1>1 DEF Frames
<1>3. Len(made) < MaxFrames /\ made' = Append(made, r) BY DEF Answer, Makes
<1> HIDE DEF r
<1>4. QED BY <1>1, <1>2, <1>3, MadeStep DEF Answer

(* A step that only moves the frames of connection c. *)
LEMMA MovedStep ==
  ASSUME AudioInv, NEW c \in Conn, NEW q, NEW b, NEW t, NEW h, NEW k,
         InPlace(c, q, b, t, h, k, made),
         outputQueue' = [outputQueue EXCEPT ![c] = q], buffer' = [buffer EXCEPT ![c] = b],
         track' = [track EXCEPT ![c] = t], heard' = [heard EXCEPT ![c] = h],
         came' = [came EXCEPT ![c] = k], UNCHANGED <<attached, made>>,
         learned' \subseteq Conn, cut' \in [Conn -> 0 .. MaxFrames]
  PROVE  AudioInv'
<1> USE DEF AudioInv
<1>1. OthersTyped' BY DEF OthersTyped
<1>2. /\ outputQueue' = [d \in Conn |-> outputQueue'[d]]
      /\ buffer' = [d \in Conn |-> buffer'[d]]
      /\ track' = [d \in Conn |-> track'[d]]
      /\ heard' = [d \in Conn |-> heard'[d]]
      /\ came' = [d \in Conn |-> came'[d]]
  OBVIOUS
<1>3. ASSUME NEW d \in Conn
      PROVE  InPlace(d, outputQueue'[d], buffer'[d], track'[d], heard'[d], came'[d], made')
  <2>1. CASE d = c
    <3>1. outputQueue'[c] = q /\ buffer'[c] = b /\ track'[c] = t /\ heard'[c] = h /\ came'[c] = k
      OBVIOUS
    <3>2. QED BY <2>1, <3>1
  <2>2. CASE d # c
    <3>1. /\ outputQueue'[d] = outputQueue[d] /\ buffer'[d] = buffer[d] /\ track'[d] = track[d]
          /\ heard'[d] = heard[d] /\ came'[d] = came[d]
      BY <2>2
    <3>2. QED BY <3>1
  <2>3. QED BY <2>1, <2>2
<1>4. QED BY <1>1, <1>2, <1>3

LEMMA SendPieceStep ==
  ASSUME AudioInv, NEW c \in Conn, SendPiece(c)
  PROVE  AudioInv'
<1> DEFINE q == outputQueue[c]
           taken == IF Refills(c) THEN <<Head(outputQueue[c])>> ELSE <<>>
           r == IF taken = <<>> THEN q ELSE Tail(q)
           k == IF taken = <<>> THEN came[c] ELSE {f \in came[c] : f > taken[1]}
           units == IF taken = <<>> THEN buffer[c]
                    ELSE buffer[c] \o [i \in 1 .. made[taken[1]].len |-> taken[1]]
           whole == Len(units) >= Piece
           b == IF whole THEN SubSeq(units, Piece + 1, Len(units)) ELSE units
           x == IF whole THEN SubSeq(units, 1, Piece) ELSE <<>>
           t == IF c \in Sending \ Avatar THEN PutDroppingOldest(track[c], x) ELSE track[c]
<1>1. made \in Seq(Frames) /\ learned \subseteq Conn /\ cut \in [Conn -> 0 .. MaxFrames]
  BY DEF AudioInv, OthersTyped
<1>2. InPlace(c, q, buffer[c], track[c], heard[c], came[c], made) BY DEF AudioInv
<1>3. InPlace(c, r, units, track[c], heard[c], k, made)
  <2>1. CASE Refills(c)
    <3> DEFINE g == Head(q)
    <3>1. q # <<>> /\ taken = <<g>> /\ taken # <<>> /\ taken[1] = g BY <2>1 DEF Refills
    <3>2. g \in 1 .. Len(made)
      <4>1. g = q[1] /\ 1 \in 1 .. Len(q)
        BY <1>2, <3>1, HeadTailProperties, EmptySeq DEF InPlace
      <4>2. QED BY <1>2, <4>1 DEF InPlace, Line, AddressedTo
    <3>3. made[g].len \in Nat
      <4>1. made[g] \in Frames BY <1>1, <3>2, ElementOfSeq
      <4>2. QED BY <4>1, AudioAssumption, QueueAssumption DEF Frames
    <3>4. InPlace(c, Tail(q), buffer[c] \o [i \in 1 .. made[g].len |-> g],
                  track[c], heard[c], {f \in came[c] : f > g}, made)
      BY <1>1, <1>2, <3>1, <3>3, FrameTaken
    <3>5. r = Tail(q) /\ k = {f \in came[c] : f > g} BY <3>1
    <3>6. units = buffer[c] \o [i \in 1 .. made[g].len |-> g] BY <3>1
    <3>7. QED BY <3>4, <3>5, <3>6
  <2>2. CASE ~Refills(c)
    <3>1. taken = <<>> BY <2>2
    <3>2. r = q /\ units = buffer[c] /\ k = came[c] BY <3>1
    <3>3. QED BY <1>2, <3>2
  <2>3. QED BY <2>1, <2>2
<1>4. /\ learned' = learned \union {c}
      /\ outputQueue' = [outputQueue EXCEPT ![c] = r]
      /\ came' = [came EXCEPT ![c] = k]
      /\ buffer' = [buffer EXCEPT ![c] = b]
      /\ UNCHANGED <<attached, made, heard, cut>>
  BY DEF SendPiece
<1>5. track' = [track EXCEPT ![c] = t]
  <2>1. CASE c \in Sending \ Avatar BY <2>1 DEF SendPiece
  <2>2. CASE c \notin Sending \ Avatar BY <2>2 DEF SendPiece, AudioInv
  <2>3. QED BY <2>1, <2>2
<1>6. heard' = [heard EXCEPT ![c] = heard[c]] BY <1>4 DEF AudioInv
<1> HIDE DEF r, k, units
<1>7. InPlace(c, r, b, t, heard[c], k, made)
  <2>1. CASE whole
    <3>1. /\ InPlace(c, r, b, track[c], heard[c], k, made)
          /\ InPlace(c, r, b, PutDroppingOldest(track[c], x), heard[c], k, made)
      BY <1>1, <1>3, <2>1, PieceCut
    <3>2. QED BY <3>1
  <2>2. CASE ~whole
    <3>1. InPlace(c, r, units, PutDroppingOldest(track[c], <<>>), heard[c], k, made)
      BY <1>1, <1>3, TrackChanges
    <3>2. b = units /\ x = <<>> BY <2>2
    <3>3. QED BY <1>3, <3>1, <3>2
  <2>3. QED BY <2>1, <2>2
<1> HIDE DEF b, t
<1>8. learned' \subseteq Conn /\ cut' \in [Conn -> 0 .. MaxFrames] BY <1>1, <1>4
<1>9. QED BY <1>4, <1>5, <1>6, <1>7, <1>8, MovedStep

LEMMA PeerTakesStep ==
  ASSUME AudioInv, NEW c \in Conn, PeerTakes(c)
  PROVE  AudioInv'
<1> DEFINE h == IF Head(track[c]) = <<>> THEN heard[c] ELSE Last(Head(track[c]))
<1>1. made \in Seq(Frames) /\ learned \subseteq Conn /\ cut \in [Conn -> 0 .. MaxFrames]
  BY DEF AudioInv, OthersTyped
<1>2. InPlace(c, outputQueue[c], buffer[c], Tail(track[c]), h, came[c], made)
  BY <1>1, TrackChanges DEF AudioInv, PeerTakes
<1>3. /\ outputQueue' = [outputQueue EXCEPT ![c] = outputQueue[c]]
      /\ buffer' = [buffer EXCEPT ![c] = buffer[c]]
      /\ came' = [came EXCEPT ![c] = came[c]]
  BY DEF AudioInv, PeerTakes
<1>4. heard' = [heard EXCEPT ![c] = h]
  <2>1. CASE Head(track[c]) = <<>> BY <2>1 DEF AudioInv, PeerTakes
  <2>2. CASE Head(track[c]) # <<>> BY <2>2 DEF PeerTakes
  <2>3. QED BY <2>1, <2>2
<1>5. track' = [track EXCEPT ![c] = Tail(track[c])] /\ UNCHANGED <<attached, made, learned, cut>>
  BY DEF PeerTakes
<1> HIDE DEF h
<1>6. QED BY <1>1, <1>2, <1>3, <1>4, <1>5, MovedStep

LEMMA InterruptedStep ==
  ASSUME AudioInv, NEW c \in Conn, Interrupted(c)
  PROVE  AudioInv'
<1>1. made \in Seq(Frames) /\ learned \subseteq Conn /\ cut \in [Conn -> 0 .. MaxFrames]
  BY DEF AudioInv, OthersTyped
<1>2. InPlace(c, <<>>, buffer[c], <<>>, heard[c], {}, made)
  BY <1>1, TrackChanges DEF AudioInv
<1>3. cut' \in [Conn -> 0 .. MaxFrames]
  <2>1. Len(made) \in 0 .. MaxFrames BY LenProperties, AudioAssumption, QueueAssumption DEF AudioInv, OthersTyped
  <2>2. QED BY <1>1, <2>1 DEF Interrupted
<1>4. buffer' = [buffer EXCEPT ![c] = buffer[c]] /\ heard' = [heard EXCEPT ![c] = heard[c]]
  BY DEF AudioInv, Interrupted
<1>5. QED BY <1>1, <1>2, <1>3, <1>4, MovedStep DEF Interrupted

LEMMA AudioStep == AudioInv /\ [Next]_vars => AudioInv'
<1> SUFFICES ASSUME AudioInv, [Next]_vars PROVE AudioInv'
  OBVIOUS
<1>1. CASE UNCHANGED vars BY <1>1 DEF vars, AudioInv, OthersTyped
<1>2. ASSUME NEW c \in Conn, Leave(c) PROVE AudioInv'
  BY <1>2 DEF Leave, AudioInv, OthersTyped
<1>3. QED
  BY <1>1, <1>2, MicrophoneStep, AnswerStep, SendPieceStep, PeerTakesStep, InterruptedStep DEF Next

LEMMA AudioInitial == Init => AudioInv
<1> SUFFICES ASSUME Init PROVE AudioInv
  OBVIOUS
<1>1. OthersTyped BY AudioAssumption, QueueAssumption DEF Init, OthersTyped
<1>2. ASSUME NEW c \in Conn
      PROVE  InPlace(c, outputQueue[c], buffer[c], track[c], heard[c], came[c], made)
  <2>1. Line(<<>>, <<>>, <<>>, 0, AddressedTo(<<>>, c)) BY DEF Line
  <2>2. Kept(<<>>, {}) BY AudioAssumption, QueueAssumption DEF Kept
  <2>3. InPlace(c, <<>>, <<>>, <<>>, 0, {}, <<>>) BY <2>1, <2>2 DEF InPlace
  <2>4. QED BY <2>3 DEF Init
<1>3. QED BY <1>1, <1>2 DEF AudioInv, Init

(* The queues lose a frame only to newer ones: what came since a queue was last
   read and is not in it is older than all of a full queue
   (connection.py:192-201, 546-556). *)
THEOREM AlwaysNewestKept == Spec => []NewestKept
  BY AudioInitial, AudioStep, SoundKeepsNewest, PTL DEF Spec

-----------------------------------------------------------------------------
(* The refinement of SessionBroadcast                                      *)

LEMMA AnnouncedProperties ==
  ASSUME NEW m \in Seq(Frames)
  PROVE  /\ Announced(m) \in Seq(Broadcast!Frame)
         /\ Len(Announced(m)) = Len(m)
         /\ \A f \in 1 .. Len(m) : Announced(m)[f].to = m[f].to
<1>1. DOMAIN m = 1 .. Len(m) /\ Len(m) \in Nat BY LenProperties
<1>2. \A f \in 1 .. Len(m) : m[f] \in Frames OBVIOUS
<1>3. \A f \in 1 .. Len(m) :
        [from |-> m[f].from, kind |-> m[f].kind, to |-> m[f].to] \in Broadcast!Frame
  BY <1>2 DEF Frames, Broadcast!Frame
<1>4. Announced(m) \in [1 .. Len(m) -> Broadcast!Frame] BY <1>1, <1>3 DEF Announced
<1>5. Announced(m) \in Seq(Broadcast!Frame) BY <1>1, <1>4, SeqDef
<1>6. DOMAIN Announced(m) = 1 .. Len(m) BY <1>4
<1>7. Len(Announced(m)) = Len(m) BY <1>1, <1>5, <1>6, LenProperties
<1>8. \A f \in 1 .. Len(m) : Announced(m)[f].to = m[f].to BY <1>1 DEF Announced
<1>9. QED BY <1>5, <1>7, <1>8

LEMMA AnnouncedAppend ==
  ASSUME NEW m \in Seq(Frames), NEW r \in Frames
  PROVE  Announced(Append(m, r)) =
           Append(Announced(m), [from |-> r.from, kind |-> r.kind, to |-> r.to])
<1> DEFINE n == Append(m, r)
           a == [from |-> r.from, kind |-> r.kind, to |-> r.to]
           p == Append(Announced(m), a)
<1>1. n \in Seq(Frames) /\ Len(n) = Len(m) + 1 /\ Len(m) \in Nat
      /\ n[Len(m) + 1] = r /\ \A i \in 1 .. Len(m) : n[i] = m[i]
  BY AppendProperties
<1>2. Announced(n) \in Seq(Broadcast!Frame) /\ Len(Announced(n)) = Len(m) + 1
  BY <1>1, AnnouncedProperties
<1>3. a \in Broadcast!Frame BY DEF Frames, Broadcast!Frame
<1>4. /\ p \in Seq(Broadcast!Frame) /\ Len(p) = Len(m) + 1 /\ p[Len(m) + 1] = a
      /\ \A i \in 1 .. Len(m) : p[i] = Announced(m)[i]
  BY <1>3, AnnouncedProperties, AppendProperties
<1> HIDE DEF n, p
<1>5. ASSUME NEW i \in 1 .. Len(m) + 1 PROVE Announced(n)[i] = p[i]
  <2>1. DOMAIN n = 1 .. Len(m) + 1 /\ DOMAIN m = 1 .. Len(m) BY <1>1, LenProperties
  <2>2. Announced(n)[i] = [from |-> n[i].from, kind |-> n[i].kind, to |-> n[i].to]
    BY <2>1 DEF Announced
  <2>3. CASE i = Len(m) + 1 BY <1>1, <1>4, <2>2, <2>3
  <2>4. CASE i \in 1 .. Len(m)
    <3>1. Announced(m)[i] = [from |-> m[i].from, kind |-> m[i].kind, to |-> m[i].to]
      BY <2>1, <2>4 DEF Announced
    <3>2. QED BY <1>1, <1>4, <2>2, <2>4, <3>1
  <2>5. QED BY <1>1, <2>3, <2>4
<1>6. Announced(n) = p BY <1>2, <1>4, <1>5, SeqEqual
<1>7. QED BY <1>6 DEF n, p

(* Making a frame, whatever the queues do, is the broadcast's Make. *)
LEMMA MakeImplements ==
  ASSUME AudioInv, NEW r \in Frames, r.kind = "mic" => r.from \notin r.to,
         made' = Append(made, r), UNCHANGED heard
  PROVE  Broadcast!Make
<1> DEFINE a == [from |-> r.from, kind |-> r.kind, to |-> r.to]
<1>1. made \in Seq(Frames) BY DEF AudioInv, OthersTyped
<1>2. Announced(made') = Append(Announced(made), a) BY <1>1, AnnouncedAppend
<1>3. a \in Broadcast!Frame /\ (a.kind = "mic" => a.from \notin a.to)
  BY DEF Frames, Broadcast!Frame
<1> HIDE DEF a
<1>4. QED BY <1>2, <1>3 DEF Broadcast!Make

(* Taking a piece is hearing its last frame, or nothing new. *)
LEMMA PeerTakesImplements ==
  ASSUME AudioInv, NEW c \in Conn, PeerTakes(c)
  PROVE  Broadcast!Hear(c) \/ UNCHANGED <<made, heard>>
<1>1. made \in Seq(Frames) /\ UNCHANGED made BY DEF AudioInv, OthersTyped, PeerTakes
<1>2. CASE Head(track[c]) = <<>> BY <1>2 DEF PeerTakes
<1>3. CASE Head(track[c]) # <<>>
  <2> DEFINE x == Head(track[c])
             f == Last(x)
  <2>1. InPlace(c, outputQueue[c], buffer[c], track[c], heard[c], came[c], made)
    BY DEF AudioInv
  <2>2. track[c] \in Seq(Seq(Nat)) /\ track[c] # <<>> BY <2>1 DEF InPlace, PeerTakes
  <2>3. x \in Seq(Nat) /\ x = track[c][1] /\ 1 \in 1 .. Len(track[c]) BY <2>2, EmptySeq
  <2>4. Len(x) \in 1 .. Len(x) /\ f = x[Len(x)] BY <1>3, <2>3, EmptySeq DEF Last
  <2>5. f \in AddressedTo(made, c) /\ heard[c] <= f BY <2>1, <2>3, <2>4 DEF InPlace, Line
  <2>6. heard' = [heard EXCEPT ![c] = f] BY <1>3 DEF PeerTakes
  <2> HIDE DEF f
  <2>7. f \in 1 .. Len(made) /\ c \in made[f].to /\ heard[c] \in Nat
    BY <2>1, <2>5 DEF AddressedTo, InPlace
  <2>8. CASE f = heard[c] BY <1>1, <2>6, <2>8 DEF AudioInv
  <2>9. CASE f # heard[c]
    <3>1. f \in heard[c] + 1 .. Len(Announced(made)) /\ c \in Announced(made)[f].to
      BY <1>1, <2>5, <2>7, <2>9, AnnouncedProperties
    <3>2. QED BY <1>1, <2>6, <3>1 DEF Broadcast!Hear
  <2>10. QED BY <2>8, <2>9
<1>4. QED BY <1>2, <1>3

(* Through queues that overflow, loops that cut and mix, and interruptions,
   nobody hears his own microphone, a frame twice or frames out of order
   (connection.py:546-556, 697-737, 913-954, session.py:51-64). *)
THEOREM AudioImplementsBroadcast == Spec => ImplementsBroadcast
<1>1. Init => Broadcast!BroadcastInit
  <2> SUFFICES ASSUME Init PROVE Broadcast!BroadcastInit
    OBVIOUS
  <2>1. Announced(<<>>) = <<>> BY DEF Announced
  <2>2. QED BY <2>1 DEF Init, Broadcast!BroadcastInit
<1>2. AudioInv /\ [Next]_vars => [Broadcast!BroadcastNext]_(Broadcast!broadcastVars)
  <2> SUFFICES ASSUME AudioInv, Next
               PROVE  Broadcast!BroadcastNext \/ UNCHANGED <<made, heard>>
    BY DEF vars, Broadcast!broadcastVars
  <2>1. ASSUME NEW c \in Conn, NEW len \in Lengths, Microphone(c, len)
        PROVE  Broadcast!Make
    <3> DEFINE r == [from |-> c, kind |-> "mic", to |-> Listeners(c), len |-> len]
    <3>1. r \in Frames /\ r.from \notin r.to BY ListenersAreMembers DEF Frames
    <3>2. made' = Append(made, r) /\ UNCHANGED heard BY <2>1 DEF Microphone, Makes
    <3> HIDE DEF r
    <3>3. QED BY <3>1, <3>2, MakeImplements
  <2>2. ASSUME NEW c \in Conn, NEW len \in Lengths, Answer(c, len)
        PROVE  Broadcast!Make
    <3> DEFINE r == [from |-> c, kind |-> "answer", to |-> Listeners(c) \union {c}, len |-> len]
    <3>1. r \in Frames /\ r.kind # "mic" BY ListenersAreMembers DEF Frames
    <3>2. made' = Append(made, r) /\ UNCHANGED heard BY <2>2 DEF Answer, Makes
    <3> HIDE DEF r
    <3>3. QED BY <3>1, <3>2, MakeImplements
  <2>3. ASSUME NEW c \in Conn, SendPiece(c) \/ Interrupted(c) \/ Leave(c)
        PROVE  UNCHANGED <<made, heard>>
    BY <2>3 DEF SendPiece, Interrupted, Leave
  <2>4. QED BY <2>1, <2>2, <2>3, PeerTakesImplements DEF Next, Broadcast!BroadcastNext
<1>3. QED
  BY <1>1, <1>2, AudioInitial, AudioStep, PTL DEF Spec, ImplementsBroadcast, Broadcast!BroadcastSpec

-----------------------------------------------------------------------------
(* What is left of the sound before an interruption                        *)

(* X is finite and no larger than Y, if Y is finite. *)
NoMore(X, Y) == IsFiniteSet(Y) => IsFiniteSet(X) /\ Cardinality(X) <= Cardinality(Y)

(* Less than a piece and a frame. *)
Bounded(n) == n > 0 => \E len \in Lengths : n < Piece + len

(* Where the track t and behind it the buffer b hold a unit of the first n
   frames. *)
Remains(t, b, n) == UnitsUpTo(Append(t, b), n)

(* What the loop of a connection has in hand is bounded at all times, so that
   what an interruption leaves is; of the sound before the last interruption,
   the first n frames, nothing is in its queue q. *)
HandInv(q, b, t, n, m) ==
  /\ n \in 0 .. Len(m)
  /\ \A i \in 1 .. Len(q) : q[i] > n
  /\ Bounded(Len(b))
  /\ IsFiniteSet(Remains(t, b, n)) /\ Bounded(Cardinality(Remains(t, b, n)))

SoonInv ==
  /\ AudioInv
  /\ \A c \in Conn : HandInv(outputQueue[c], buffer[c], track[c], cut[c], made)

(* A map that keeps the elements apart counts them. *)
LEMMA NoMoreByMap ==
  ASSUME NEW X, NEW Y, NEW g \in [X -> Y], \A u, v \in X : g[u] = g[v] => u = v
  PROVE  NoMore(X, Y)
<1> SUFFICES ASSUME IsFiniteSet(Y) PROVE IsFiniteSet(X) /\ Cardinality(X) <= Cardinality(Y)
  BY DEF NoMore
<1>1. g \in Injection(X, Y) BY DEF Injection, IsInjective
<1>2. QED BY <1>1, FS_Injection

LEMMA NoMoreTransitive ==
  ASSUME NEW X, NEW Y, NEW Z, NoMore(X, Y), NoMore(Y, Z)
  PROVE  NoMore(X, Z)
<1> SUFFICES ASSUME IsFiniteSet(Z) PROVE IsFiniteSet(X) /\ Cardinality(X) <= Cardinality(Z)
  BY DEF NoMore
<1>1. IsFiniteSet(Y) /\ Cardinality(Y) <= Cardinality(Z) BY DEF NoMore
<1>2. IsFiniteSet(X) /\ Cardinality(X) <= Cardinality(Y) BY <1>1 DEF NoMore
<1>3. Cardinality(X) \in Nat /\ Cardinality(Y) \in Nat /\ Cardinality(Z) \in Nat
  BY <1>1, <1>2, FS_CardinalityType
<1>4. QED BY <1>1, <1>2, <1>3

LEMMA BoundedByMore ==
  ASSUME NEW X, NEW Y, NoMore(X, Y), IsFiniteSet(Y), Bounded(Cardinality(Y))
  PROVE  IsFiniteSet(X) /\ Bounded(Cardinality(X))
<1>1. IsFiniteSet(X) /\ Cardinality(X) <= Cardinality(Y) BY DEF NoMore
<1>2. Cardinality(X) \in Nat /\ Cardinality(Y) \in Nat BY <1>1, FS_CardinalityType
<1>3. QED BY <1>1, <1>2, AudioAssumption DEF Bounded

LEMMA UnitsProperties ==
  ASSUME NEW P \in Seq(Seq(Nat)), NEW n, NEW u
  PROVE  u \in UnitsUpTo(P, n) <=>
           \E d \in 1 .. Len(P) : \E i \in 1 .. Len(P[d]) : P[d][i] <= n /\ u = <<d, i>>
<1>1. DOMAIN P = 1 .. Len(P) /\ \A d \in 1 .. Len(P) : DOMAIN P[d] = 1 .. Len(P[d])
  BY LenProperties, ElementOfSeq
<1>2. QED BY <1>1 DEF UnitsUpTo

(* Pieces Q hold no more units up to n than P does, if piece d of Q is piece
   s[d] of P from unit o[d] + 1 on, and no unit of P is in two pieces of Q. *)
LEMMA UnitsMoved ==
  ASSUME NEW P \in Seq(Seq(Nat)), NEW Q \in Seq(Seq(Nat)), NEW n \in Nat,
         NEW s \in [1 .. Len(Q) -> 1 .. Len(P)], NEW o \in [1 .. Len(Q) -> Nat],
         \A d \in 1 .. Len(Q) : \A i \in 1 .. Len(Q[d]) :
           Q[d][i] <= n => i + o[d] \in 1 .. Len(P[s[d]]) /\ Q[d][i] = P[s[d]][i + o[d]],
         \A d, e \in 1 .. Len(Q) : d < e /\ s[d] = s[e] => o[d] + Len(Q[d]) <= o[e]
  PROVE  NoMore(UnitsUpTo(Q, n), UnitsUpTo(P, n))
<1> DEFINE X == UnitsUpTo(Q, n)
           Y == UnitsUpTo(P, n)
           g == [u \in X |-> <<s[u[1]], u[2] + o[u[1]]>>]
<1> HIDE DEF X, Y
<1>1. ASSUME NEW u \in X
      PROVE  \E d \in 1 .. Len(Q) : \E i \in 1 .. Len(Q[d]) :
               Q[d][i] <= n /\ u = <<d, i>> /\ g[u] = <<s[d], i + o[d]>>
  <2>1. PICK d \in 1 .. Len(Q) : \E i \in 1 .. Len(Q[d]) : Q[d][i] <= n /\ u = <<d, i>>
    BY UnitsProperties DEF X
  <2>2. PICK i \in 1 .. Len(Q[d]) : Q[d][i] <= n /\ u = <<d, i>> BY <2>1
  <2>3. g[u] = <<s[d], i + o[d]>> BY <2>2
  <2>4. QED BY <2>2, <2>3
<1>2. \A d \in 1 .. Len(Q) : Len(Q[d]) \in Nat BY ElementOfSeq, LenProperties
<1> HIDE DEF g
<1>3. ASSUME NEW u \in X PROVE g[u] \in Y
  <2> DEFINE From(d, i) == Q[d][i] <= n /\ u = <<d, i>> /\ g[u] = <<s[d], i + o[d]>>
  <2>1. PICK d \in 1 .. Len(Q) : \E i \in 1 .. Len(Q[d]) : From(d, i) BY <1>1
  <2>2. PICK i \in 1 .. Len(Q[d]) : From(d, i) BY <2>1
  <2>3. s[d] \in 1 .. Len(P) /\ i + o[d] \in 1 .. Len(P[s[d]]) /\ P[s[d]][i + o[d]] <= n
    BY <2>2
  <2>4. QED BY <2>2, <2>3, UnitsProperties DEF Y
<1>4. g \in [X -> Y] BY <1>3 DEF g
<1>5. ASSUME NEW u \in X, NEW v \in X, g[u] = g[v] PROVE u = v
  <2> DEFINE From(w, d, i) == w = <<d, i>> /\ g[w] = <<s[d], i + o[d]>>
  <2>1. PICK d \in 1 .. Len(Q) : \E i \in 1 .. Len(Q[d]) : From(u, d, i) BY <1>1
  <2>2. PICK i \in 1 .. Len(Q[d]) : From(u, d, i) BY <2>1
  <2>3. PICK e \in 1 .. Len(Q) : \E j \in 1 .. Len(Q[e]) : From(v, e, j) BY <1>1
  <2>4. PICK j \in 1 .. Len(Q[e]) : From(v, e, j) BY <2>3
  <2>5. s[d] = s[e] /\ i + o[d] = j + o[e]
    <3>1. <<s[d], i + o[d]>> = <<s[e], j + o[e]>> BY ONLY <1>5, <2>2, <2>4
    <3>2. QED BY ONLY <3>1
  <2>6. o[d] \in Nat /\ o[e] \in Nat /\ Len(Q[d]) \in Nat /\ Len(Q[e]) \in Nat BY <1>2
  <2>7. ~(d < e)
    <3> SUFFICES ASSUME d < e PROVE FALSE
      OBVIOUS
    <3>1. o[d] + Len(Q[d]) <= o[e] BY <2>5
    <3>2. QED BY <2>5, <2>6, <3>1
  <2>8. ~(e < d)
    <3> SUFFICES ASSUME e < d PROVE FALSE
      OBVIOUS
    <3>1. o[e] + Len(Q[e]) <= o[d] BY <2>5
    <3>2. QED BY <2>5, <2>6, <3>1
  <2>9. d = e BY <2>7, <2>8
  <2>10. i = j BY <2>5, <2>6, <2>9
  <2>11. QED BY <2>2, <2>4, <2>9, <2>10
<1>6. NoMore(X, Y) BY <1>4, <1>5, NoMoreByMap
<1>7. QED BY <1>6 DEF X, Y

LEMMA BehindProperties ==
  ASSUME NEW t \in Seq(Seq(Nat)), NEW b \in Seq(Nat)
  PROVE  /\ Append(t, b) \in Seq(Seq(Nat)) /\ Len(Append(t, b)) = Len(t) + 1
         /\ Append(t, b)[Len(t) + 1] = b
         /\ \A d \in 1 .. Len(t) : Append(t, b)[d] = t[d]
         /\ Len(t) \in Nat /\ Len(b) \in Nat
         /\ \A d \in 1 .. Len(t) : t[d] \in Seq(Nat) /\ Len(t[d]) \in Nat
<1>1. b \in Seq(Nat) /\ \A d \in 1 .. Len(t) : t[d] \in Seq(Nat) BY ElementOfSeq
<1>2. QED BY <1>1, AppendProperties, LenProperties

(* The loop takes a frame that came later. *)
LEMMA UnitsGrow ==
  ASSUME NEW t \in Seq(Seq(Nat)), NEW b \in Seq(Nat), NEW u \in Seq(Nat), NEW n \in Nat,
         \A i \in 1 .. Len(u) : u[i] <= n => i \in 1 .. Len(b) /\ u[i] = b[i]
  PROVE  NoMore(Remains(t, u, n), Remains(t, b, n))
<1> DEFINE P == Append(t, b)
           Q == Append(t, u)
           s == [d \in 1 .. Len(Q) |-> d]
           o == [d \in 1 .. Len(Q) |-> 0]
<1>1. /\ P \in Seq(Seq(Nat)) /\ Len(P) = Len(t) + 1 /\ P[Len(t) + 1] = b
      /\ \A d \in 1 .. Len(t) : P[d] = t[d]
      /\ Len(t) \in Nat /\ Len(b) \in Nat
      /\ \A d \in 1 .. Len(t) : t[d] \in Seq(Nat) /\ Len(t[d]) \in Nat
  BY BehindProperties
<1>2. /\ Q \in Seq(Seq(Nat)) /\ Len(Q) = Len(t) + 1 /\ Q[Len(t) + 1] = u
      /\ \A d \in 1 .. Len(t) : Q[d] = t[d]
      /\ Len(u) \in Nat
  BY BehindProperties
<1> HIDE DEF P, Q
<1>3. s \in [1 .. Len(Q) -> 1 .. Len(P)] /\ o \in [1 .. Len(Q) -> Nat] BY <1>1, <1>2
<1>4. \A d \in 1 .. Len(Q) : s[d] = d /\ o[d] = 0 OBVIOUS
<1> HIDE DEF s, o
<1>5. ASSUME NEW d \in 1 .. Len(Q), NEW i \in 1 .. Len(Q[d]), Q[d][i] <= n
      PROVE  i + o[d] \in 1 .. Len(P[s[d]]) /\ Q[d][i] = P[s[d]][i + o[d]]
  <2>1. s[d] = d /\ i + o[d] = i BY <1>4
  <2>2. CASE d \in 1 .. Len(t) BY <1>1, <1>2, <2>1, <2>2
  <2>3. CASE d = Len(t) + 1 BY <1>1, <1>2, <1>5, <2>1, <2>3
  <2>4. QED BY <1>2, <2>2, <2>3
<1>6. \A d, e \in 1 .. Len(Q) : d < e /\ s[d] = s[e] => o[d] + Len(Q[d]) <= o[e] BY <1>4
<1>7. NoMore(UnitsUpTo(Q, n), UnitsUpTo(P, n)) BY <1>1, <1>2, <1>3, <1>5, <1>6, UnitsMoved
<1>8. QED BY <1>7 DEF Remains, P, Q

(* A piece is cut from the front of the buffer, for the track or for nobody,
   and the track may lose its oldest: of track t and buffer u there remains no
   more than there was. *)
LEMMA UnitsCut ==
  ASSUME NEW t \in Seq(Seq(Nat)), NEW u \in Seq(Nat), NEW n \in Nat,
         NEW x \in Seq(Nat), NEW b \in Seq(Nat),
         Len(u) = Len(x) + Len(b),
         \A i \in 1 .. Len(x) : x[i] = u[i],
         \A i \in 1 .. Len(b) : b[i] = u[i + Len(x)]
  PROVE  /\ NoMore(Remains(PutDroppingOldest(t, x), b, n), Remains(t, u, n))
         /\ NoMore(Remains(t, b, n), Remains(t, u, n))
<1> DEFINE P == Append(t, u)
           p == PutDroppingOldest(t, x)
           k == Len(x)
<1>1. /\ P \in Seq(Seq(Nat)) /\ Len(P) = Len(t) + 1 /\ P[Len(t) + 1] = u
      /\ \A d \in 1 .. Len(t) : P[d] = t[d]
      /\ Len(t) \in Nat /\ Len(u) \in Nat
      /\ \A d \in 1 .. Len(t) : t[d] \in Seq(Nat) /\ Len(t[d]) \in Nat
  BY BehindProperties
<1>2. k \in Nat /\ Len(b) \in Nat BY LenProperties
<1> HIDE DEF P
<1>3. NoMore(Remains(p, b, n), Remains(t, u, n))
  <2> DEFINE lost == IF Len(t) < MaxQueue THEN 0 ELSE 1
             Q == Append(p, b)
             s == [d \in 1 .. Len(Q) |-> IF d <= Len(t) - lost THEN d + lost ELSE Len(t) + 1]
             o == [d \in 1 .. Len(Q) |-> IF d = Len(p) + 1 THEN k ELSE 0]
  <2>1. /\ p \in Seq(Seq(Nat)) /\ Len(p) = Len(t) + 1 - lost /\ p[Len(p)] = x
        /\ Len(t) >= lost
        /\ \A d \in 1 .. Len(t) - lost : p[d] = t[d + lost]
    BY PutProperties
  <2> HIDE DEF p
  <2>2. /\ Q \in Seq(Seq(Nat)) /\ Len(Q) = Len(p) + 1 /\ Q[Len(p) + 1] = b
        /\ \A d \in 1 .. Len(p) : Q[d] = p[d]
    BY <2>1, BehindProperties
  <2>3. lost \in {0, 1} OBVIOUS
  <2> HIDE DEF Q, lost
  <2>4. Len(p) \in Nat /\ Len(p) = Len(t) + 1 - lost /\ Len(Q) = Len(p) + 1 BY <1>1, <2>1, <2>2, <2>3
  <2> DEFINE Old(d) == /\ d \in 1 .. Len(t) - lost /\ d + lost \in 1 .. Len(t) /\ d < Len(p)
                       /\ Q[d] = t[d + lost] /\ s[d] = d + lost /\ o[d] = 0
             Cut(d) == d = Len(p) /\ Q[d] = x /\ s[d] = Len(t) + 1 /\ o[d] = 0
             Left(d) == d = Len(p) + 1 /\ Q[d] = b /\ s[d] = Len(t) + 1 /\ o[d] = k
  <2>5. ASSUME NEW d \in 1 .. Len(Q) PROVE Old(d) \/ Cut(d) \/ Left(d)
    <3>1. CASE d <= Len(t) - lost
      <4>1. d \in 1 .. Len(t) - lost /\ d + lost \in 1 .. Len(t) BY <1>1, <2>3, <3>1
      <4>2. d \in 1 .. Len(p) /\ d < Len(p) /\ d # Len(p) + 1 BY <1>1, <2>3, <2>4, <3>1
      <4>3. Q[d] = t[d + lost] BY <2>1, <2>2, <4>1, <4>2
      <4>4. s[d] = d + lost /\ o[d] = 0 BY <3>1, <4>2
      <4>5. QED BY <4>1, <4>2, <4>3, <4>4
    <3>2. CASE d = Len(p)
      <4>1. ~(d <= Len(t) - lost) /\ d # Len(p) + 1 /\ d \in 1 .. Len(p)
        BY <1>1, <2>1, <2>3, <3>2
      <4>2. Q[d] = x BY <2>1, <2>2, <3>2, <4>1
      <4>3. s[d] = Len(t) + 1 /\ o[d] = 0 BY <4>1
      <4>4. QED BY <3>2, <4>2, <4>3
    <3>3. CASE d = Len(p) + 1
      <4>1. ~(d <= Len(t) - lost) BY <1>1, <2>1, <2>3, <3>3
      <4>2. s[d] = Len(t) + 1 /\ o[d] = k BY <3>3, <4>1
      <4>3. QED BY <2>2, <3>3, <4>2
    <3>4. d <= Len(t) - lost \/ d = Len(p) \/ d = Len(p) + 1
      BY ONLY <1>1, <2>3, <2>4, d \in 1 .. Len(Q)
    <3>5. QED BY <3>1, <3>2, <3>3, <3>4
  <2> HIDE DEF s, o
  <2>6. ASSUME NEW d \in 1 .. Len(Q) PROVE s[d] \in 1 .. Len(P) /\ o[d] \in Nat
    <3>1. CASE Old(d) BY <1>1, <3>1
    <3>2. CASE Cut(d) BY <1>1, <3>2
    <3>3. CASE Left(d) BY <1>1, <1>2, <3>3
    <3>4. QED BY <2>5, <3>1, <3>2, <3>3
  <2>7. s \in [1 .. Len(Q) -> 1 .. Len(P)] /\ o \in [1 .. Len(Q) -> Nat] BY <2>6 DEF s, o
  <2>8. ASSUME NEW d \in 1 .. Len(Q), NEW i \in 1 .. Len(Q[d]), Q[d][i] <= n
        PROVE  i + o[d] \in 1 .. Len(P[s[d]]) /\ Q[d][i] = P[s[d]][i + o[d]]
    <3>1. CASE Old(d) BY <1>1, <3>1
    <3>2. CASE Cut(d) BY <1>1, <1>2, <3>2
    <3>3. CASE Left(d) BY <1>1, <1>2, <3>3
    <3>4. QED BY <2>5, <3>1, <3>2, <3>3
  <2>9. ASSUME NEW d \in 1 .. Len(Q), NEW e \in 1 .. Len(Q), d < e, s[d] = s[e]
        PROVE  o[d] + Len(Q[d]) <= o[e]
    <3>1. Cut(d) /\ Left(e)
      <4>1. ~Old(d)
        <5> SUFFICES ASSUME Old(d) PROVE FALSE
          OBVIOUS
        <5>1. s[e] \in 1 .. Len(t) /\ s[e] = d + lost BY <2>9
        <5>2. CASE Old(e) BY <2>3, <2>9, <5>1, <5>2
        <5>3. CASE Cut(e) BY <1>1, <5>1, <5>3
        <5>4. CASE Left(e) BY <1>1, <5>1, <5>4
        <5>5. QED BY <2>5, <5>2, <5>3, <5>4
      <4>2. CASE Cut(d)
        <5>1. ~Old(e) /\ ~Cut(e) BY <2>9, <4>2
        <5>2. QED BY <2>5, <4>2, <5>1
      <4>3. CASE Left(d)
        <5>1. ~Old(e) /\ ~Cut(e) /\ ~Left(e) BY <2>1, <2>9, <4>3
        <5>2. QED BY <2>5, <5>1
      <4>4. QED BY <2>5, <4>1, <4>2, <4>3
    <3>2. QED BY <1>2, <3>1
  <2>10. NoMore(UnitsUpTo(Q, n), UnitsUpTo(P, n)) BY <1>1, <2>2, <2>7, <2>8, <2>9, UnitsMoved
  <2>11. QED BY <2>10 DEF Remains, P, Q
<1>4. NoMore(Remains(t, b, n), Remains(t, u, n))
  <2> DEFINE Q == Append(t, b)
             s == [d \in 1 .. Len(Q) |-> d]
             o == [d \in 1 .. Len(Q) |-> IF d = Len(t) + 1 THEN k ELSE 0]
  <2>1. /\ Q \in Seq(Seq(Nat)) /\ Len(Q) = Len(t) + 1 /\ Q[Len(t) + 1] = b
        /\ \A d \in 1 .. Len(t) : Q[d] = t[d]
    BY BehindProperties
  <2> HIDE DEF Q
  <2>2. s \in [1 .. Len(Q) -> 1 .. Len(P)] /\ o \in [1 .. Len(Q) -> Nat] BY <1>1, <1>2, <2>1
  <2>3. \A d \in 1 .. Len(Q) : s[d] = d /\ o[d] = IF d = Len(t) + 1 THEN k ELSE 0 OBVIOUS
  <2> HIDE DEF s, o
  <2>4. ASSUME NEW d \in 1 .. Len(Q), NEW i \in 1 .. Len(Q[d]), Q[d][i] <= n
        PROVE  i + o[d] \in 1 .. Len(P[s[d]]) /\ Q[d][i] = P[s[d]][i + o[d]]
    <3>1. CASE d \in 1 .. Len(t)
      <4>1. s[d] = d /\ o[d] = 0 BY <1>1, <2>3, <3>1
      <4>2. QED BY <1>1, <2>1, <3>1, <4>1
    <3>2. CASE d = Len(t) + 1
      <4>1. s[d] = d /\ o[d] = k BY <2>3, <3>2
      <4>2. QED BY <1>1, <1>2, <2>1, <3>2, <4>1
    <3>3. QED BY <1>1, <2>1, <3>1, <3>2
  <2>5. \A d, e \in 1 .. Len(Q) : d < e /\ s[d] = s[e] => o[d] + Len(Q[d]) <= o[e] BY <2>3
  <2>6. NoMore(UnitsUpTo(Q, n), UnitsUpTo(P, n)) BY <1>1, <2>1, <2>2, <2>4, <2>5, UnitsMoved
  <2>7. QED BY <2>6 DEF Remains, P, Q
<1>5. QED BY <1>3, <1>4

(* The peer takes a piece. *)
LEMMA UnitsTaken ==
  ASSUME NEW t \in Seq(Seq(Nat)), NEW b \in Seq(Nat), NEW n \in Nat, t # <<>>
  PROVE  NoMore(Remains(Tail(t), b, n), Remains(t, b, n))
<1> DEFINE P == Append(t, b)
           r == Tail(t)
           Q == Append(r, b)
           s == [d \in 1 .. Len(Q) |-> d + 1]
           o == [d \in 1 .. Len(Q) |-> 0]
<1>1. /\ P \in Seq(Seq(Nat)) /\ Len(P) = Len(t) + 1 /\ P[Len(t) + 1] = b
      /\ \A d \in 1 .. Len(t) : P[d] = t[d]
      /\ Len(t) \in Nat /\ Len(b) \in Nat
      /\ \A d \in 1 .. Len(t) : t[d] \in Seq(Nat) /\ Len(t[d]) \in Nat
  BY BehindProperties
<1>2. /\ r \in Seq(Seq(Nat)) /\ Len(r) = Len(t) - 1 /\ Len(t) \in Nat \ {0}
      /\ \A i \in 1 .. Len(r) : r[i] = t[i + 1]
  BY HeadTailProperties, LenProperties, EmptySeq
<1> HIDE DEF r
<1>3. /\ Q \in Seq(Seq(Nat)) /\ Len(Q) = Len(t) /\ Q[Len(t)] = b
      /\ \A d \in 1 .. Len(r) : Q[d] = r[d]
  BY <1>2, BehindProperties
<1> HIDE DEF P, Q
<1>4. ASSUME NEW d \in 1 .. Len(Q) PROVE Q[d] = P[d + 1]
  <2>1. CASE d = Len(t) BY <1>1, <1>3, <2>1
  <2>2. CASE d \in 1 .. Len(r)
    <3>1. d + 1 \in 1 .. Len(t) BY <1>2, <2>2
    <3>2. QED BY <1>1, <1>2, <1>3, <2>2, <3>1
  <2>3. QED BY <1>2, <1>3, <2>1, <2>2
<1>5. s \in [1 .. Len(Q) -> 1 .. Len(P)] /\ o \in [1 .. Len(Q) -> Nat] BY <1>1, <1>2, <1>3
<1>6. \A d \in 1 .. Len(Q) : s[d] = d + 1 /\ o[d] = 0 OBVIOUS
<1> HIDE DEF s, o
<1>7. ASSUME NEW d \in 1 .. Len(Q), NEW i \in 1 .. Len(Q[d]), Q[d][i] <= n
      PROVE  i + o[d] \in 1 .. Len(P[s[d]]) /\ Q[d][i] = P[s[d]][i + o[d]]
  <2>1. P[s[d]] = Q[d] /\ i + o[d] = i BY <1>4, <1>6
  <2>2. QED BY <2>1
<1>8. \A d, e \in 1 .. Len(Q) : d < e /\ s[d] = s[e] => o[d] + Len(Q[d]) <= o[e] BY <1>6
<1>9. NoMore(UnitsUpTo(Q, n), UnitsUpTo(P, n)) BY <1>1, <1>3, <1>5, <1>7, <1>8, UnitsMoved
<1>10. QED BY <1>9 DEF Remains, P, Q, r

LEMMA CountTo == ASSUME NEW k \in Nat PROVE IsFiniteSet(1 .. k) /\ Cardinality(1 .. k) = k
<1>1. 1 \in Int /\ k \in Int OBVIOUS
<1>2. IsFiniteSet(1 .. k) /\ Cardinality(1 .. k) = (IF 1 > k THEN 0 ELSE k - 1 + 1)
  BY ONLY <1>1, FS_Interval
<1>3. (IF 1 > k THEN 0 ELSE k - 1 + 1) = k OBVIOUS
<1>4. QED BY <1>2, <1>3

(* Right after an interruption only the buffer is left. *)
LEMMA UnitsInHand ==
  ASSUME NEW b \in Seq(Nat), NEW n \in Nat, Bounded(Len(b))
  PROVE  IsFiniteSet(Remains(<<>>, b, n)) /\ Bounded(Cardinality(Remains(<<>>, b, n)))
<1> DEFINE t == <<>>
           P == Append(t, b)
           X == UnitsUpTo(P, n)
           Y == 1 .. Len(b)
           g == [u \in X |-> u[2]]
<1>1. t \in Seq(Seq(Nat)) /\ Len(t) = 0 BY EmptySeq
<1> HIDE DEF t
<1>2. P \in Seq(Seq(Nat)) /\ Len(P) = 1 /\ P[1] = b /\ Len(b) \in Nat
  BY <1>1, BehindProperties
<1> HIDE DEF P
<1>3. ASSUME NEW u \in X PROVE u = <<1, u[2]>> /\ u[2] \in Y
  <2>1. PICK d \in 1 .. Len(P) : \E i \in 1 .. Len(P[d]) : P[d][i] <= n /\ u = <<d, i>>
    BY <1>2, UnitsProperties
  <2>2. PICK i \in 1 .. Len(P[d]) : u = <<d, i>> BY <2>1
  <2>3. d = 1 /\ i \in 1 .. Len(b) BY <1>2, <2>2
  <2>4. QED BY <2>2, <2>3
<1> HIDE DEF X
<1>4. g \in [X -> Y] BY <1>3
<1>5. \A u, v \in X : g[u] = g[v] => u = v
  <2> SUFFICES ASSUME NEW u \in X, NEW v \in X, g[u] = g[v] PROVE u = v
    OBVIOUS
  <2>1. u[2] = v[2] OBVIOUS
  <2>2. u = <<1, u[2]>> /\ v = <<1, v[2]>> BY <1>3
  <2>3. QED BY <2>1, <2>2
<1> HIDE DEF g
<1>6. NoMore(X, Y) BY <1>4, <1>5, NoMoreByMap
<1>7. IsFiniteSet(Y) /\ Cardinality(Y) = Len(b) BY <1>2, CountTo
<1> HIDE DEF Y
<1>8. IsFiniteSet(X) /\ Bounded(Cardinality(X)) BY <1>6, <1>7, BoundedByMore
<1>9. QED BY <1>8 DEF X, P, t, Remains

-----------------------------------------------------------------------------
(* The steps, and what is left of the sound                                *)

(* A frame that is made is newer than any interruption. *)
LEMMA SoonMade ==
  ASSUME SoonInv, AudioInv', NEW to, NEW own, Queued(Len(made) + 1, to, own),
         Len(made') = Len(made) + 1, UNCHANGED <<buffer, track, cut>>
  PROVE  SoonInv'
<1>1. Len(made) \in Nat BY LenProperties DEF SoonInv, AudioInv, OthersTyped
<1>2. ASSUME NEW c \in Conn
      PROVE  HandInv(outputQueue'[c], buffer'[c], track'[c], cut'[c], made')
  <2> DEFINE q == outputQueue[c]
             f == Len(made) + 1
  <2>1. HandInv(q, buffer[c], track[c], cut[c], made) BY DEF SoonInv
  <2>2. cut[c] \in 0 .. Len(made') /\ f > cut[c] BY <1>1, <2>1 DEF HandInv
  <2>3. q \in Seq(Nat) /\ f \in Nat BY <1>1 DEF SoonInv, AudioInv, InPlace
  <2>4. outputQueue'[c] = PutDroppingOldest(q, f) \/ outputQueue'[c] = q BY DEF Queued
  <2> HIDE DEF q, f
  <2>5. \A i \in 1 .. Len(outputQueue'[c]) : outputQueue'[c][i] > cut[c]
    <3>1. CASE outputQueue'[c] = q BY <2>1, <3>1 DEF HandInv
    <3>2. CASE outputQueue'[c] = PutDroppingOldest(q, f)
      <4> DEFINE p == PutDroppingOldest(q, f)
                 lost == IF Len(q) < MaxQueue THEN 0 ELSE 1
      <4>1. /\ Len(p) = Len(q) + 1 - lost /\ p[Len(p)] = f
            /\ \A i \in 1 .. Len(q) - lost : p[i] = q[i + lost]
        BY <2>3, PutProperties
      <4> HIDE DEF p
      <4>2. Len(q) \in Nat BY <2>3, LenProperties
      <4>3. ASSUME NEW i \in 1 .. Len(p) PROVE p[i] > cut[c]
        <5>1. CASE i = Len(p) BY <2>2, <4>1, <5>1
        <5>2. CASE i # Len(p)
          <6>1. i \in 1 .. Len(q) - lost /\ i + lost \in 1 .. Len(q) BY <4>1, <4>2, <5>2
          <6>2. QED BY <2>1, <4>1, <6>1 DEF HandInv
        <5>3. QED BY <5>1, <5>2
      <4>4. QED BY <3>2, <4>3 DEF p
    <3>3. QED BY <2>4, <3>1, <3>2
  <2>6. QED BY <2>1, <2>2, <2>5 DEF HandInv
<1>3. QED BY <1>2 DEF SoonInv

(* A round of the loop takes a frame only if the buffer holds less than a
   piece, and moves its units towards the track. *)
LEMMA SoonSendPiece ==
  ASSUME SoonInv, AudioInv', NEW c \in Conn, SendPiece(c)
  PROVE  HandInv(outputQueue'[c], buffer'[c], track'[c], cut'[c], made')
<1> DEFINE q == outputQueue[c]
           n == cut[c]
           taken == IF Refills(c) THEN <<Head(outputQueue[c])>> ELSE <<>>
           r == IF taken = <<>> THEN q ELSE Tail(q)
           units == IF taken = <<>> THEN buffer[c]
                    ELSE buffer[c] \o [i \in 1 .. made[taken[1]].len |-> taken[1]]
           whole == Len(units) >= Piece
           b == IF whole THEN SubSeq(units, Piece + 1, Len(units)) ELSE units
           x == IF whole THEN SubSeq(units, 1, Piece) ELSE <<>>
           t == IF c \in Sending \ Avatar THEN PutDroppingOldest(track[c], x) ELSE track[c]
<1>1. made \in Seq(Frames) /\ AudioInv BY DEF SoonInv, AudioInv, OthersTyped
<1>2. InPlace(c, q, buffer[c], track[c], heard[c], came[c], made) BY <1>1 DEF AudioInv
<1>3. /\ q \in Seq(Nat) /\ buffer[c] \in Seq(Nat) /\ track[c] \in Seq(Seq(Nat))
      /\ \A i \in 1 .. Len(q) : q[i] \in 1 .. Len(made)
  BY <1>2 DEF InPlace, Line, AddressedTo
<1>4. HandInv(q, buffer[c], track[c], n, made) BY DEF SoonInv
<1>5. n \in Nat BY <1>4 DEF HandInv
<1>6. /\ outputQueue'[c] = r /\ buffer'[c] = b /\ cut'[c] = n /\ made' = made
      /\ track'[c] = t
  BY <1>1 DEF SendPiece, AudioInv
<1>7. /\ \A i \in 1 .. Len(r) : r[i] > n
      /\ units \in Seq(Nat) /\ Bounded(Len(units))
      /\ NoMore(Remains(track[c], units, n), Remains(track[c], buffer[c], n))
  <2>1. CASE Refills(c)
    <3> DEFINE g == Head(q)
               len == made[g].len
               more == [i \in 1 .. len |-> g]
    <3>1. q # <<>> /\ taken = <<g>> /\ taken # <<>> /\ taken[1] = g /\ Len(buffer[c]) < Piece
      BY <2>1 DEF Refills
    <3>2. r = Tail(q) /\ units = buffer[c] \o more BY <3>1
    <3>3. g = q[1] /\ 1 \in 1 .. Len(q) BY <1>3, <3>1, HeadTailProperties, EmptySeq
    <3>4. g \in 1 .. Len(made) /\ g > n BY <1>3, <1>4, <3>3 DEF HandInv
    <3>5. len \in Lengths /\ len \in Nat
      <4>1. made[g] \in Frames BY <1>1, <3>4, ElementOfSeq
      <4>2. QED BY <4>1, AudioAssumption DEF Frames
    <3> HIDE DEF g, len, q, r
    <3>6. more \in Seq(Nat) /\ Len(more) = len /\ \A i \in 1 .. len : more[i] = g
      <4>1. more \in [1 .. len -> Nat] BY <3>4
      <4>2. more \in Seq(Nat) BY <3>5, <4>1, SeqDef
      <4>3. DOMAIN more = 1 .. len /\ \A i \in 1 .. len : more[i] = g OBVIOUS
      <4> HIDE DEF more
      <4>4. QED BY <3>5, <4>2, <4>3, LenProperties
    <3> HIDE DEF more, units
    <3>7. /\ units \in Seq(Nat) /\ Len(units) = Len(buffer[c]) + len
          /\ \A i \in 1 .. Len(units) : units[i] = IF i <= Len(buffer[c]) THEN buffer[c][i]
                                                   ELSE more[i - Len(buffer[c])]
          /\ Len(buffer[c]) \in Nat
      <4> DEFINE before == buffer[c]
      <4>1. before \in Seq(Nat) /\ Len(before) \in Nat BY <1>3, LenProperties
      <4> HIDE DEF before
      <4>2. /\ before \o more \in Seq(Nat) /\ Len(before \o more) = Len(before) + len
            /\ \A i \in 1 .. Len(before) + len :
                 (before \o more)[i] = IF i <= Len(before) THEN before[i] ELSE more[i - Len(before)]
        BY <3>6, <4>1, ConcatProperties
      <4>3. units = before \o more BY <3>2 DEF before
      <4>4. QED BY <4>1, <4>2, <4>3 DEF before
    <3>8. \A i \in 1 .. Len(units) : units[i] <= n => i \in 1 .. Len(buffer[c]) /\ units[i] = buffer[c][i]
      <4> SUFFICES ASSUME NEW i \in 1 .. Len(units), units[i] <= n
                   PROVE  i \in 1 .. Len(buffer[c]) /\ units[i] = buffer[c][i]
        OBVIOUS
      <4>1. i <= Len(buffer[c])
        <5> SUFFICES ASSUME ~(i <= Len(buffer[c])) PROVE FALSE
          OBVIOUS
        <5>1. i - Len(buffer[c]) \in 1 .. len BY <3>5, <3>7
        <5>2. units[i] = g BY <3>6, <3>7, <5>1
        <5>3. QED BY <1>5, <3>4, <5>2
      <4>2. QED BY <3>7, <4>1
    <3>9. NoMore(Remains(track[c], units, n), Remains(track[c], buffer[c], n))
      BY <1>3, <1>5, <3>7, <3>8, UnitsGrow
    <3>10. Bounded(Len(units)) BY <3>1, <3>5, <3>7, AudioAssumption DEF Bounded
    <3>11. \A i \in 1 .. Len(r) : r[i] > n
      <4>1. Len(r) = Len(q) - 1 /\ Len(q) \in Nat /\ \A i \in 1 .. Len(r) : r[i] = q[i + 1]
        BY <1>3, <3>1, <3>2, HeadTailProperties, LenProperties
      <4>2. QED BY <1>4, <4>1 DEF HandInv
    <3>12. QED BY <3>7, <3>9, <3>10, <3>11
  <2>2. CASE ~Refills(c)
    <3>1. r = q /\ units = buffer[c] BY <2>2
    <3>2. NoMore(Remains(track[c], buffer[c], n), Remains(track[c], buffer[c], n))
      BY <1>3, <1>5, UnitsGrow
    <3>3. QED BY <1>3, <1>4, <3>1, <3>2 DEF HandInv
  <2>3. QED BY <2>1, <2>2
<1> HIDE DEF r, units, q
<1>8. /\ x \in Seq(Nat) /\ b \in Seq(Nat) /\ Len(units) = Len(x) + Len(b)
      /\ \A i \in 1 .. Len(x) : x[i] = units[i]
      /\ \A i \in 1 .. Len(b) : b[i] = units[i + Len(x)]
  <2>1. Len(units) \in Nat /\ Piece \in Nat \ {0} BY <1>7, LenProperties, AudioAssumption
  <2>2. CASE whole
    <3>1. x = SubSeq(units, 1, Piece) /\ b = SubSeq(units, Piece + 1, Len(units)) BY <2>2
    <3>2. x \in Seq(Nat) /\ Len(x) = Piece /\ \A i \in 1 .. Len(x) : x[i] = units[i]
      BY <1>7, <2>1, <2>2, <3>1, SubSeqProperties
    <3>3. b \in Seq(Nat) /\ Len(b) = Len(units) - Piece
          /\ \A i \in 1 .. Len(b) : b[i] = units[i + Piece]
      BY <1>7, <2>1, <2>2, <3>1, SubSeqProperties
    <3> HIDE DEF x, b
    <3>4. Len(units) = Len(x) + Len(b) BY ONLY <2>1, <3>2, <3>3
    <3>5. QED BY <3>2, <3>3, <3>4
  <2>3. CASE ~whole
    <3>1. x = <<>> /\ b = units BY <2>3
    <3>2. x \in Seq(Nat) /\ Len(x) = 0 BY <3>1, EmptySeq
    <3>3. QED BY <1>7, <2>1, <3>1, <3>2
  <2>4. QED BY <2>2, <2>3
<1> HIDE DEF x, b
<1>9. NoMore(Remains(t, b, n), Remains(track[c], units, n))
  BY <1>3, <1>5, <1>7, <1>8, UnitsCut
<1>10. NoMore(Remains(t, b, n), Remains(track[c], buffer[c], n)) BY <1>7, <1>9, NoMoreTransitive
<1>11. IsFiniteSet(Remains(t, b, n)) /\ Bounded(Cardinality(Remains(t, b, n)))
  BY <1>4, <1>10, BoundedByMore DEF HandInv
<1>12. Bounded(Len(b))
  <2>1. Len(x) \in Nat /\ Len(b) \in Nat /\ Len(units) \in Nat BY <1>7, <1>8, LenProperties
  <2>2. QED BY <1>7, <1>8, <2>1, AudioAssumption DEF Bounded
<1> HIDE DEF t
<1>13. QED BY <1>4, <1>6, <1>7, <1>11, <1>12 DEF HandInv

LEMMA SoonPeerTakes ==
  ASSUME SoonInv, AudioInv', NEW c \in Conn, PeerTakes(c)
  PROVE  HandInv(outputQueue'[c], buffer'[c], track'[c], cut'[c], made')
<1>1. HandInv(outputQueue[c], buffer[c], track[c], cut[c], made) BY DEF SoonInv
<1>2. buffer[c] \in Seq(Nat) /\ track[c] \in Seq(Seq(Nat)) BY DEF SoonInv, AudioInv, InPlace
<1>3. UNCHANGED <<outputQueue, buffer, cut, made>> BY DEF PeerTakes
<1>4. track'[c] = Tail(track[c]) /\ track[c] # <<>> BY DEF PeerTakes, SoonInv, AudioInv
<1>5. cut[c] \in Nat BY <1>1 DEF HandInv
<1>6. NoMore(Remains(Tail(track[c]), buffer[c], cut[c]), Remains(track[c], buffer[c], cut[c]))
  BY <1>2, <1>4, <1>5, UnitsTaken
<1>7. /\ IsFiniteSet(Remains(Tail(track[c]), buffer[c], cut[c]))
      /\ Bounded(Cardinality(Remains(Tail(track[c]), buffer[c], cut[c])))
  BY <1>1, <1>6, BoundedByMore DEF HandInv
<1>8. QED BY <1>1, <1>3, <1>4, <1>7 DEF HandInv

LEMMA SoonInterrupted ==
  ASSUME SoonInv, AudioInv', NEW c \in Conn, Interrupted(c)
  PROVE  HandInv(outputQueue'[c], buffer'[c], track'[c], cut'[c], made')
<1>1. Bounded(Len(buffer[c])) BY DEF SoonInv, HandInv
<1>2. buffer[c] \in Seq(Nat) BY DEF SoonInv, AudioInv, InPlace
<1>3. Len(made) \in Nat BY LenProperties DEF SoonInv, AudioInv, OthersTyped
<1>4. UNCHANGED <<buffer, made>> BY DEF Interrupted
<1>5. outputQueue'[c] = <<>> /\ track'[c] = <<>> BY DEF Interrupted, SoonInv, AudioInv
<1>6. cut'[c] = Len(made) BY DEF Interrupted, SoonInv, AudioInv, OthersTyped
<1>7. /\ IsFiniteSet(Remains(<<>>, buffer[c], Len(made)))
      /\ Bounded(Cardinality(Remains(<<>>, buffer[c], Len(made))))
  BY <1>1, <1>2, <1>3, UnitsInHand
<1>8. \A i \in 1 .. Len(<<>>) : <<>>[i] > Len(made) OBVIOUS
<1>9. QED BY <1>1, <1>3, <1>4, <1>5, <1>6, <1>7, <1>8 DEF HandInv

LEMMA SoonStep == SoonInv /\ [Next]_vars => SoonInv'
<1> SUFFICES ASSUME SoonInv, [Next]_vars PROVE SoonInv'
  OBVIOUS
<1>1. AudioInv /\ AudioInv' BY AudioStep DEF SoonInv
<1>2. ASSUME UNCHANGED <<made, outputQueue, buffer, track, cut>> PROVE SoonInv'
  BY <1>1, <1>2 DEF SoonInv
<1>3. made \in Seq(Frames) /\ \A r : Len(Append(made, r)) = Len(made) + 1
  BY <1>1 DEF AudioInv, OthersTyped
<1>4. ASSUME NEW c \in Conn, NEW len \in Lengths, Microphone(c, len) \/ Answer(c, len) PROVE SoonInv'
  <2>1. Len(made') = Len(made) + 1 /\ UNCHANGED <<buffer, track, cut>>
    BY <1>3, <1>4 DEF Microphone, Answer, Makes
  <2>2. PICK own : Queued(Len(made) + 1, Listeners(c), own)
    BY <1>4 DEF Microphone, Answer
  <2>3. QED BY <1>1, <2>1, <2>2, SoonMade
<1>5. ASSUME NEW c \in Conn, SendPiece(c) \/ PeerTakes(c) \/ Interrupted(c) PROVE SoonInv'
  <2>1. ASSUME NEW d \in Conn
        PROVE  HandInv(outputQueue'[d], buffer'[d], track'[d], cut'[d], made')
    <3>1. CASE d = c
      <4>1. HandInv(outputQueue'[c], buffer'[c], track'[c], cut'[c], made')
        BY <1>1, <1>5, SoonSendPiece, SoonPeerTakes, SoonInterrupted
      <4>2. QED BY <3>1, <4>1
    <3>2. CASE d # c
      <4>1. /\ outputQueue'[d] = outputQueue[d] /\ buffer'[d] = buffer[d] /\ track'[d] = track[d]
            /\ cut'[d] = cut[d] /\ made' = made
        <5>1. CASE SendPiece(c) BY <1>1, <3>2, <5>1 DEF SendPiece, AudioInv
        <5>2. CASE PeerTakes(c) BY <1>1, <3>2, <5>2 DEF PeerTakes, AudioInv
        <5>3. CASE Interrupted(c) BY <1>1, <3>2, <5>3 DEF Interrupted, AudioInv, OthersTyped
        <5>4. QED BY <1>5, <5>1, <5>2, <5>3
      <4>2. QED BY <4>1 DEF SoonInv
    <3>3. QED BY <3>1, <3>2
  <2>2. QED BY <1>1, <2>1 DEF SoonInv
<1>6. ASSUME NEW c \in Conn, Leave(c) PROVE SoonInv'
  BY <1>2, <1>6 DEF Leave
<1>7. CASE UNCHANGED vars BY <1>2, <1>7 DEF vars
<1>8. QED BY <1>4, <1>5, <1>6, <1>7 DEF Next

LEMMA SoonInitial == Init => SoonInv
<1> SUFFICES ASSUME Init PROVE SoonInv
  OBVIOUS
<1>1. Len(<<>>) = 0 /\ <<>> \in Seq(Nat) BY EmptySeq
<1>2. Bounded(Len(<<>>)) BY <1>1 DEF Bounded
<1>3. IsFiniteSet(Remains(<<>>, <<>>, 0)) /\ Bounded(Cardinality(Remains(<<>>, <<>>, 0)))
  BY <1>1, <1>2, UnitsInHand
<1>4. HandInv(<<>>, <<>>, <<>>, 0, <<>>) BY <1>1, <1>2, <1>3 DEF HandInv
<1>5. ASSUME NEW c \in Conn PROVE HandInv(outputQueue[c], buffer[c], track[c], cut[c], made)
  BY <1>4 DEF Init
<1>6. QED BY <1>5, AudioInitial DEF SoonInv

LEMMA SoundInterrupts == SoonInv => InterruptedSoon
<1> SUFFICES ASSUME SoonInv, NEW c \in Conn
             PROVE  /\ StaleUnits(c) > 0 => \E len \in Lengths : StaleUnits(c) < Piece + len
                    /\ \A i \in DOMAIN outputQueue[c] : outputQueue[c][i] > cut[c]
  BY DEF InterruptedSoon
<1>1. HandInv(outputQueue[c], buffer[c], track[c], cut[c], made) BY DEF SoonInv
<1>2. outputQueue[c] \in Seq(Nat) BY DEF SoonInv, AudioInv, InPlace
<1>3. DOMAIN outputQueue[c] = 1 .. Len(outputQueue[c]) BY <1>2, LenProperties
<1>4. StaleUnits(c) = Cardinality(Remains(track[c], buffer[c], cut[c])) BY DEF StaleUnits, Remains
<1>5. QED BY <1>1, <1>3, <1>4 DEF HandInv, Bounded

(* After an interruption what the client still hears of the sound before it is
   less than a piece and a frame, and none of it waits in the queue
   (connection.py:697-709, 913-954). *)
THEOREM AlwaysInterruptedSoon == Spec => []InterruptedSoon
  BY SoonInitial, SoonStep, SoundInterrupts, PTL DEF Spec
=============================================================================
