------------------------ MODULE MessageRouting_proofs -----------------------
(***************************************************************************)
(* Proofs about the messages of a session: MessageRouting, for any number  *)
(* of connections, of models of each, of channels and of messages.         *)
(*                                                                         *)
(* The inductive invariant adds to HeardOnce what is known of the handlers *)
(* and tasks that have a message in hand: that it is meant for the model   *)
(* they give it to, which does not have it yet, and that no two handlers   *)
(* give the same message.                                                  *)
(***************************************************************************)
EXTENDS MessageRouting, FiniteSetTheorems, SequenceTheorems, TLAPS

Messages == [from : Conn, kind : {"client", "report"}, to : SUBSET Conn]

\* The messages of ms that a channel of c may show.
Showable(ms, c) ==
  {m \in 1 .. Len(ms) : c \in ms[m].to \/ (ms[m].from = c /\ ms[m].kind = "report")}

\* Message m is meant for the models of c.
Meant(c, m) ==
  /\ m \in 1 .. Len(messages)
  /\ \/ messages[m].from = c /\ messages[m].kind = "client"
     \/ c \in messages[m].to /\ ~HasModels(messages[m].from)

\* A model that was given the messages s was not given m.
Lacks(s, m) == \A i \in 1 .. Len(s) : s[i] # m

MessageTypes ==
  /\ attached \subseteq Conn
  /\ messages \in Seq(Messages)
  /\ accepted \in [Conn -> SUBSET Channel]
  /\ shown \in [Conn -> [Channel -> Seq(Nat)]]
  /\ modelHeard \in [Conn -> Seq(Seq(Nat))]

ChannelsSound ==
  \A c \in Conn : IsFiniteSet(accepted[c]) /\ Cardinality(accepted[c]) <= MaxChannels

ShownSound ==
  \A c \in Conn, h \in Channel :
    /\ \A i, j \in 1 .. Len(shown[c][h]) : i < j => shown[c][h][i] < shown[c][h][j]
    /\ \A i \in 1 .. Len(shown[c][h]) : shown[c][h][i] \in Showable(messages, c)
    /\ h \notin accepted[c] => shown[c][h] = <<>>

GivenSound ==
  \A c \in Conn : \A k \in 1 .. Len(modelHeard[c]) :
    /\ \A i, j \in 1 .. Len(modelHeard[c][k]) :
         modelHeard[c][k][i] = modelHeard[c][k][j] => i = j
    /\ \A m : ~Lacks(modelHeard[c][k], m) => Meant(c, m)

RelaysSound ==
  /\ \A r \in relaying :
       /\ r \in [conn : Conn, msg : 1 .. Len(messages), model : 1 .. Len(modelHeard[r.conn])]
       /\ messages[r.msg].from = r.conn /\ messages[r.msg].kind = "client"
       /\ \A k \in r.model .. Len(modelHeard[r.conn]) : Lacks(modelHeard[r.conn][k], r.msg)
  /\ \A r, s \in relaying : r.msg = s.msg => r = s

TasksSound ==
  \A t \in tasks :
    /\ t \in [conn : Conn, msg : 1 .. Len(messages), model : 1 .. Len(modelHeard[t.conn])]
    /\ t.conn \in messages[t.msg].to /\ ~HasModels(messages[t.msg].from)
    /\ Lacks(modelHeard[t.conn][t.model], t.msg)

MessageInv ==
  MessageTypes /\ ChannelsSound /\ ShownSound /\ GivenSound /\ RelaysSound /\ TasksSound

LEMMA SoundHeardOnce == MessageInv => HeardOnce
<1> SUFFICES ASSUME MessageInv, NEW c \in Conn
             PROVE  /\ Cardinality(accepted[c]) <= MaxChannels
                    /\ \A h \in Channel :
                         /\ Ordered(shown[c][h])
                         /\ h \notin accepted[c] => shown[c][h] = <<>>
                         /\ \A i \in DOMAIN shown[c][h] :
                              LET m == shown[c][h][i] IN
                              c \in messages[m].to \/ (Mine(c, m) /\ messages[m].kind = "report")
                    /\ \A k \in Models(c) :
                         /\ Once(modelHeard[c][k])
                         /\ \A i \in DOMAIN modelHeard[c][k] :
                              LET m == modelHeard[c][k][i] IN
                              \/ Mine(c, m) /\ messages[m].kind = "client"
                              \/ c \in messages[m].to /\ ~HasModels(messages[m].from)
  BY DEF HeardOnce
<1> USE DEF MessageInv, MessageTypes
<1>1. Cardinality(accepted[c]) <= MaxChannels BY DEF ChannelsSound
<1>2. ASSUME NEW h \in Channel
      PROVE  /\ Ordered(shown[c][h])
             /\ h \notin accepted[c] => shown[c][h] = <<>>
             /\ \A i \in DOMAIN shown[c][h] :
                  LET m == shown[c][h][i] IN
                  c \in messages[m].to \/ (Mine(c, m) /\ messages[m].kind = "report")
  <2>1. DOMAIN shown[c][h] = 1 .. Len(shown[c][h]) OBVIOUS
  <2>2. QED BY <2>1 DEF ShownSound, Ordered, Showable, Mine
<1>3. ASSUME NEW k \in Models(c)
      PROVE  /\ Once(modelHeard[c][k])
             /\ \A i \in DOMAIN modelHeard[c][k] :
                  LET m == modelHeard[c][k][i] IN
                  \/ Mine(c, m) /\ messages[m].kind = "client"
                  \/ c \in messages[m].to /\ ~HasModels(messages[m].from)
  <2>1. k \in 1 .. Len(modelHeard[c]) BY DEF Models
  <2>2. DOMAIN modelHeard[c][k] = 1 .. Len(modelHeard[c][k]) BY <2>1
  <2>3. QED BY <2>1, <2>2 DEF GivenSound, Once, Meant, Lacks, Mine
<1>4. QED BY <1>1, <1>2, <1>3

LEMMA ListenersType == MessageTypes => \A c : Listeners(c) \in SUBSET Conn
  BY DEF MessageTypes, Listeners

-----------------------------------------------------------------------------
(* A message                                                               *)

(* Message m, the next one, is said by c to its listeners; the channels of the
   members of `to` show it, and it is handed on (connection.py:546-565). *)
Said(c, r, to, m) ==
  /\ r \in Messages /\ r.from = c /\ r.to = Listeners(c)
  /\ m = Len(messages) + 1 /\ messages' = Append(messages, r)
  /\ \A d \in to : d \in r.to \/ (d = c /\ r.kind = "report")
  /\ BroadcastToChannels(m, to) /\ HandedOn(m, c)
  /\ UNCHANGED <<attached, accepted, modelHeard>>

LEMMA SaidFacts ==
  ASSUME MessageInv, NEW c \in Conn, NEW r, NEW to, NEW m, Said(c, r, to, m)
  PROVE  /\ messages' \in Seq(Messages) /\ m \in Nat /\ Len(messages) \in Nat
         /\ Len(messages') = m /\ Len(messages) = m - 1 /\ messages'[m] = r
         /\ \A n \in 1 .. Len(messages) : messages'[n] = messages[n] /\ n < m
         /\ \A d : Showable(messages, d) \subseteq Showable(messages', d)
         /\ \A n \in 1 .. Len(messages) : \A d \in Conn : Meant(d, n) => Meant(d, n)'
<1>1. /\ messages' \in Seq(Messages) /\ m \in Nat /\ Len(messages) \in Nat
      /\ Len(messages') = m /\ Len(messages) = m - 1 /\ messages'[m] = r
      /\ \A n \in 1 .. Len(messages) : messages'[n] = messages[n] /\ n < m
  BY AppendProperties DEF Said, MessageInv, MessageTypes
<1>2. \A d : Showable(messages, d) \subseteq Showable(messages', d)
  BY <1>1 DEF Showable
<1>3. modelHeard' = modelHeard BY DEF Said
<1>4. \A n \in 1 .. Len(messages) : \A d \in Conn : Meant(d, n) => Meant(d, n)'
  BY <1>1, <1>3 DEF Meant, NumModels, HasModels
<1>5. QED BY <1>1, <1>2, <1>4

LEMMA RisingAppend ==
  ASSUME NEW s \in Seq(Nat), NEW m \in Nat, \A i \in 1 .. Len(s) : s[i] < m,
         \A i, j \in 1 .. Len(s) : i < j => s[i] < s[j]
  PROVE  \A i, j \in 1 .. Len(Append(s, m)) : i < j => Append(s, m)[i] < Append(s, m)[j]
<1> DEFINE p == Append(s, m)
<1>1. /\ p \in Seq(Nat) /\ Len(p) = Len(s) + 1 /\ Len(s) \in Nat /\ p[Len(s) + 1] = m
      /\ \A i \in 1 .. Len(s) : p[i] = s[i]
  BY AppendProperties
<1> DEFINE n == Len(s)
<1>2. n \in Nat /\ Len(p) = n + 1 BY <1>1
<1> HIDE DEF p, n
<1>3. \A i, j \in 1 .. Len(p) : i < j => p[i] < p[j]
  <2> SUFFICES ASSUME NEW i \in 1 .. Len(p), NEW j \in 1 .. Len(p), i < j PROVE p[i] < p[j]
    OBVIOUS
  <2>1. i \in 1 .. Len(s) BY <1>1
  <2>2. CASE j \in 1 .. Len(s) BY <1>1, <2>1, <2>2
  <2>3. CASE j = Len(s) + 1 BY <1>1, <2>1, <2>3
  <2>4. j \in 1 .. n \/ j = n + 1 BY <1>2
  <2>5. QED BY <2>2, <2>3, <2>4 DEF n
<1>4. QED BY <1>3 DEF p

LEMMA SaidShown ==
  ASSUME MessageInv, NEW c \in Conn, NEW r, NEW to \in SUBSET Conn, NEW m, Said(c, r, to, m)
  PROVE  shown' \in [Conn -> [Channel -> Seq(Nat)]] /\ ShownSound'
<1> USE DEF MessageInv, MessageTypes
<1>1. m \in Nat /\ Len(messages) = m - 1 /\ Len(messages') = m /\ messages'[m] = r
      /\ \A d : Showable(messages, d) \subseteq Showable(messages', d)
  BY SaidFacts
<1>2. shown' = [d \in Conn |-> [h \in Channel |->
                  IF d \in to /\ h \in accepted[d] /\ readyState[d][h] = "open"
                  THEN Append(shown[d][h], m) ELSE shown[d][h]]]
  BY DEF Said, BroadcastToChannels
<1>3. ASSUME NEW d \in Conn, NEW h \in Channel
      PROVE  /\ shown'[d][h] \in Seq(Nat)
             /\ \A i, j \in 1 .. Len(shown'[d][h]) : i < j => shown'[d][h][i] < shown'[d][h][j]
             /\ \A i \in 1 .. Len(shown'[d][h]) : shown'[d][h][i] \in Showable(messages', d)
             /\ h \notin accepted'[d] => shown'[d][h] = <<>>
  <2> DEFINE s == shown[d][h]
  <2>1. /\ s \in Seq(Nat)
        /\ \A i, j \in 1 .. Len(s) : i < j => s[i] < s[j]
        /\ \A i \in 1 .. Len(s) : s[i] \in Showable(messages, d)
        /\ h \notin accepted[d] => s = <<>>
    BY DEF ShownSound
  <2>2. accepted' = accepted BY DEF Said
  <2>3. CASE d \in to /\ h \in accepted[d] /\ readyState[d][h] = "open"
    <3> DEFINE p == Append(s, m)
    <3>1. shown'[d][h] = p BY <1>2, <2>3
    <3>2. \A i \in 1 .. Len(s) : s[i] \in Nat /\ s[i] < m
      BY <1>1, <2>1 DEF Showable
    <3>3. /\ p \in Seq(Nat) /\ Len(p) = Len(s) + 1 /\ Len(s) \in Nat /\ p[Len(s) + 1] = m
          /\ \A i \in 1 .. Len(s) : p[i] = s[i]
      BY <1>1, <2>1, AppendProperties
    <3>4. m \in Showable(messages', d) BY <1>1, <2>3 DEF Said, Showable
    <3>5. \A i, j \in 1 .. Len(p) : i < j => p[i] < p[j]
      BY <1>1, <2>1, <3>2, RisingAppend DEF p
    <3> HIDE DEF p, s
    <3>6. \A i \in 1 .. Len(p) : p[i] \in Showable(messages', d)
      <4> SUFFICES ASSUME NEW i \in 1 .. Len(p) PROVE p[i] \in Showable(messages', d)
        OBVIOUS
      <4>1. CASE i \in 1 .. Len(s) BY <1>1, <2>1, <3>3, <4>1
      <4>2. CASE i = Len(s) + 1 BY <3>3, <3>4, <4>2
      <4>3. QED BY <3>3, <4>1, <4>2
    <3>7. QED BY <2>2, <2>3, <3>1, <3>3, <3>5, <3>6
  <2>4. CASE ~(d \in to /\ h \in accepted[d] /\ readyState[d][h] = "open")
    <3>1. shown'[d][h] = s BY <1>2, <2>4
    <3>2. QED BY <1>1, <2>1, <2>2, <3>1
  <2>5. QED BY <2>3, <2>4
<1>4. shown' \in [Conn -> [Channel -> Seq(Nat)]]
  <2>1. \A d \in Conn : shown'[d] \in [Channel -> Seq(Nat)]
    <3> SUFFICES ASSUME NEW d \in Conn PROVE shown'[d] \in [Channel -> Seq(Nat)]
      OBVIOUS
    <3>1. shown'[d] = [h \in Channel |-> shown'[d][h]] BY <1>2
    <3>2. \A h \in Channel : shown'[d][h] \in Seq(Nat) BY <1>3
    <3>3. QED BY <3>1, <3>2
  <2>2. shown' = [d \in Conn |-> shown'[d]] BY <1>2
  <2>3. QED BY <2>1, <2>2
<1>5. ShownSound' BY <1>3 DEF ShownSound
<1>6. QED BY <1>4, <1>5

LEMMA SaidGiven ==
  ASSUME MessageInv, NEW c \in Conn, NEW r, NEW to, NEW m, Said(c, r, to, m)
  PROVE  GivenSound'
<1>1. modelHeard' = modelHeard BY DEF Said
<1>2. \A d \in Conn : \A n : Meant(d, n) => Meant(d, n)' BY SaidFacts DEF Meant
<1>3. QED BY <1>1, <1>2 DEF MessageInv, GivenSound

(* Nobody has m yet, and who works on an older message still does. *)
LEMMA SaidTasks ==
  ASSUME MessageInv, NEW c \in Conn, NEW r, NEW to, NEW m, Said(c, r, to, m)
  PROVE  TasksSound'
<1> USE DEF MessageInv
<1>1. m \in Nat /\ Len(messages) = m - 1 /\ Len(messages') = m /\ messages'[m] = r
      /\ \A n \in 1 .. Len(messages) : messages'[n] = messages[n] /\ n < m
  BY SaidFacts
<1>2. modelHeard' = modelHeard BY DEF Said
<1>3. ASSUME NEW t \in tasks'
      PROVE  /\ t \in [conn : Conn, msg : 1 .. Len(messages'), model : 1 .. Len(modelHeard'[t.conn])]
             /\ t.conn \in messages'[t.msg].to
             /\ ~(Len(modelHeard'[messages'[t.msg].from]) > 0 \/ messages'[t.msg].from \in Simli)
             /\ Lacks(modelHeard'[t.conn][t.model], t.msg)
  <2>1. CASE t \in tasks
    <3>1. /\ t \in [conn : Conn, msg : 1 .. Len(messages), model : 1 .. Len(modelHeard[t.conn])]
          /\ t.conn \in messages[t.msg].to /\ ~HasModels(messages[t.msg].from)
          /\ Lacks(modelHeard[t.conn][t.model], t.msg)
      BY <2>1 DEF TasksSound, NumModels, HasModels
    <3>2. t.msg \in 1 .. Len(messages) /\ t.msg \in 1 .. Len(messages') BY <1>1, <3>1
    <3>3. t \in [conn : Conn, msg : 1 .. Len(messages'), model : 1 .. Len(modelHeard[t.conn])]
      BY <3>1, <3>2
    <3>4. QED BY <1>1, <1>2, <3>1, <3>2, <3>3 DEF NumModels, HasModels
  <2>2. CASE t \notin tasks
    <3>1. ~HasModels(c) /\ \E d \in Listeners(c) : \E k \in Models(d) :
            t = [conn |-> d, model |-> k, msg |-> m]
      <4>1. NumModels(c) \in Nat BY DEF MessageTypes, NumModels, HasModels
      <4>2. QED BY <2>2, <4>1 DEF Said, HandedOn
    <3>2. PICK d \in Listeners(c) : \E k \in Models(d) : t = [conn |-> d, model |-> k, msg |-> m]
      BY <3>1
    <3>3. PICK k \in Models(d) : t = [conn |-> d, model |-> k, msg |-> m] BY <3>2
    <3>4. d \in Conn /\ k \in 1 .. Len(modelHeard[d])
      BY <3>2, <3>3, ListenersType DEF Models, MessageTypes
    <3>5. m \in 1 .. Len(messages') /\ t.conn = d /\ t.model = k /\ t.msg = m BY <1>1, <3>3
    <3>6. r.to = Listeners(c) /\ r.from = c BY DEF Said
    <3>7. Lacks(modelHeard[d][k], m)
      <4>1. ~Meant(d, m) BY <1>1 DEF Meant
      <4>2. QED BY <3>4, <4>1 DEF GivenSound
    <3>8. QED BY <1>1, <1>2, <3>1, <3>2, <3>3, <3>4, <3>5, <3>6, <3>7 DEF NumModels, HasModels
  <2>3. QED BY <2>1, <2>2
<1>4. QED BY <1>3 DEF TasksSound, NumModels, HasModels

(* A client's message is relayed by one more handler, another's by none. *)
LEMMA SaidRelays ==
  ASSUME MessageInv, NEW c \in Conn, NEW r, NEW to, NEW m, Said(c, r, to, m),
         relaying' \subseteq relaying \union {[conn |-> c, msg |-> m, model |-> 1]},
         relaying' # relaying => r.kind = "client" /\ NumModels(c) > 0
  PROVE  RelaysSound'
<1> USE DEF MessageInv
<1>1. m \in Nat /\ Len(messages) = m - 1 /\ Len(messages') = m /\ messages'[m] = r
      /\ \A n \in 1 .. Len(messages) : messages'[n] = messages[n] /\ n < m
  BY SaidFacts
<1>2. modelHeard' = modelHeard BY DEF Said
<1>3. ASSUME NEW q \in relaying
      PROVE  /\ q \in [conn : Conn, msg : 1 .. Len(messages'), model : 1 .. Len(modelHeard'[q.conn])]
             /\ messages'[q.msg].from = q.conn /\ messages'[q.msg].kind = "client"
             /\ \A k \in q.model .. Len(modelHeard'[q.conn]) : Lacks(modelHeard'[q.conn][k], q.msg)
             /\ q.msg # m
  <2>1. /\ q \in [conn : Conn, msg : 1 .. Len(messages), model : 1 .. Len(modelHeard[q.conn])]
        /\ messages[q.msg].from = q.conn /\ messages[q.msg].kind = "client"
        /\ \A k \in q.model .. Len(modelHeard[q.conn]) : Lacks(modelHeard[q.conn][k], q.msg)
    BY DEF RelaysSound
  <2>2. q.msg \in 1 .. Len(messages) /\ q.msg \in 1 .. Len(messages') BY <1>1, <2>1
  <2>3. q \in [conn : Conn, msg : 1 .. Len(messages'), model : 1 .. Len(modelHeard[q.conn])]
    BY <2>1, <2>2
  <2>4. QED BY <1>1, <1>2, <2>1, <2>2, <2>3
<1>4. ASSUME NEW q \in relaying', q \notin relaying
      PROVE  /\ q \in [conn : Conn, msg : 1 .. Len(messages'), model : 1 .. Len(modelHeard'[q.conn])]
             /\ messages'[q.msg].from = q.conn /\ messages'[q.msg].kind = "client"
             /\ \A k \in q.model .. Len(modelHeard'[q.conn]) : Lacks(modelHeard'[q.conn][k], q.msg)
             /\ q = [conn |-> c, msg |-> m, model |-> 1]
  <2>1. q = [conn |-> c, msg |-> m, model |-> 1] BY <1>4
  <2>2. r.kind = "client" /\ NumModels(c) > 0 BY <1>4
  <2>3. q.conn = c /\ q.msg = m /\ q.model = 1 /\ m \in 1 .. Len(messages') BY <1>1, <2>1
  <2>4. Len(modelHeard[c]) \in Nat /\ 1 \in 1 .. Len(modelHeard[c])
    BY <2>2 DEF NumModels, HasModels, MessageTypes
  <2>5. \A k \in 1 .. Len(modelHeard[c]) : Lacks(modelHeard[c][k], m)
    <3>1. ~Meant(c, m) BY <1>1 DEF Meant
    <3>2. QED BY <3>1 DEF GivenSound
  <2>6. r.from = c BY DEF Said
  <2>7. QED BY <1>1, <1>2, <2>1, <2>2, <2>3, <2>4, <2>5, <2>6
<1>5. \A q, s \in relaying' : q.msg = s.msg => q = s
  <2> SUFFICES ASSUME NEW q \in relaying', NEW s \in relaying', q.msg = s.msg PROVE q = s
    OBVIOUS
  <2>1. CASE q \in relaying /\ s \in relaying BY <2>1 DEF RelaysSound
  <2>2. CASE q \notin relaying /\ s \notin relaying BY <1>4, <2>2
  <2>3. CASE q \in relaying /\ s \notin relaying
    <3>1. q.msg # m BY <1>3, <2>3
    <3>2. s = [conn |-> c, msg |-> m, model |-> 1] BY <1>4, <2>3
    <3>3. QED BY <3>1, <3>2
  <2>4. CASE q \notin relaying /\ s \in relaying
    <3>1. s.msg # m BY <1>3, <2>4
    <3>2. q = [conn |-> c, msg |-> m, model |-> 1] BY <1>4, <2>4
    <3>3. QED BY <3>1, <3>2
  <2>5. QED BY <2>1, <2>2, <2>3, <2>4
<1>6. QED BY <1>3, <1>4, <1>5 DEF RelaysSound

LEMMA SaidStep ==
  ASSUME MessageInv, NEW c \in Conn, NEW r, NEW to \in SUBSET Conn, NEW m, Said(c, r, to, m),
         relaying' \subseteq relaying \union {[conn |-> c, msg |-> m, model |-> 1]},
         relaying' # relaying => r.kind = "client" /\ NumModels(c) > 0
  PROVE  MessageInv'
<1>1. MessageTypes'
  BY SaidFacts, SaidShown DEF MessageInv, MessageTypes, Said
<1>2. ChannelsSound' BY DEF MessageInv, ChannelsSound, Said
<1>3. QED BY <1>1, <1>2, SaidShown, SaidGiven, SaidTasks, SaidRelays DEF MessageInv

-----------------------------------------------------------------------------
(* The steps                                                               *)

LEMMA OnMessageStep ==
  ASSUME MessageInv, NEW c \in Conn, NEW h \in Channel, OnMessage(c, h)
  PROVE  MessageInv'
<1> DEFINE m == Len(messages) + 1
           r == [from |-> c, kind |-> "client", to |-> Listeners(c)]
<1>1. Listeners(c) \in SUBSET Conn BY ListenersType DEF MessageInv
<1>2. r \in Messages /\ r.from = c /\ r.to = Listeners(c) /\ r.kind = "client"
  BY <1>1 DEF Messages
<1>3. messages' = Append(messages, r) BY DEF OnMessage, Says
<1> HIDE DEF r
<1>4. Said(c, r, Listeners(c), m) BY <1>2, <1>3 DEF OnMessage, Said
<1>5. /\ relaying' \subseteq relaying \union {[conn |-> c, msg |-> m, model |-> 1]}
      /\ relaying' # relaying => NumModels(c) > 0
  BY DEF OnMessage
<1> HIDE DEF m
<1>6. QED BY <1>1, <1>2, <1>4, <1>5, SaidStep

LEMMA ReportsStep ==
  ASSUME MessageInv, NEW c \in Conn, Reports(c)
  PROVE  MessageInv'
<1> DEFINE m == Len(messages) + 1
           r == [from |-> c, kind |-> "report", to |-> Listeners(c)]
<1>1. Listeners(c) \in SUBSET Conn BY ListenersType DEF MessageInv
<1>2. r \in Messages /\ r.from = c /\ r.to = Listeners(c) /\ r.kind = "report"
  BY <1>1 DEF Messages
<1>3. messages' = Append(messages, r) /\ relaying' = relaying BY DEF Reports, Says
<1> HIDE DEF r
<1>4. Said(c, r, Listeners(c) \union {c}, m) BY <1>2, <1>3 DEF Reports, Said
<1> HIDE DEF m
<1>5. Listeners(c) \union {c} \in SUBSET Conn BY <1>1
<1>6. QED BY <1>3, <1>4, <1>5, SaidStep

(* A step that no model and no channel sees: somebody leaves, a channel opens,
   a handler gives up (connection.py:803-818, session.py:95-119). *)
LEMMA QuietStep ==
  ASSUME MessageInv, attached' \subseteq attached, relaying' \subseteq relaying,
         UNCHANGED <<accepted, messages, tasks, shown, modelHeard>>
  PROVE  MessageInv'
<1> USE DEF MessageInv
<1>1. MessageTypes' BY DEF MessageTypes
<1>2. ChannelsSound' BY DEF ChannelsSound
<1>3. ShownSound' BY DEF ShownSound
<1>4. \A d \in Conn : \A n : Meant(d, n) => Meant(d, n)' BY DEF Meant, NumModels, HasModels
<1>5. GivenSound'
  <2>1. modelHeard' = modelHeard OBVIOUS
  <2>2. GivenSound OBVIOUS
  <2>3. QED BY <1>4, <2>1, <2>2 DEF GivenSound
<1>6. RelaysSound' BY DEF RelaysSound
<1>7. TasksSound' BY DEF TasksSound, NumModels, HasModels
<1>8. QED BY <1>1, <1>2, <1>3, <1>5, <1>6, <1>7

LEMMA OnDataChannelStep ==
  ASSUME MessageInv, NEW c \in Conn, NEW h \in Channel, OnDataChannel(c, h)
  PROVE  MessageInv'
<1> USE DEF MessageInv
<1>1. UNCHANGED <<attached, messages, relaying, tasks, shown, modelHeard>> BY DEF OnDataChannel
<1>2. \/ accepted' = accepted
      \/ /\ accepted' = [accepted EXCEPT ![c] = @ \union {h}]
         /\ ~(Cardinality(accepted[c]) >= MaxChannels)
  BY DEF OnDataChannel
<1>3. CASE accepted' = accepted
  BY <1>1, <1>3, QuietStep
<1>4. CASE /\ accepted' = [accepted EXCEPT ![c] = @ \union {h}]
           /\ ~(Cardinality(accepted[c]) >= MaxChannels)
  <2>1. IsFiniteSet(accepted[c]) /\ Cardinality(accepted[c]) \in Nat
    BY FS_CardinalityType DEF ChannelsSound
  <2>2. IsFiniteSet(accepted[c] \union {h})
        /\ Cardinality(accepted[c] \union {h}) <= Cardinality(accepted[c]) + 1
        /\ Cardinality(accepted[c] \union {h}) \in Nat
    <3> DEFINE T == accepted[c]
    <3>1. IsFiniteSet(T) /\ Cardinality(T) \in Nat BY <2>1
    <3> HIDE DEF T
    <3>2. /\ IsFiniteSet(T \union {h})
          /\ Cardinality(T \union {h}) = IF h \in T THEN Cardinality(T) ELSE Cardinality(T) + 1
      BY <3>1, FS_AddElement
    <3>3. QED BY <3>1, <3>2 DEF T
  <2>3. \A d \in Conn : accepted'[d] = IF d = c THEN accepted[c] \union {h} ELSE accepted[d]
    BY <1>4 DEF MessageTypes
  <2>4. MessageTypes' BY <1>1, <1>4 DEF MessageTypes
  <2>5. ChannelsSound' BY <1>4, <2>1, <2>2, <2>3, MessageAssumption DEF ChannelsSound
  <2>6. \A d \in Conn : accepted[d] \subseteq accepted'[d] BY <2>3
  <2>7. ShownSound' BY <1>1, <2>6 DEF ShownSound
  <2>8. GivenSound'
    BY <1>1 DEF GivenSound, Meant, NumModels, HasModels
  <2>9. RelaysSound'
    BY <1>1 DEF RelaysSound
  <2>10. TasksSound'
    BY <1>1 DEF TasksSound, NumModels, HasModels
  <2>11. QED BY <2>4, <2>5, <2>7, <2>8, <2>9, <2>10
<1>5. QED BY <1>2, <1>3, <1>4

(* A model of c is given message m, which is meant for it and which it lacks;
   one who holds m for a model that it has reached has let go of it. *)
LEMMA GivenStep ==
  ASSUME MessageInv, NEW c \in Conn, NEW k \in 1 .. Len(modelHeard[c]), NEW m \in Nat,
         Hears(c, k, m), Meant(c, m), Lacks(modelHeard[c][k], m),
         UNCHANGED <<attached, accepted, messages, shown>>,
         \A r \in relaying' :
           /\ \E s \in relaying : r.conn = s.conn /\ r.msg = s.msg /\ r.model \in s.model .. Len(modelHeard[s.conn])
                                  /\ r \in [conn : Conn, msg : 1 .. Len(messages), model : Nat]
           /\ r.conn = c /\ r.msg = m => r.model > k,
         \A r, s \in relaying' : r.msg = s.msg => r = s,
         tasks' \subseteq tasks,
         \A t \in tasks' : ~(t.conn = c /\ t.model = k /\ t.msg = m)
  PROVE  MessageInv'
<1> USE DEF MessageInv
<1> DEFINE s == modelHeard[c][k]
           p == Append(s, m)
<1>1. s \in Seq(Nat) BY DEF MessageTypes
<1>2. /\ p \in Seq(Nat) /\ Len(p) = Len(s) + 1 /\ Len(s) \in Nat /\ p[Len(s) + 1] = m
      /\ \A i \in 1 .. Len(s) : p[i] = s[i]
  BY <1>1, AppendProperties
<1>3. /\ modelHeard' \in [Conn -> Seq(Seq(Nat))]
      /\ \A d \in Conn : Len(modelHeard'[d]) = Len(modelHeard[d])
      /\ modelHeard'[c][k] = p
      /\ \A d \in Conn : \A l \in 1 .. Len(modelHeard[d]) :
           d # c \/ l # k => modelHeard'[d][l] = modelHeard[d][l]
  <2>1. modelHeard' = [modelHeard EXCEPT ![c] = [modelHeard[c] EXCEPT ![k] = p]]
    BY DEF Hears
  <2>2. modelHeard[c] \in Seq(Seq(Nat)) /\ modelHeard \in [Conn -> Seq(Seq(Nat))] BY DEF MessageTypes
  <2> DEFINE u == [modelHeard[c] EXCEPT ![k] = p]
  <2>3. /\ u \in Seq(Seq(Nat)) /\ Len(u) = Len(modelHeard[c])
        /\ \A j \in 1 .. Len(modelHeard[c]) : u[j] = IF j = k THEN p ELSE modelHeard[c][j]
    BY <1>2, <2>2, ExceptSeq
  <2> HIDE DEF u, p
  <2>4. modelHeard' = [modelHeard EXCEPT ![c] = u] BY <2>1 DEF u
  <2>5. QED BY <2>2, <2>3, <2>4
<1> HIDE DEF s, p
<1>4. \A n : Lacks(p, n) <=> Lacks(s, n) /\ n # m
  <2> SUFFICES ASSUME NEW n PROVE Lacks(p, n) <=> Lacks(s, n) /\ n # m
    OBVIOUS
  <2>1. ASSUME Lacks(p, n) PROVE Lacks(s, n) /\ n # m
    <3>1. \A i \in 1 .. Len(s) : i \in 1 .. Len(p) /\ Len(s) + 1 \in 1 .. Len(p) BY <1>2
    <3>2. n # m BY <1>2, <2>1 DEF Lacks
    <3>3. QED BY <1>2, <2>1, <3>1, <3>2 DEF Lacks
  <2>2. ASSUME Lacks(s, n), n # m PROVE Lacks(p, n)
    <3>1. \A i \in 1 .. Len(p) : i \in 1 .. Len(s) \/ i = Len(s) + 1 BY <1>2
    <3>2. QED BY <1>2, <2>2, <3>1 DEF Lacks
  <2>3. QED BY <2>1, <2>2
<1>5. \A d \in Conn : NumModels(d)' = NumModels(d) BY <1>3 DEF NumModels, HasModels
<1>6. \A d \in Conn : \A n : Meant(d, n) => Meant(d, n)'
  <2> SUFFICES ASSUME NEW d \in Conn, NEW n, Meant(d, n) PROVE Meant(d, n)'
    OBVIOUS
  <2>1. n \in 1 .. Len(messages) /\ messages' = messages BY DEF Meant
  <2>2. messages[n].from \in Conn
    <3>1. messages[n] \in Messages BY <2>1 DEF MessageTypes
    <3>2. QED BY <3>1 DEF Messages
  <2>3. Len(modelHeard'[messages[n].from]) = Len(modelHeard[messages[n].from]) BY <1>3, <2>2
  <2>4. QED BY <2>1, <2>3 DEF Meant, NumModels, HasModels
<1>7. MessageTypes' BY <1>3 DEF MessageTypes
<1>8. ChannelsSound' /\ ShownSound' BY DEF ChannelsSound, ShownSound
<1>9. GivenSound'
  <2>1. ASSUME NEW d \in Conn, NEW l \in 1 .. Len(modelHeard'[d])
        PROVE  /\ \A i, j \in 1 .. Len(modelHeard'[d][l]) :
                    modelHeard'[d][l][i] = modelHeard'[d][l][j] => i = j
               /\ \A n : ~Lacks(modelHeard'[d][l], n) => Meant(d, n)'
    <3>1. l \in 1 .. Len(modelHeard[d]) BY <1>3
    <3>2. CASE d = c /\ l = k
      <4>1. modelHeard'[d][l] = p BY <1>3, <3>2
      <4>2. \A i, j \in 1 .. Len(s) : s[i] = s[j] => i = j BY DEF GivenSound, s
      <4>3. \A i \in 1 .. Len(s) : s[i] # m BY DEF Lacks, s
      <4>4. \A i, j \in 1 .. Len(p) : p[i] = p[j] => i = j
        <5> SUFFICES ASSUME NEW i \in 1 .. Len(p), NEW j \in 1 .. Len(p), p[i] = p[j] PROVE i = j
          OBVIOUS
        <5>1. CASE i \in 1 .. Len(s) /\ j \in 1 .. Len(s) BY <1>2, <4>2, <5>1
        <5>2. CASE i \in 1 .. Len(s) /\ j = Len(s) + 1 BY <1>2, <4>3, <5>2
        <5>3. CASE j \in 1 .. Len(s) /\ i = Len(s) + 1 BY <1>2, <4>3, <5>3
        <5>4. CASE i = Len(s) + 1 /\ j = Len(s) + 1 BY <5>4
        <5>5. QED BY <1>2, <5>1, <5>2, <5>3, <5>4
      <4>5. \A n : ~Lacks(s, n) => Meant(d, n) BY <3>2 DEF GivenSound, s
      <4>6. \A n : ~Lacks(p, n) => Meant(d, n) BY <1>4, <3>2, <4>5
      <4>7. QED BY <1>6, <4>1, <4>4, <4>6
    <3>3. CASE ~(d = c /\ l = k)
      <4>1. modelHeard'[d][l] = modelHeard[d][l] BY <1>3, <3>1, <3>3
      <4>2. QED BY <1>6, <3>1, <4>1 DEF GivenSound
    <3>4. QED BY <3>2, <3>3
  <2>2. QED BY <2>1 DEF GivenSound
<1>10. RelaysSound'
  <2>1. ASSUME NEW r \in relaying'
        PROVE  /\ r \in [conn : Conn, msg : 1 .. Len(messages'), model : 1 .. Len(modelHeard'[r.conn])]
               /\ messages'[r.msg].from = r.conn /\ messages'[r.msg].kind = "client"
               /\ \A l \in r.model .. Len(modelHeard'[r.conn]) : Lacks(modelHeard'[r.conn][l], r.msg)
    <3>1. PICK q \in relaying : /\ r.conn = q.conn /\ r.msg = q.msg
                                /\ r.model \in q.model .. Len(modelHeard[q.conn])
                                /\ r \in [conn : Conn, msg : 1 .. Len(messages), model : Nat]
      OBVIOUS
    <3>2. /\ q.model \in 1 .. Len(modelHeard[q.conn]) /\ q.conn \in Conn
          /\ messages[q.msg].from = q.conn /\ messages[q.msg].kind = "client"
          /\ \A l \in q.model .. Len(modelHeard[q.conn]) : Lacks(modelHeard[q.conn][l], q.msg)
      BY DEF RelaysSound
    <3>3. Len(modelHeard[q.conn]) \in Nat /\ Len(modelHeard'[q.conn]) = Len(modelHeard[q.conn])
      BY <1>3, <3>2 DEF MessageTypes
    <3>4. r.model \in 1 .. Len(modelHeard'[r.conn]) BY <3>1, <3>2, <3>3
    <3>5. ASSUME NEW l \in r.model .. Len(modelHeard'[r.conn])
          PROVE  Lacks(modelHeard'[r.conn][l], r.msg)
      <4>1. l \in q.model .. Len(modelHeard[q.conn]) /\ l \in 1 .. Len(modelHeard[q.conn])
        BY <3>1, <3>2, <3>3
      <4>2. Lacks(modelHeard[q.conn][l], q.msg) BY <3>2, <4>1
      <4>3. CASE q.conn = c /\ l = k
        <5>1. r.msg # m BY <3>1, <3>3, <3>4, <4>3
        <5>2. QED BY <1>3, <1>4, <3>1, <4>2, <4>3, <5>1 DEF s
      <4>4. CASE ~(q.conn = c /\ l = k) BY <1>3, <3>1, <3>2, <4>1, <4>2, <4>4
      <4>5. QED BY <4>3, <4>4
    <3>6. messages' = messages OBVIOUS
    <3>7. QED BY <3>1, <3>2, <3>4, <3>5, <3>6
  <2>2. QED BY <2>1 DEF RelaysSound
<1>11. TasksSound'
  <2>1. ASSUME NEW t \in tasks'
        PROVE  /\ t \in [conn : Conn, msg : 1 .. Len(messages'), model : 1 .. Len(modelHeard'[t.conn])]
               /\ t.conn \in messages'[t.msg].to
               /\ ~(Len(modelHeard'[messages'[t.msg].from]) > 0 \/ messages'[t.msg].from \in Simli)
               /\ Lacks(modelHeard'[t.conn][t.model], t.msg)
    <3>1. /\ t \in [conn : Conn, msg : 1 .. Len(messages), model : 1 .. Len(modelHeard[t.conn])]
          /\ t.conn \in messages[t.msg].to /\ ~HasModels(messages[t.msg].from)
          /\ Lacks(modelHeard[t.conn][t.model], t.msg)
      BY DEF TasksSound, NumModels, HasModels
    <3>2. t.conn \in Conn /\ t.model \in 1 .. Len(modelHeard[t.conn]) /\ t.msg \in 1 .. Len(messages)
      BY <3>1
    <3>3. messages[t.msg].from \in Conn
      <4>1. messages[t.msg] \in Messages BY <3>2 DEF MessageTypes
      <4>2. QED BY <4>1 DEF Messages
    <3>4. Lacks(modelHeard'[t.conn][t.model], t.msg)
      <4>1. CASE t.conn = c /\ t.model = k BY <1>3, <1>4, <3>1, <4>1 DEF s
      <4>2. CASE ~(t.conn = c /\ t.model = k) BY <1>3, <3>1, <3>2, <4>2
      <4>3. QED BY <4>1, <4>2
    <3>5. Len(modelHeard'[t.conn]) = Len(modelHeard[t.conn])
          /\ Len(modelHeard'[messages[t.msg].from]) = Len(modelHeard[messages[t.msg].from])
      BY <1>3, <3>2, <3>3
    <3>6. messages' = messages OBVIOUS
    <3>7. QED BY <3>1, <3>4, <3>5, <3>6 DEF NumModels, HasModels
  <2>2. QED BY <2>1 DEF TasksSound, NumModels, HasModels
<1>12. QED BY <1>7, <1>8, <1>9, <1>10, <1>11

LEMMA ModelTakesStep ==
  ASSUME MessageInv, NEW r \in relaying, ModelTakes(r)
  PROVE  MessageInv'
<1> USE DEF MessageInv
<1> DEFINE c == r.conn
           k == r.model
           m == r.msg
           n == [r EXCEPT !.model = k + 1]
<1>1. /\ r \in [conn : Conn, msg : 1 .. Len(messages), model : 1 .. Len(modelHeard[r.conn])]
      /\ messages[m].from = c /\ messages[m].kind = "client"
      /\ \A l \in k .. Len(modelHeard[c]) : Lacks(modelHeard[c][l], m)
  BY DEF RelaysSound
<1>2. /\ c \in Conn /\ k \in 1 .. Len(modelHeard[c]) /\ k \in Nat
      /\ Len(modelHeard[c]) \in Nat /\ m \in Nat /\ m \in 1 .. Len(messages)
  BY <1>1 DEF MessageTypes
<1>3. Meant(c, m) BY <1>1, <1>2 DEF Meant
<1>4. Lacks(modelHeard[c][k], m) BY <1>1, <1>2
<1>5. n.conn = c /\ n.msg = m /\ n.model = k + 1
      /\ n \in [conn : Conn, msg : 1 .. Len(messages), model : Nat]
  BY <1>1, <1>2
<1>6. relaying' = (relaying \ {r}) \union IF k < Len(modelHeard[c]) THEN {n} ELSE {}
  BY DEF ModelTakes, NumModels, HasModels
<1>7. /\ Hears(c, k, m) /\ UNCHANGED <<attached, accepted, messages, shown>> /\ tasks' = tasks
  BY DEF ModelTakes
<1>8. \A q \in relaying \ {r} : q.msg # m BY DEF RelaysSound
<1>9. \A q \in relaying :
        /\ q \in [conn : Conn, msg : 1 .. Len(messages), model : Nat]
        /\ q.model \in q.model .. Len(modelHeard[q.conn])
  <2> SUFFICES ASSUME NEW q \in relaying
               PROVE  /\ q \in [conn : Conn, msg : 1 .. Len(messages), model : Nat]
                      /\ q.model \in q.model .. Len(modelHeard[q.conn])
    OBVIOUS
  <2>1. q \in [conn : Conn, msg : 1 .. Len(messages), model : 1 .. Len(modelHeard[q.conn])]
    BY DEF RelaysSound
  <2>2. Len(modelHeard[q.conn]) \in Nat BY <2>1 DEF MessageTypes
  <2>3. q.model \in Nat /\ q.model \in q.model .. Len(modelHeard[q.conn]) BY <2>1, <2>2
  <2>4. QED BY <2>1, <2>3
<1> HIDE DEF n
<1>10. \A q \in relaying' : q \in relaying \ {r} \/ (q = n /\ k < Len(modelHeard[c])) BY <1>6
<1>11. ASSUME NEW q \in relaying'
       PROVE  /\ \E s \in relaying :
                   /\ q.conn = s.conn /\ q.msg = s.msg
                   /\ q.model \in s.model .. Len(modelHeard[s.conn])
                   /\ q \in [conn : Conn, msg : 1 .. Len(messages), model : Nat]
              /\ q.conn = c /\ q.msg = m => q.model > k
  <2>1. CASE q \in relaying \ {r} BY <1>8, <1>9, <2>1
  <2>2. CASE q = n /\ k < Len(modelHeard[c])
    <3>1. k + 1 \in k .. Len(modelHeard[c]) BY <1>2, <2>2
    <3>2. QED BY <1>2, <1>5, <2>2, <3>1
  <2>3. QED BY <1>10, <2>1, <2>2
<1>12. \A q, s \in relaying' : q.msg = s.msg => q = s
  <2> SUFFICES ASSUME NEW q \in relaying', NEW s \in relaying', q.msg = s.msg PROVE q = s
    OBVIOUS
  <2>1. CASE q \in relaying \ {r} /\ s \in relaying \ {r} BY <2>1 DEF RelaysSound
  <2>2. CASE q = n \/ s = n BY <1>5, <1>8, <1>10, <2>2
  <2>3. QED BY <1>10, <2>1, <2>2
<1>13. \A t \in tasks : ~(t.conn = c /\ t.model = k /\ t.msg = m)
  <2> SUFFICES ASSUME NEW t \in tasks, t.msg = m PROVE t.conn # c
    OBVIOUS
  <2>1. ~HasModels(messages[t.msg].from) BY DEF TasksSound, NumModels, HasModels
  <2>2. QED BY <1>1, <1>2, <2>1 DEF NumModels, HasModels
<1> HIDE DEF c, k, m
<1>14. QED BY <1>2, <1>3, <1>4, <1>7, <1>11, <1>12, <1>13, GivenStep

LEMMA TaskSendsStep ==
  ASSUME MessageInv, NEW t \in tasks, TaskSends(t)
  PROVE  MessageInv'
<1> USE DEF MessageInv
<1> DEFINE c == t.conn
           k == t.model
           m == t.msg
<1>1. /\ t \in [conn : Conn, msg : 1 .. Len(messages), model : 1 .. Len(modelHeard[t.conn])]
      /\ c \in messages[m].to /\ ~HasModels(messages[m].from)
      /\ Lacks(modelHeard[c][k], m)
  BY DEF TasksSound, NumModels, HasModels
<1>2. /\ c \in Conn /\ k \in 1 .. Len(modelHeard[c]) /\ k \in Nat
      /\ Len(modelHeard[c]) \in Nat /\ m \in Nat /\ m \in 1 .. Len(messages)
  BY <1>1 DEF MessageTypes
<1>3. Meant(c, m) BY <1>1, <1>2 DEF Meant, NumModels, HasModels
<1>4. /\ Hears(c, k, m) /\ UNCHANGED <<attached, accepted, messages, shown>>
      /\ tasks' = tasks \ {t} /\ relaying' = relaying
  BY DEF TaskSends
<1>5. ASSUME NEW q \in relaying'
      PROVE  /\ \E s \in relaying :
                  /\ q.conn = s.conn /\ q.msg = s.msg
                  /\ q.model \in s.model .. Len(modelHeard[s.conn])
                  /\ q \in [conn : Conn, msg : 1 .. Len(messages), model : Nat]
             /\ q.conn = c /\ q.msg = m => q.model > k
  <2>1. /\ q \in [conn : Conn, msg : 1 .. Len(messages), model : 1 .. Len(modelHeard[q.conn])]
        /\ messages[q.msg].from = q.conn
    BY <1>4 DEF RelaysSound
  <2>2. Len(modelHeard[q.conn]) \in Nat BY <2>1 DEF MessageTypes
  <2>3. q.model \in Nat /\ q.model \in q.model .. Len(modelHeard[q.conn])
        /\ Len(modelHeard[q.conn]) # 0
    BY <2>1, <2>2
  <2>4. q.msg # m BY <1>1, <2>1, <2>2, <2>3 DEF NumModels, HasModels
  <2>5. q \in [conn : Conn, msg : 1 .. Len(messages), model : Nat] BY <2>1, <2>3
  <2>6. QED BY <1>4, <2>3, <2>4, <2>5
<1>6. \A q, s \in relaying' : q.msg = s.msg => q = s BY <1>4 DEF RelaysSound
<1>7. \A u \in tasks' : ~(u.conn = c /\ u.model = k /\ u.msg = m)
  <2> SUFFICES ASSUME NEW u \in tasks', u.conn = c, u.model = k, u.msg = m PROVE u = t
    BY <1>4
  <2>1. /\ t = [conn |-> t.conn, msg |-> t.msg, model |-> t.model]
        /\ u = [conn |-> u.conn, msg |-> u.msg, model |-> u.model]
    BY <1>4 DEF TasksSound
  <2>2. QED BY <2>1
<1> HIDE DEF c, k, m
<1>8. /\ Lacks(modelHeard[c][k], m) /\ tasks' \subseteq tasks
      /\ UNCHANGED <<attached, accepted, messages, shown>> /\ Hears(c, k, m)
  BY <1>1, <1>4
<1>9. QED BY <1>2, <1>3, <1>5, <1>6, <1>7, <1>8, GivenStep

LEMMA NothingHeard ==
  ASSUME NEW N \in Nat
  PROVE  /\ [k \in 1 .. N |-> <<>>] \in Seq(Seq(Nat))
         /\ Len([k \in 1 .. N |-> <<>>]) = N
<1> DEFINE e == [k \in 1 .. N |-> <<>>]
<1>1. e \in [1 .. N -> Seq(Nat)] /\ DOMAIN e = 1 .. N OBVIOUS
<1> HIDE DEF e
<1>2. e \in Seq(Seq(Nat)) BY <1>1
<1>3. Len(e) \in Nat /\ DOMAIN e = 1 .. Len(e) BY <1>2
<1>4. Len(e) = N BY <1>1, <1>3
<1>5. QED BY <1>2, <1>4 DEF e

LEMMA MessageStarts ==
  ASSUME MessageInit
  PROVE  MessageInv
<1> USE DEF MessageInit
<1>1. PICK n \in Counts : modelHeard = [c \in Conn |-> [k \in 1 .. n[c] |-> <<>>]]
  OBVIOUS
<1>2. \A c \in Conn : n[c] \in Nat BY MessageAssumption
<1>3. \A c \in Conn : modelHeard[c] \in Seq(Seq(Nat)) /\ Len(modelHeard[c]) = n[c]
  <2> SUFFICES ASSUME NEW c \in Conn
               PROVE  modelHeard[c] \in Seq(Seq(Nat)) /\ Len(modelHeard[c]) = n[c]
    OBVIOUS
  <2>1. n[c] \in Nat /\ modelHeard[c] = [k \in 1 .. n[c] |-> <<>>] BY <1>1, <1>2
  <2>2. QED BY <2>1, NothingHeard
<1>4. modelHeard \in [Conn -> Seq(Seq(Nat))] BY <1>1, <1>3
<1>5. shown \in [Conn -> [Channel -> Seq(Nat)]] OBVIOUS
<1>6. messages \in Seq(Messages) /\ accepted \in [Conn -> SUBSET Channel] OBVIOUS
<1>7. MessageTypes BY <1>4, <1>5, <1>6 DEF MessageTypes
<1>8. ChannelsSound
  <2>1. IsFiniteSet({}) /\ Cardinality({}) = 0 BY FS_EmptySet
  <2>2. \A c \in Conn : accepted[c] = {} OBVIOUS
  <2>3. 0 <= MaxChannels BY MessageAssumption
  <2>4. QED BY <2>1, <2>2, <2>3 DEF ChannelsSound
<1>9. ShownSound
  <2>1. \A c \in Conn, h \in Channel : shown[c][h] = <<>> OBVIOUS
  <2>2. 1 .. Len(<<>>) = {} OBVIOUS
  <2>3. QED BY <2>1, <2>2 DEF ShownSound
<1>10. GivenSound
  <2>1. \A c \in Conn : \A k \in 1 .. Len(modelHeard[c]) : modelHeard[c][k] = <<>>
    BY <1>1, <1>3
  <2>2. 1 .. Len(<<>>) = {} OBVIOUS
  <2>3. QED BY <2>1, <2>2 DEF GivenSound, Lacks
<1>11. RelaysSound /\ TasksSound BY DEF RelaysSound, TasksSound
<1>12. QED BY <1>7, <1>8, <1>9, <1>10, <1>11 DEF MessageInv

LEMMA MessageSteps ==
  ASSUME MessageInv, [MessageNext]_messageVars
  PROVE  MessageInv'
<1>1. ASSUME NEW c \in Conn, NEW h \in Channel, OnDataChannel(c, h) PROVE MessageInv'
  BY <1>1, OnDataChannelStep
<1>2. ASSUME NEW c \in Conn, NEW h \in Channel, ChannelChanges(c, h) PROVE MessageInv'
  BY <1>2, QuietStep DEF ChannelChanges
<1>3. ASSUME NEW c \in Conn, NEW h \in Channel, OnMessage(c, h) PROVE MessageInv'
  BY <1>3, OnMessageStep
<1>4. ASSUME NEW c \in Conn, Reports(c) PROVE MessageInv' BY <1>4, ReportsStep
<1>5. ASSUME NEW c \in Conn, MessageLeave(c) PROVE MessageInv'
  BY <1>5, QuietStep DEF MessageLeave
<1>6. ASSUME NEW r \in relaying, ModelTakes(r) PROVE MessageInv' BY <1>6, ModelTakesStep
<1>7. ASSUME NEW r \in relaying, ModelRefuses(r) PROVE MessageInv'
  BY <1>7, QuietStep DEF ModelRefuses
<1>8. ASSUME NEW t \in tasks, TaskSends(t) PROVE MessageInv' BY <1>8, TaskSendsStep
<1>9. CASE UNCHANGED messageVars BY <1>9, QuietStep DEF messageVars
<1>10. QED BY <1>1, <1>2, <1>3, <1>4, <1>5, <1>6, <1>7, <1>8, <1>9 DEF MessageNext

(* HeardOnce: a channel shows each message at most once and in order, only what
   its connection may see, and a model is given a message at most once, and none
   of a member with models of its own (connection.py:546-565, 664-687, 803-818). *)
THEOREM AlwaysHeardOnce == MessageSpec => []HeardOnce
<1>1. MessageInit => MessageInv BY MessageStarts
<1>2. MessageInv /\ [MessageNext]_messageVars => MessageInv' BY MessageSteps
<1>3. MessageInv => HeardOnce BY SoundHeardOnce
<1>4. QED BY <1>1, <1>2, <1>3, PTL DEF MessageSpec
=============================================================================
