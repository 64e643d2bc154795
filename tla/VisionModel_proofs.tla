------------------------- MODULE VisionModel_proofs -------------------------
(***************************************************************************)
(* Proofs about the vision providers, for any number of instances, any     *)
(* sampling rate and queue bound, and any labels.                          *)
(***************************************************************************)
EXTENDS VisionModel, SequenceTheorems, TLAPS

(* The finally clause hands the flight over from a frame in flight to the
   pending one (vision_model.py:172-178). *)
LEMMA FinishHandsOver ==
  ASSUME VisionInv, NEW p \in Provider, NEW f \in jobs[p], Finish(p, f)
  PROVE  /\ jobs' \in [Provider -> SUBSET Frames]
         /\ processing' \in [Provider -> BOOLEAN]
         /\ pending' \in [Provider -> 0 .. MaxFrames]
         /\ jobs'[p] = {pending[p]} \ {0} /\ pending'[p] = 0
         /\ processing'[p] = (pending[p] # 0)
         /\ \A q \in Provider : q # p =>
              jobs'[q] = jobs[q] /\ pending'[q] = pending[q] /\ processing'[q] = processing[q]
<1> USE DEF VisionInv, TypeOK
<1>1. jobs[p] \ {f} = {} BY DEF SingleFlight
<1>2. {pending[p]} \ {0} \subseteq Frames BY VisionAssumption DEF Frames
<1>3. jobs' = [jobs EXCEPT ![p] = {pending[p]} \ {0}]
  BY <1>1 DEF Finish
<1>4. jobs' \in [Provider -> SUBSET Frames] /\ jobs'[p] = {pending[p]} \ {0}
      /\ \A q \in Provider : q # p => jobs'[q] = jobs[q]
  BY <1>2, <1>3
<1>5. /\ processing' \in [Provider -> BOOLEAN] /\ pending' \in [Provider -> 0 .. MaxFrames]
      /\ pending'[p] = 0 /\ processing'[p] = (pending[p] # 0)
      /\ \A q \in Provider : q # p => pending'[q] = pending[q] /\ processing'[q] = processing[q]
  BY VisionAssumption DEF Finish
<1>6. QED BY <1>4, <1>5

(* After it, every provider still has at most one frame in flight, older than
   its pending one, and none that has not arrived. *)
LEMMA FinishFlights ==
  ASSUME VisionInv, NEW p \in Provider, NEW f \in jobs[p], Finish(p, f), UNCHANGED count
  PROVE  /\ SingleFlight' /\ PendingIsNewer'
         /\ \A q \in Provider : pending'[q] <= count'[q] /\ \A g \in jobs'[q] : g <= count'[q]
<1> USE DEF VisionInv, TypeOK
<1>0. \A q \in Provider : q # p =>
        jobs'[q] = jobs[q] /\ pending'[q] = pending[q] /\ processing'[q] = processing[q]
  BY FinishHandsOver
<1>a. jobs'[p] = {pending[p]} \ {0} /\ pending'[p] = 0 /\ processing'[p] = (pending[p] # 0)
  BY FinishHandsOver
<1>1. ASSUME NEW q \in Provider
      PROVE  (processing'[q] <=> jobs'[q] # {}) /\ \A g, h \in jobs'[q] : g = h
  <2>1. CASE q = p BY <1>a, <2>1
  <2>2. CASE q # p BY <1>0, <2>2 DEF SingleFlight
  <2>3. QED BY <2>1, <2>2
<1>2. \A q \in Provider : pending'[q] # 0 =>
        jobs'[q] # {} /\ \A g \in jobs'[q] : g < pending'[q]
  BY <1>0, <1>a DEF PendingIsNewer
<1>3. ASSUME NEW q \in Provider
      PROVE  pending'[q] <= count'[q] /\ \A g \in jobs'[q] : g <= count'[q]
  <2>1. count'[q] \in Nat /\ pending[q] <= count[q] BY VisionAssumption
  <2>2. CASE q = p BY <1>a, <2>1, <2>2
  <2>3. CASE q # p BY <1>0, <2>3
  <2>4. QED BY <2>2, <2>3
<1>4. QED BY <1>1, <1>2, <1>3 DEF SingleFlight, PendingIsNewer

(* When the first in line has finished, the rest of the line is intact. *)
LEMMA LineAdvances ==
  ASSUME VisionInv, line # <<>>, line' = Tail(line),
         Finish(Head(line)[1], Head(line)[2])
  PROVE  /\ Head(line)[1] \in Provider /\ Head(line)[2] \in jobs[Head(line)[1]]
         /\ line' \in Seq(Provider \X Frames)
         /\ \A i \in 1 .. Len(line') : line'[i][2] \in jobs'[line'[i][1]]
         /\ \A i, j \in 1 .. Len(line') : line'[i][1] = line'[j][1] => i = j
<1> USE DEF VisionInv, TypeOK
<1>1. Len(line) \in Nat \ {0} /\ Head(line) = line[1] /\ line[1] \in Provider \X Frames
  OBVIOUS
<1>2. Head(line)[1] \in Provider /\ Head(line)[2] \in jobs[Head(line)[1]]
  <2>1. 1 \in 1 .. Len(line) BY <1>1
  <2>2. line[1][1] \in Provider BY <1>1
  <2>3. line[1][2] \in jobs[line[1][1]] BY <2>1
  <2>4. QED BY <1>1, <2>2, <2>3
<1>3. line' \in Seq(Provider \X Frames) /\ Len(line') = Len(line) - 1
      /\ \A i \in 1 .. Len(line') : i + 1 \in 1 .. Len(line) /\ line'[i] = line[i + 1]
  BY <1>1
<1>4. ASSUME NEW i \in 1 .. Len(line') PROVE line'[i][2] \in jobs'[line'[i][1]]
  <2>0. i \in Nat /\ i >= 1 BY <1>1, <1>3
  <2>1. i + 1 \in 1 .. Len(line) /\ 1 \in 1 .. Len(line) /\ i + 1 # 1 /\ line'[i] = line[i + 1]
    BY <1>1, <1>3, <2>0
  <2>2. line'[i][1] # Head(line)[1] BY <1>1, <2>1
  <2>3. line[i + 1] \in Provider \X Frames BY <2>1
  <2>4. line'[i][1] \in Provider /\ line'[i][2] \in jobs[line'[i][1]] BY <2>1, <2>3
  <2>5. QED BY <1>2, <2>2, <2>4, FinishHandsOver
<1>5. ASSUME NEW i \in 1 .. Len(line'), NEW j \in 1 .. Len(line'), line'[i][1] = line'[j][1]
      PROVE  i = j
  <2>1. i + 1 \in 1 .. Len(line) /\ j + 1 \in 1 .. Len(line)
        /\ line'[i] = line[i + 1] /\ line'[j] = line[j + 1]
    BY <1>3
  <2>2. i + 1 = j + 1 BY <1>5, <2>1
  <2>3. QED BY <1>3, <2>2
<1>6. QED BY <1>2, <1>3, <1>4, <1>5
(* The entries of the line that are not p's are not touched by p's finish. *)
LEMMA LineKept ==
  ASSUME VisionInv, NEW p \in Provider, NEW f \in jobs[p], Finish(p, f), UNCHANGED line,
         \A i \in 1 .. Len(line) : line[i] # <<p, f>>
  PROVE  \A i \in 1 .. Len(line) : line[i][2] \in jobs'[line[i][1]]
<1> USE DEF VisionInv, TypeOK
<1> SUFFICES ASSUME NEW i \in 1 .. Len(line) PROVE line[i][2] \in jobs'[line[i][1]]
  OBVIOUS
<1>1. line[i] \in Provider \X Frames /\ line[i][2] \in jobs[line[i][1]] /\ line[i] # <<p, f>>
  OBVIOUS
<1>2. line[i][1] # p BY <1>1 DEF SingleFlight
<1>3. QED BY <1>1, <1>2, FinishHandsOver

(* A step that touches neither the flights nor the line. *)
LEMMA QuietVision ==
  ASSUME VisionInv, UNCHANGED <<flightVars, line, count>>, TypeOK'
  PROVE  VisionInv'
  BY DEF VisionInv, flightVars, SingleFlight, PendingIsNewer

(* A full queue loses its head to the new frame (utils.py:86-92). *)
LEMMA PutFacts ==
  ASSUME NEW q \in Seq(Frames), NEW f \in Frames
  PROVE  LET lost == IF Len(q) >= QueueMax THEN 1 ELSE 0 IN
         /\ Put(q, f) \in Seq(Frames)
         /\ Len(q) \in Nat /\ Len(q) >= lost
         /\ Len(Put(q, f)) = Len(q) + 1 - lost /\ Put(q, f)[Len(q) + 1 - lost] = f
         /\ \A i \in 1 .. Len(q) - lost : Put(q, f)[i] = q[i + lost]
<1>1. CASE Len(q) >= QueueMax
  <2>1. Len(q) \in Nat \ {0} /\ q # <<>> BY <1>1, VisionAssumption
  <2> DEFINE room == Tail(q)
  <2>2. /\ room \in Seq(Frames) /\ Len(room) = Len(q) - 1
        /\ \A i \in 1 .. Len(q) - 1 : room[i] = q[i + 1]
    BY <2>1, HeadTailProperties
  <2>3. Put(q, f) = Append(room, f) BY <1>1 DEF Put
  <2> HIDE DEF room
  <2>4. QED BY <1>1, <2>1, <2>2, <2>3, AppendProperties
<1>2. CASE ~(Len(q) >= QueueMax)
  <2>1. Put(q, f) = Append(q, f) BY <1>2 DEF Put
  <2>2. QED BY <1>2, <2>1, AppendProperties
<1>3. QED BY <1>1, <1>2

LEMMA SendInv ==
  ASSUME VisionInv, NEW p \in Provider, Send(p)
  PROVE  VisionInv'
<1> USE DEF VisionInv
<1> DEFINE f == count[p] + 1
<1>1. f \in Frames /\ count' = [count EXCEPT ![p] = f] /\ count[p] \in Nat
  BY VisionAssumption DEF Send, TypeOK, Frames
<1>2. out' \in [Provider -> Seq(Frames)] /\ came' \in [Provider -> SUBSET Frames]
  <2>1. out[p] \in Seq(Frames) /\ came[p] \subseteq Frames BY DEF TypeOK
  <2>2. Put(out[p], f) \in Seq(Frames) BY <1>1, <2>1, PutFacts
  <2>3. CASE outputOn[p]
    <3>1. out' = [out EXCEPT ![p] = Put(out[p], f)] /\ came' = [came EXCEPT ![p] = came[p] \union {f}]
      BY <2>3 DEF Send, Forward
    <3> HIDE DEF f
    <3>2. QED BY <1>1, <2>1, <2>2, <3>1 DEF TypeOK
  <2>4. CASE ~outputOn[p] BY <2>4 DEF Send, Forward, outputVars, TypeOK
  <2>5. QED BY <2>3, <2>4
<1>3. UNCHANGED <<loadTask, ready, line, inputOn, outputOn>>
  BY DEF Send, switchVars
<1>4. count' \in [Provider -> 0 .. MaxFrames]
  BY <1>1, VisionAssumption DEF TypeOK, Frames
<1>5. \A q \in Provider : count'[q] >= count[q] /\ count'[q] \in Nat /\ count[q] \in Nat
  BY <1>1, VisionAssumption DEF TypeOK
<1>6. CASE inputOn[p] /\ Sampled(p, f) /\ Pick(p, f) /\ UNCHANGED detectionVars
  <2>1. CASE processing[p]
    <3>1. pending' = [pending EXCEPT ![p] = f] /\ UNCHANGED <<processing, jobs>>
      BY <1>6, <2>1 DEF Pick
    <3>2. TypeOK' BY <1>1, <1>2, <1>3, <1>4, <1>6, <3>1 DEF TypeOK, Frames, detectionVars
    <3>3. SingleFlight' /\ jobs[p] # {} BY <2>1, <3>1 DEF SingleFlight
    <3>4. \A g \in jobs[p] : g < f BY <1>1 DEF TypeOK, Frames
    <3>5. PendingIsNewer' BY <1>1, <3>1, <3>3, <3>4 DEF PendingIsNewer, TypeOK
    <3>6. ASSUME NEW q \in Provider
          PROVE  pending'[q] <= count'[q] /\ \A g \in jobs'[q] : g <= count'[q]
      BY <1>1, <1>5, <3>1, VisionAssumption DEF TypeOK, Frames
    <3>7. QED BY <1>3, <3>1, <3>2, <3>3, <3>5, <3>6
  <2>2. CASE ~processing[p]
    <3>1. /\ processing' = [processing EXCEPT ![p] = TRUE]
          /\ jobs' = [jobs EXCEPT ![p] = @ \union {f}] /\ UNCHANGED pending
      BY <1>6, <2>2 DEF Pick
    <3>2. jobs[p] = {} /\ pending[p] = 0
      BY <2>2 DEF SingleFlight, PendingIsNewer
    <3>3. jobs' = [jobs EXCEPT ![p] = {f}] BY <3>1, <3>2
    <3> HIDE DEF f
    <3>4. TypeOK' BY <1>1, <1>2, <1>3, <1>4, <1>6, <3>1, <3>3 DEF TypeOK, detectionVars
    <3>5. SingleFlight' BY <3>1, <3>3 DEF SingleFlight, TypeOK
    <3>6. PendingIsNewer' BY <3>1, <3>2, <3>3 DEF PendingIsNewer, TypeOK
    <3>7. ASSUME NEW q \in Provider
          PROVE  pending'[q] <= count'[q] /\ \A g \in jobs'[q] : g <= count'[q]
      BY <1>1, <1>5, <3>1, <3>2, <3>3, VisionAssumption DEF TypeOK, Frames
    <3>8. \A i \in 1 .. Len(line) : line[i][2] \in jobs'[line[i][1]]
      <4>1. \A i \in 1 .. Len(line) : line[i][1] # p BY <3>2
      <4>2. \A i \in 1 .. Len(line) : line[i][1] \in Provider BY DEF TypeOK
      <4>3. QED BY <3>3, <4>1, <4>2 DEF TypeOK
    <3>9. QED BY <1>3, <3>4, <3>5, <3>6, <3>7, <3>8
  <2>3. QED BY <2>1, <2>2
<1>7. CASE inputOn[p] /\ ~Sampled(p, f) /\ UNCHANGED <<flightVars, detectionVars>>
  <2>1. TypeOK' BY <1>2, <1>3, <1>4, <1>7 DEF TypeOK, flightVars, detectionVars
  <2>2. ASSUME NEW q \in Provider
        PROVE  pending'[q] <= count'[q] /\ \A g \in jobs'[q] : g <= count'[q]
    BY <1>5, <1>7, VisionAssumption DEF TypeOK, Frames, flightVars
  <2>3. QED BY <1>3, <1>7, <2>1, <2>2 DEF flightVars, SingleFlight, PendingIsNewer
<1>8. CASE ~inputOn[p] /\ Forget(p)
  <2>1. pending' = [pending EXCEPT ![p] = 0] /\ UNCHANGED <<processing, jobs>>
    BY <1>8 DEF Forget
  <2>2. TypeOK'
    <3>1. pending' \in [Provider -> 0 .. MaxFrames] BY <2>1, VisionAssumption DEF TypeOK
    <3>2. overlay' = [overlay EXCEPT ![p] = {}] /\ last' = [last EXCEPT ![p] = NoDetections]
          /\ heard' = heard
      BY <1>8 DEF Forget
    <3>3. overlay' \in [Provider -> SUBSET Labels]
          /\ last' \in [Provider -> (SUBSET Labels) \union {NoDetections}]
      BY <3>2 DEF TypeOK
    <3>4. QED BY <1>2, <1>3, <1>4, <2>1, <3>1, <3>2, <3>3 DEF TypeOK
  <2>3. ASSUME NEW q \in Provider
        PROVE  pending'[q] <= count'[q] /\ \A g \in jobs'[q] : g <= count'[q]
    BY <1>5, <2>1, VisionAssumption DEF TypeOK, Frames
  <2>4. SingleFlight' /\ PendingIsNewer'
    BY <2>1 DEF SingleFlight, PendingIsNewer, TypeOK
  <2>5. QED BY <1>3, <2>1, <2>2, <2>3, <2>4
<1>9. QED BY <1>6, <1>7, <1>8 DEF Send

LEMMA BeginInv ==
  ASSUME VisionInv, NEW p \in Provider, NEW f \in Frames, Begin(p, f)
  PROVE  VisionInv'
<1> USE DEF VisionInv
<1>1. f \in jobs[p] /\ UNCHANGED <<loadTask, ready, count, inputOn, outputOn, out, came, overlay, last, heard>>
  BY DEF Begin, Enqueue, switchVars, outputVars, detectionVars
<1>2. CASE ready[p]
  <2>1. line' = Append(line, <<p, f>>) /\ UNCHANGED <<processing, pending, jobs>>
    BY <1>2 DEF Begin, Enqueue, flightVars
  <2>2. line \in Seq(Provider \X Frames) /\ line' \in Seq(Provider \X Frames)
        /\ Len(line') = Len(line) + 1 /\ Len(line) \in Nat
        /\ line'[Len(line) + 1] = <<p, f>>
        /\ \A i \in 1 .. Len(line) : line'[i] = line[i]
    BY <2>1 DEF TypeOK
  <2>3. TypeOK' BY <1>1, <2>1, <2>2 DEF TypeOK
  <2>4. \A i \in 1 .. Len(line) : line[i][1] # p
    <3> SUFFICES ASSUME NEW i \in 1 .. Len(line), line[i][1] = p PROVE FALSE
      OBVIOUS
    <3>1. line[i] \in Provider \X Frames /\ line[i][2] \in jobs[p] BY <2>2
    <3>2. line[i] = <<p, f>> BY <1>1, <3>1 DEF SingleFlight
    <3>3. QED BY <3>2 DEF Begin
  <2>5. \A i \in 1 .. Len(line') : line'[i][2] \in jobs'[line'[i][1]]
    <3> SUFFICES ASSUME NEW i \in 1 .. Len(line') PROVE line'[i][2] \in jobs'[line'[i][1]]
      OBVIOUS
    <3>1. CASE i = Len(line) + 1 BY <1>1, <2>1, <2>2, <3>1
    <3>2. CASE i # Len(line) + 1
      <4>1. i \in 1 .. Len(line) BY <2>2, <3>2
      <4>2. QED BY <2>1, <2>2, <4>1
    <3>3. QED BY <3>1, <3>2
  <2>6. ASSUME NEW i \in 1 .. Len(line'), NEW j \in 1 .. Len(line'), line'[i][1] = line'[j][1]
        PROVE  i = j
    <3>1. i \in 1 .. Len(line) \/ i = Len(line) + 1 BY <2>2
    <3>2. j \in 1 .. Len(line) \/ j = Len(line) + 1 BY <2>2
    <3>3. QED BY <2>2, <2>4, <2>6, <3>1, <3>2
  <2>7. QED
    BY <1>1, <2>1, <2>3, <2>5, <2>6 DEF SingleFlight, PendingIsNewer
<1>3. CASE ~ready[p]
  <2>1. Finish(p, f) /\ UNCHANGED line BY <1>3 DEF Begin
  <2>2. TypeOK' BY <1>1, <2>1, FinishHandsOver DEF TypeOK
  <2>3. \A i \in 1 .. Len(line) : line[i] # <<p, f>> BY DEF Begin
  <2>4. \A i \in 1 .. Len(line) : line[i][2] \in jobs'[line[i][1]]
    BY <1>1, <2>1, <2>3, LineKept
  <2>5. QED BY <1>1, <2>1, <2>2, <2>4, FinishFlights
<1>4. QED BY <1>2, <1>3

(* The end of the executor call of the first in line. *)
LEMMA FirstFinishes ==
  ASSUME VisionInv, line # <<>>, line' = Tail(line),
         Finish(Head(line)[1], Head(line)[2]),
         UNCHANGED <<loadTask, ready, count, inputOn, outputOn, out, came>>,
         overlay' \in [Provider -> SUBSET Labels],
         last' \in [Provider -> (SUBSET Labels) \union {NoDetections}],
         heard' \in [Provider -> (SUBSET Labels) \union {NoDetections}]
  PROVE  VisionInv'
<1> DEFINE p == Head(line)[1]
           f == Head(line)[2]
<1>1. p \in Provider /\ f \in jobs[p] BY LineAdvances
<1>2. TypeOK'
  BY <1>1, LineAdvances, FinishHandsOver DEF TypeOK, VisionInv
<1>3. /\ SingleFlight' /\ PendingIsNewer'
      /\ \A q \in Provider : pending'[q] <= count'[q] /\ \A g \in jobs'[q] : g <= count'[q]
  BY <1>1, FinishFlights
<1>4. QED BY <1>2, <1>3, LineAdvances DEF VisionInv

LEMMA VisionInductive ==
  /\ Init => VisionInv
  /\ VisionInv /\ [Next]_vars => VisionInv'
<1>1. ASSUME Init PROVE VisionInv
  <2>1. line = <<>> /\ line \in Seq(Provider \X Frames) /\ Len(line) = 0
    BY <1>1 DEF Init
  <2>2. TypeOK
    <3>1. /\ [p \in Provider |-> {}] \in [Provider -> SUBSET Labels]
          /\ [p \in Provider |-> NoDetections] \in [Provider -> (SUBSET Labels) \union {NoDetections}]
          /\ [p \in Provider |-> <<>>] \in [Provider -> Seq(Frames)]
      OBVIOUS
    <3>2. overlay \in [Provider -> SUBSET Labels]
          /\ last \in [Provider -> (SUBSET Labels) \union {NoDetections}]
          /\ heard \in [Provider -> (SUBSET Labels) \union {NoDetections}]
          /\ out \in [Provider -> Seq(Frames)]
          /\ came \in [Provider -> SUBSET Frames]
      BY <1>1, <3>1 DEF Init
    <3>3. QED BY <1>1, <2>1, <3>2, VisionAssumption DEF Init, TypeOK
  <2>3. SingleFlight /\ PendingIsNewer BY <1>1 DEF Init, SingleFlight, PendingIsNewer
  <2>4. \A p \in Provider : pending[p] <= count[p] /\ \A f \in jobs[p] : f <= count[p]
    BY <1>1 DEF Init
  <2>5. QED BY <2>1, <2>2, <2>3, <2>4 DEF VisionInv
<1>2. ASSUME VisionInv, [Next]_vars PROVE VisionInv'
  <2>1. CASE UNCHANGED vars
    BY <1>2, <2>1 DEF vars, VisionInv, TypeOK, SingleFlight, PendingIsNewer
  <2>2. ASSUME NEW p \in Provider,
               Connect(p) \/ Loaded(p) \/ Close(p) \/ SwitchInput(p) \/ SwitchOutput(p) \/ Recv(p)
        PROVE  VisionInv'
    <3>1. UNCHANGED <<flightVars, line, count, overlay, last, heard>>
      BY <2>2 DEF Connect, Loaded, Close, SwitchInput, SwitchOutput, Recv, detectionVars
    <3>2. Recv(p) => out' \in [Provider -> Seq(Frames)] /\ came' \in [Provider -> SUBSET Frames]
      <4>1. out[p] \in Seq(Frames) BY <1>2 DEF VisionInv, TypeOK
      <4>2. Recv(p) => Tail(out[p]) \in Seq(Frames) BY <4>1 DEF Recv
      <4>3. QED BY <1>2, <4>2 DEF Recv, VisionInv, TypeOK
    <3>3. TypeOK'
      BY <1>2, <2>2, <3>1, <3>2 DEF Connect, Loaded, Close, SwitchInput, SwitchOutput, Recv,
        outputVars, VisionInv, TypeOK, flightVars, switchVars
    <3>4. QED BY <1>2, <3>1, <3>3, QuietVision
  <2>3. ASSUME NEW L \in SUBSET Labels, Inferred(L) PROVE VisionInv'
    <3>1. overlay' \in [Provider -> SUBSET Labels]
          /\ last' \in [Provider -> (SUBSET Labels) \union {NoDetections}]
          /\ heard' \in [Provider -> (SUBSET Labels) \union {NoDetections}]
      BY <1>2, <2>3 DEF Inferred, Notify, VisionInv, TypeOK
    <3>2. QED BY <1>2, <2>3, <3>1, FirstFinishes DEF Inferred, switchVars, outputVars
  <2>4. CASE InferenceFails
    <3>1. UNCHANGED <<overlay, last, heard>> BY <2>4 DEF InferenceFails, detectionVars
    <3>2. QED
      BY <1>2, <2>4, <3>1, FirstFinishes DEF InferenceFails, switchVars, outputVars, VisionInv, TypeOK
  <2>5. QED BY <1>2, <2>1, <2>2, <2>3, <2>4, SendInv, BeginInv DEF Next
<1>3. QED BY <1>1, <1>2

THEOREM VisionCorrect == Spec => []VisionInv
  BY VisionInductive, PTL DEF Spec

(* A provider never runs two inference tasks, and _processing says whether it
   runs one, for any number of providers behind the shared model
   (vision_model.py:44, 130-136, 172-178). *)
THEOREM AlwaysSingleFlight == Spec => []SingleFlight
<1>1. VisionInv => SingleFlight BY DEF VisionInv
<1>2. QED BY <1>1, VisionCorrect, PTL

(* The pending frame is newer than the one in flight, which takes it over
   (vision_model.py:45-46, 131-133). *)
THEOREM AlwaysNewestPending == Spec => []PendingIsNewer
<1>1. VisionInv => PendingIsNewer BY DEF VisionInv
<1>2. QED BY <1>1, VisionCorrect, PTL

(* Every provider implements the promise of LatestFrame
   (vision_model.py:40-47). *)
THEOREM VisionImplementsLatest == Spec => ImplementsLatest
<1> DEFINE Step == \A p \in Provider : [Latest(p)!LatestNext]_(Latest(p)!frameVars)
<1>1. Init => \A p \in Provider : Latest(p)!LatestInit
  BY DEF Init, Latest!LatestInit
<1>2. VisionInv /\ VisionInv' /\ [Next]_vars => [Step]_<<jobs, pending, count>>
  <2> SUFFICES ASSUME VisionInv, Next, NEW p \in Provider
               PROVE  [Latest(p)!LatestNext]_(Latest(p)!frameVars)
    BY DEF vars, flightVars
  <2> USE DEF Latest!frameVars
  <2>1. ASSUME NEW q \in Provider, NEW f \in jobs[q], Finish(q, f), UNCHANGED count
        PROVE  [Latest(p)!LatestNext]_(Latest(p)!frameVars)
    <3>1. CASE p = q
      <4>1. jobs'[p] = {pending[p]} \ {0} /\ pending'[p] = 0 BY <2>1, <3>1, FinishHandsOver
      <4>2. Latest(p)!Finish BY <2>1, <3>1, <4>1 DEF Latest!Finish
      <4>3. QED BY <4>2 DEF Latest!LatestNext
    <3>2. CASE p # q BY <2>1, <3>2, FinishHandsOver
    <3>3. QED BY <3>1, <3>2
  <2>2. ASSUME NEW q \in Provider, Send(q)
        PROVE  [Latest(p)!LatestNext]_(Latest(p)!frameVars)
    <3>1. CASE p = q
      <4>1. count'[p] = count[p] + 1 /\ count[p] \in Nat
        BY <2>2, <3>1, VisionAssumption DEF Send, VisionInv, TypeOK
      <4>2. processing[p] <=> jobs[p] # {} BY DEF VisionInv, SingleFlight
      <4>3. \/ UNCHANGED <<jobs, pending>>
            \/ jobs[p] = {} /\ jobs'[p] = {count'[p]} /\ UNCHANGED pending
            \/ jobs[p] # {} /\ pending'[p] = count'[p] /\ UNCHANGED jobs
            \/ pending'[p] = 0 /\ UNCHANGED jobs
        BY <2>2, <3>1, <4>1, <4>2 DEF Send, Pick, Forget, VisionInv, TypeOK, flightVars
      <4>4. Latest(p)!Arrive BY <4>1, <4>3 DEF Latest!Arrive
      <4>5. QED BY <4>4 DEF Latest!LatestNext
    <3>2. CASE p # q
      BY <2>2, <3>2 DEF Send, Pick, Forget, VisionInv, TypeOK, flightVars
    <3>3. QED BY <3>1, <3>2
  <2>3. ASSUME NEW q \in Provider, NEW f \in Frames, Begin(q, f)
        PROVE  [Latest(p)!LatestNext]_(Latest(p)!frameVars)
    BY <2>1, <2>3 DEF Begin, flightVars
  <2>4. ASSUME line # <<>>, Finish(Head(line)[1], Head(line)[2]), line' = Tail(line),
               UNCHANGED count
        PROVE  [Latest(p)!LatestNext]_(Latest(p)!frameVars)
    BY <2>1, <2>4, LineAdvances
  <2>5. ASSUME NEW q \in Provider,
               Connect(q) \/ Loaded(q) \/ Close(q) \/ SwitchInput(q) \/ SwitchOutput(q) \/ Recv(q)
        PROVE  [Latest(p)!LatestNext]_(Latest(p)!frameVars)
    BY <2>5 DEF Connect, Loaded, Close, SwitchInput, SwitchOutput, Recv, flightVars
  <2>6. QED
    BY <2>2, <2>3, <2>4, <2>5 DEF Next, Inferred, InferenceFails
<1>3. QED
  BY <1>1, <1>2, VisionCorrect, PTL DEF Spec, ImplementsLatest

(* ------------------------------------------------------- the output queue *)

(* A queue q in order that has lost of the frames k put in it only those older
   than all it holds, and only because it is full; none is newer than frame c. *)
Recent(q, k, c) ==
  /\ q \in Seq(Frames) /\ Len(q) <= QueueMax
  /\ \A i, j \in 1 .. Len(q) : i < j => q[i] < q[j]
  /\ \A i \in 1 .. Len(q) : q[i] \in k
  /\ \A f \in k : \/ \E i \in 1 .. Len(q) : q[i] = f
                  \/ Len(q) = QueueMax /\ \A i \in 1 .. Len(q) : f < q[i]
  /\ \A f \in k : f \in Nat /\ f <= c

QueueInv == \A p \in Provider : Recent(out[p], came[p], count[p])

LEMMA RecentTake ==
  ASSUME NEW q, NEW k, NEW c \in Nat, Recent(q, k, c), q # <<>>
  PROVE  Recent(Tail(q), {f \in k : f > Head(q)}, c)
<1> DEFINE r == Tail(q)
           g == {f \in k : f > Head(q)}
<1> HIDE DEF r, g
<1>0. q \in Seq(Frames) /\ Frames \subseteq Nat /\ QueueMax \in Nat
  BY VisionAssumption DEF Recent, Frames
<1>1. /\ r \in Seq(Frames) /\ Len(r) = Len(q) - 1 /\ Len(q) \in Nat \ {0}
      /\ \A i \in 1 .. Len(r) : r[i] = q[i + 1]
  BY <1>0, HeadTailProperties, LenProperties, EmptySeq DEF r
<1>2. Head(q) = q[1] BY <1>0, <1>1
<1>3. \A i \in 1 .. Len(q) : q[i] \in Nat
  <2>1. \A i \in 1 .. Len(q) : q[i] \in Frames BY <1>0, ElementOfSeq
  <2>2. QED BY <1>0, <2>1
<1>4. Len(r) <= QueueMax /\ Len(r) # QueueMax BY <1>0, <1>1 DEF Recent
<1>5. \A i, j \in 1 .. Len(r) : i < j => r[i] < r[j]
  <2> SUFFICES ASSUME NEW i \in 1 .. Len(r), NEW j \in 1 .. Len(r), i < j PROVE r[i] < r[j]
    OBVIOUS
  <2>1. i + 1 < j + 1 BY <1>1
  <2>2. i + 1 \in 1 .. Len(q) /\ j + 1 \in 1 .. Len(q) BY <1>1
  <2>3. q[i + 1] < q[j + 1] BY <2>1, <2>2 DEF Recent
  <2>4. QED BY <1>1, <2>3
<1>6. \A i \in 1 .. Len(r) : r[i] \in g
  <2> SUFFICES ASSUME NEW i \in 1 .. Len(r) PROVE r[i] \in g
    OBVIOUS
  <2>1. 1 < i + 1 /\ 1 \in 1 .. Len(q) /\ i + 1 \in 1 .. Len(q) BY <1>1
  <2>2. q[1] < q[i + 1] /\ q[i + 1] \in k BY <2>1 DEF Recent
  <2>3. r[i] > q[1] /\ r[i] \in k BY <1>1, <1>3, <2>1, <2>2
  <2>4. QED BY <1>2, <2>3 DEF g
<1>7. ASSUME NEW f \in g PROVE \E i \in 1 .. Len(r) : r[i] = f
  <2>1. f \in k /\ f > q[1] /\ f \in Nat BY <1>2 DEF g, Recent
  <2>2. PICK i \in 1 .. Len(q) : q[i] = f BY <1>1, <1>3, <2>1 DEF Recent
  <2>3. i # 1 BY <1>3, <2>1, <2>2
  <2>4. i - 1 \in 1 .. Len(r) /\ (i - 1) + 1 = i BY <1>1, <2>3
  <2>5. QED BY <1>1, <2>2, <2>4
<1>8. \A f \in g : f \in Nat /\ f <= c BY DEF g, Recent
<1>9. QED BY <1>1, <1>4, <1>5, <1>6, <1>7, <1>8 DEF Recent, r, g

LEMMA RecentPut ==
  ASSUME NEW q, NEW k, NEW c \in Nat, Recent(q, k, c), c + 1 \in Frames
  PROVE  Recent(Put(q, c + 1), k \union {c + 1}, c + 1)
<1> DEFINE f == c + 1
           p == Put(q, f)
           lost == IF Len(q) >= QueueMax THEN 1 ELSE 0
<1>0. q \in Seq(Frames) /\ Frames \subseteq Nat /\ QueueMax \in Nat \ {0} /\ f \in Frames /\ f \in Nat
  BY VisionAssumption DEF Recent, Frames
<1>1. /\ p \in Seq(Frames) /\ Len(q) \in Nat /\ Len(q) >= lost
      /\ Len(p) = Len(q) + 1 - lost /\ p[Len(p)] = f
      /\ \A i \in 1 .. Len(q) - lost : p[i] = q[i + lost]
  <2> HIDE DEF f
  <2>1. /\ p \in Seq(Frames) /\ Len(q) \in Nat /\ Len(q) >= lost
        /\ Len(p) = Len(q) + 1 - lost /\ p[Len(q) + 1 - lost] = f
        /\ \A i \in 1 .. Len(q) - lost : p[i] = q[i + lost]
    BY ONLY <1>0, PutFacts
  <2> HIDE DEF p, lost
  <2>2. QED BY <2>1
<1>2. \A x \in k : x \in Nat /\ x < f BY DEF Recent
<1>3. Len(q) <= QueueMax BY DEF Recent
<1> HIDE DEF p, f
<1>4. Len(p) <= QueueMax BY <1>0, <1>1, <1>3
<1>5. \A i \in 1 .. Len(p) :
        \/ i = Len(p) /\ p[i] = f
        \/ i \in 1 .. Len(q) - lost /\ p[i] = q[i + lost] /\ i + lost \in 1 .. Len(q)
  <2> SUFFICES ASSUME NEW i \in 1 .. Len(p), i # Len(p)
               PROVE  i \in 1 .. Len(q) - lost /\ p[i] = q[i + lost] /\ i + lost \in 1 .. Len(q)
    BY <1>1
  <2>1. i \in 1 .. Len(q) - lost BY <1>1
  <2>2. QED BY <1>1, <2>1
<1>6. \A i \in 1 .. Len(q) : q[i] \in k /\ q[i] \in Nat /\ q[i] < f
  <2>1. \A i \in 1 .. Len(q) : q[i] \in k BY DEF Recent
  <2>2. QED BY <1>2, <2>1
<1>7. \A i, j \in 1 .. Len(p) : i < j => p[i] < p[j]
  <2> SUFFICES ASSUME NEW i \in 1 .. Len(p), NEW j \in 1 .. Len(p), i < j PROVE p[i] < p[j]
    OBVIOUS
  <2>1. p[i] = q[i + lost] /\ i + lost \in 1 .. Len(q) BY <1>1, <1>5
  <2>2. CASE j = Len(p) BY <1>1, <1>6, <2>1, <2>2
  <2>3. CASE j # Len(p)
    <3>1. p[j] = q[j + lost] /\ j + lost \in 1 .. Len(q) BY <1>5, <2>3
    <3>2. i + lost < j + lost BY <1>1
    <3>3. QED BY <2>1, <3>1, <3>2 DEF Recent
  <2>4. QED BY <2>2, <2>3
<1>8. \A i \in 1 .. Len(p) : p[i] \in k \union {f} BY <1>5, <1>6
<1>9. ASSUME NEW g \in k \union {f}
      PROVE  \/ \E i \in 1 .. Len(p) : p[i] = g
             \/ Len(p) = QueueMax /\ \A i \in 1 .. Len(p) : g < p[i]
  <2>1. CASE g = f BY <1>1, <2>1
  <2>2. CASE g \in k /\ Len(q) = QueueMax /\ \A i \in 1 .. Len(q) : g < q[i]
    <3>1. g \in Nat /\ g < f BY <1>2, <2>2
    <3>2. Len(p) = QueueMax BY <1>0, <1>1, <2>2
    <3>3. QED BY <1>5, <2>2, <3>1, <3>2
  <2>3. CASE g \in k /\ \E i \in 1 .. Len(q) : q[i] = g
    <3>1. PICK i \in 1 .. Len(q) : q[i] = g BY <2>3
    <3>2. CASE i > lost
      <4>1. i - lost \in 1 .. Len(q) - lost /\ (i - lost) + lost = i BY <1>1, <3>2
      <4>2. i - lost \in 1 .. Len(p) /\ p[i - lost] = g BY <1>1, <3>1, <4>1
      <4>3. QED BY <4>2
    <3>3. CASE ~(i > lost)
      <4>1. i = 1 /\ lost = 1 /\ Len(q) >= QueueMax BY <1>1, <3>3
      <4>2. Len(p) = QueueMax BY <1>0, <1>1, <1>3, <4>1
      <4>3. \A j \in 1 .. Len(p) : g < p[j]
        <5> SUFFICES ASSUME NEW j \in 1 .. Len(p) PROVE g < p[j]
          OBVIOUS
        <5>1. CASE j = Len(p) BY <1>1, <1>2, <2>3, <5>1
        <5>2. CASE j # Len(p)
          <6>1. p[j] = q[j + 1] /\ j + 1 \in 1 .. Len(q) BY <1>5, <4>1, <5>2
          <6>2. QED BY <3>1, <4>1, <6>1 DEF Recent
        <5>3. QED BY <5>1, <5>2
      <4>4. QED BY <4>2, <4>3
    <3>4. QED BY <3>2, <3>3
  <2>4. QED BY <2>1, <2>2, <2>3 DEF Recent
<1>10. \A x \in k \union {f} : x \in Nat /\ x <= f BY <1>0, <1>2
<1>11. QED BY <1>1, <1>4, <1>7, <1>8, <1>9, <1>10 DEF Recent, p, f

LEMMA SendKeepsQueue ==
  ASSUME TypeOK, QueueInv, NEW p \in Provider, Send(p)
  PROVE  QueueInv'
<1> DEFINE c == count[p]
<1>1. c \in Nat /\ c + 1 \in Frames /\ count' = [count EXCEPT ![p] = c + 1]
  BY VisionAssumption DEF Send, TypeOK, Frames
<1>2. Recent(out[p], came[p], c) BY DEF QueueInv
<1>3. /\ out \in [Provider -> Seq(Frames)] /\ came \in [Provider -> SUBSET Frames]
      /\ count \in [Provider -> 0 .. MaxFrames]
  BY DEF TypeOK
<1>4. IF outputOn[p]
      THEN /\ out' = [out EXCEPT ![p] = Put(out[p], c + 1)]
           /\ came' = [came EXCEPT ![p] = came[p] \union {c + 1}]
      ELSE out' = out /\ came' = came
  BY DEF Send, Forward, outputVars
<1> HIDE DEF c
<1>5. Recent(Put(out[p], c + 1), came[p] \union {c + 1}, c + 1) BY <1>1, <1>2, RecentPut
<1>6. Recent(out[p], came[p], c + 1)
  <2>1. \A x \in came[p] : x \in Nat /\ x <= c + 1 BY <1>1, <1>2 DEF Recent
  <2>2. QED BY <1>2, <2>1 DEF Recent
<1>7. ASSUME NEW q \in Provider PROVE Recent(out'[q], came'[q], count'[q])
  <2>1. CASE q = p
    <3>1. CASE outputOn[p] BY <1>1, <1>3, <1>4, <1>5, <2>1, <3>1
    <3>2. CASE ~outputOn[p] BY <1>1, <1>3, <1>4, <1>6, <2>1, <3>2
    <3>3. QED BY <3>1, <3>2
  <2>2. CASE q # p
    <3>1. out'[q] = out[q] /\ came'[q] = came[q] /\ count'[q] = count[q]
      BY <1>1, <1>3, <1>4, <2>2
    <3>2. QED BY <3>1 DEF QueueInv
  <2>3. QED BY <2>1, <2>2
<1>8. QED BY <1>7 DEF QueueInv, Recent

LEMMA RecvKeepsQueue ==
  ASSUME TypeOK, QueueInv, NEW p \in Provider, Recv(p)
  PROVE  QueueInv'
<1>1. /\ out[p] # <<>> /\ out' = [out EXCEPT ![p] = Tail(out[p])] /\ count' = count
      /\ came' = [came EXCEPT ![p] = {f \in came[p] : f > Head(out[p])}]
      /\ out \in [Provider -> Seq(Frames)] /\ came \in [Provider -> SUBSET Frames]
      /\ count[p] \in Nat
  BY VisionAssumption DEF Recv, TypeOK
<1>2. Recent(Tail(out[p]), {f \in came[p] : f > Head(out[p])}, count[p])
  BY <1>1, RecentTake DEF QueueInv
<1>3. ASSUME NEW q \in Provider PROVE Recent(out'[q], came'[q], count'[q])
  <2>1. CASE q = p BY <1>1, <1>2, <2>1
  <2>2. CASE q # p BY <1>1, <2>2 DEF QueueInv
  <2>3. QED BY <2>1, <2>2
<1>4. QED BY <1>3 DEF QueueInv, Recent

(* However slow the reader, what waits for it is in order and the newest of what
   was put in the queue (vision_model.py:143-151, utils.py:86-92). *)
THEOREM AlwaysRecentQueue == Spec => []QueueIsRecent
<1>1. Init => QueueInv
  BY VisionAssumption DEF Init, QueueInv, Recent
<1>2. VisionInv /\ QueueInv /\ [Next]_vars => QueueInv'
  <2> SUFFICES ASSUME TypeOK, QueueInv, [Next]_vars PROVE QueueInv'
    BY DEF VisionInv
  <2>1. CASE UNCHANGED <<out, came, count>> BY <2>1 DEF QueueInv, Recent
  <2>2. ASSUME NEW p \in Provider,
               Connect(p) \/ Loaded(p) \/ Close(p) \/ SwitchInput(p) \/ SwitchOutput(p)
                 \/ \E f \in Frames : Begin(p, f)
        PROVE  UNCHANGED <<out, came, count>>
    BY <2>2 DEF Connect, Loaded, Close, SwitchInput, SwitchOutput, Begin, outputVars
  <2>3. (\E L \in SUBSET Labels : Inferred(L)) \/ InferenceFails \/ UNCHANGED vars
          => UNCHANGED <<out, came, count>>
    BY DEF Inferred, InferenceFails, vars, outputVars
  <2>4. QED
    BY <2>1, <2>2, <2>3, SendKeepsQueue, RecvKeepsQueue DEF Next
<1>3. QueueInv => QueueIsRecent
  <2> SUFFICES ASSUME QueueInv, NEW p \in Provider
               PROVE  LET queued == {out[p][i] : i \in 1 .. Len(out[p])} IN
                      /\ Len(out[p]) <= QueueMax /\ queued \subseteq came[p]
                      /\ \A i, j \in 1 .. Len(out[p]) : i < j => out[p][i] < out[p][j]
                      /\ \A f \in came[p] \ queued :
                           Len(out[p]) = QueueMax /\ \A g \in queued : f < g
    BY DEF QueueIsRecent
  <2>1. Recent(out[p], came[p], count[p]) BY DEF QueueInv
  <2>2. QED BY <2>1 DEF Recent
<1>4. QED BY <1>1, <1>2, <1>3, VisionCorrect, PTL DEF Spec

(* Each frame of a provider is in one place and only the newest ones are kept,
   whatever arrives while it waits for the shared model
   (vision_model.py:130-151, 172-178). *)
THEOREM AlwaysFlightSound == Spec => []FlightSound
<1>1. VisionInv => TypeOK BY DEF VisionInv
<1>2. QED
  BY <1>1, VisionCorrect, AlwaysSingleFlight, AlwaysNewestPending, AlwaysRecentQueue, PTL
     DEF FlightSound

(* Of what the listeners heard, what is drawn and what was notified, a step of
   p changes p's alone (model.py:232-238). *)
LEMMA DetectionStep ==
  ASSUME TypeOK, HeardIsLast, NEW p \in Provider, NEW L \in SUBSET Labels,
         overlay' = [overlay EXCEPT ![p] = L], Notify(p, L)
  PROVE  HeardIsLast'
<1> SUFFICES ASSUME NEW q \in Provider
             PROVE  IF last'[q] = NoDetections THEN overlay'[q] = {}
                    ELSE heard'[q] = last'[q] /\ overlay'[q] = last'[q]
  BY DEF HeardIsLast
<1>1. L # NoDetections BY VisionAssumption DEF NoDetections
<1>2. CASE q # p BY <1>2 DEF Notify, HeardIsLast, TypeOK
<1>3. CASE q = p
  <2>1. overlay'[p] = L BY DEF TypeOK
  <2>2. CASE last[p] = L BY <1>1, <1>3, <2>1, <2>2 DEF Notify, HeardIsLast
  <2>3. CASE last[p] # L BY <1>1, <1>3, <2>1, <2>3 DEF Notify, TypeOK
  <2>4. QED BY <2>2, <2>3
<1>4. QED BY <1>2, <1>3

(* No change of detections is swallowed and nothing stays drawn once they are
   forgotten, however inputs are switched while a frame is in flight
   (model.py:232-238, yolo.py:57, 97-100). *)
THEOREM AlwaysHeard == Spec => []HeardIsLast
<1>1. Init => HeardIsLast BY DEF Init, HeardIsLast
<1>2. VisionInv /\ HeardIsLast /\ [Next]_vars => HeardIsLast'
  <2> SUFFICES ASSUME VisionInv, HeardIsLast, [Next]_vars PROVE HeardIsLast'
    OBVIOUS
  <2>a. TypeOK BY DEF VisionInv
  <2>1. CASE UNCHANGED detectionVars BY <2>1 DEF detectionVars, HeardIsLast
  <2>2. ASSUME NEW p \in Provider,
               Connect(p) \/ Loaded(p) \/ Close(p) \/ SwitchInput(p) \/ SwitchOutput(p)
                 \/ Recv(p) \/ \E f \in Frames : Begin(p, f)
        PROVE  UNCHANGED detectionVars
    BY <2>2 DEF Connect, Loaded, Close, SwitchInput, SwitchOutput, Recv, Begin
  <2>3. ASSUME NEW p \in Provider, Send(p) PROVE HeardIsLast'
    <3>1. CASE Forget(p) BY <2>a, <3>1 DEF Forget, HeardIsLast, TypeOK
    <3>2. CASE UNCHANGED detectionVars BY <3>2, <2>1
    <3>3. QED BY <2>3, <3>1, <3>2 DEF Send
  <2>4. ASSUME NEW L \in SUBSET Labels, Inferred(L) PROVE HeardIsLast'
    <3>1. Head(line)[1] \in Provider BY <2>a, <2>4 DEF Inferred, TypeOK
    <3>2. QED BY <2>a, <2>4, <3>1, DetectionStep DEF Inferred
  <2>5. InferenceFails \/ UNCHANGED vars => UNCHANGED detectionVars
    BY DEF InferenceFails, vars, detectionVars
  <2>6. QED BY <2>1, <2>2, <2>3, <2>4, <2>5 DEF Next
<1>3. QED BY <1>1, <1>2, VisionCorrect, PTL DEF Spec
=============================================================================
