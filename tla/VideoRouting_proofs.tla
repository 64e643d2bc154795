------------------------- MODULE VideoRouting_proofs ------------------------
(***************************************************************************)
(* Proofs about the video of a session: VideoRouting, for any number of    *)
(* connections, of which any are watching or recording, any size of the    *)
(* queues, any number of frames and any time.                              *)
(*                                                                         *)
(* The inductive invariant says what the pts of a frame is: the time it    *)
(* was made, moved by what its source began with.  A camera's recorder     *)
(* takes away the pts of its first frame, the connection of a model the    *)
(* time of its first one.  That is so for every frame that is complete     *)
(* from the start, which no track's clock touches.  The others, those of a *)
(* framed camera, are completed by the first track that sends them, and by *)
(* no other: a frame that was sent is complete and keeps its pts.          *)
(***************************************************************************)
EXTENDS VideoRouting, SequenceTheorems, TLAPS

Frames == [from : Conn, kind : {"camera", "model", "overlay"}, at : Nat]
Clock == [pts : Nat, last : Int]

\* What moves the pts of the frames of x's source, by the clocks sp of the
\* models and the first pts fp of the recorders.
Base(x, sp, fp) ==
  IF x.kind = "model" THEN sp[x.from].pts - sp[x.from].last
  ELSE IF x.from \in Recording THEN Offset - fp[x.from] ELSE Offset

\* The source of x has begun.
Begun(x, sp, fp) ==
  IF x.kind = "model" THEN sp[x.from].last # NoTime
  ELSE x.from \in Recording => fp[x.from] # NoPts

\* The frame is complete from the start.
Timed(x) == x.kind = "model" \/ x.from \notin Framed

\* Of n frames, queue q and what was sent, s, hold some in their order, those
\* in the queue after those that were sent.
LineSound(q, s, n) ==
  /\ \A i \in 1 .. Len(q) : q[i] \in 1 .. n
  /\ \A i, j \in 1 .. Len(q) : i < j => q[i] < q[j]
  /\ \A i \in 1 .. Len(s) : s[i].frame \in 1 .. n
  /\ \A i, j \in 1 .. Len(s) : i < j => s[i].frame < s[j].frame
  /\ \A i \in 1 .. Len(s), j \in 1 .. Len(q) : s[i].frame < q[j]

VideoTypes ==
  /\ now \in Nat
  /\ frames \in Seq(Frames)
  /\ pts \in Seq(Nat) /\ Len(pts) = Len(frames)
  /\ sessionPts \in [Conn -> Clock] /\ trackPts \in [Conn -> Clock]
  /\ videoQueue \in [Conn -> Seq(Nat)]
  /\ firstPts \in [Conn -> Int]
  /\ sent \in [Conn -> Seq([frame : Nat, pts : Nat])]

ClocksSound ==
  \A c \in Conn :
    /\ sessionPts[c].last = NoTime \/ sessionPts[c].last \in 0 .. now
    /\ trackPts[c].last = NoTime \/ trackPts[c].last \in 0 .. now
    /\ firstPts[c] = NoPts \/ firstPts[c] \in Offset .. (Offset + now)

PtsSound ==
  \A f \in 1 .. Len(frames) : Timed(frames[f]) =>
    /\ f \in complete
    /\ Begun(frames[f], sessionPts, firstPts)
    /\ pts[f] = frames[f].at + Base(frames[f], sessionPts, firstPts)

LinesSound ==
  \A c \in Conn : LineSound(videoQueue[c], sent[c], Len(frames))

SentSound ==
  \A c \in Conn : \A i \in 1 .. Len(sent[c]) :
    sent[c][i].frame \in complete /\ sent[c][i].pts = pts[sent[c][i].frame]

VideoInv == VideoTypes /\ ClocksSound /\ PtsSound /\ LinesSound /\ SentSound

LEMMA SoundOneTimeline == VideoInv => OneTimeline
<1> SUFFICES ASSUME VideoInv, NEW c \in Conn, NEW d \in Conn,
                    NEW i \in DOMAIN sent[c], NEW j \in DOMAIN sent[d]
             PROVE  /\ sent[c][i].frame = sent[d][j].frame => sent[c][i].pts = sent[d][j].pts
                    /\ SameClock(sent[c][i].frame, sent[d][j].frame) =>
                         sent[d][j].pts - sent[c][i].pts
                         = frames[sent[d][j].frame].at - frames[sent[c][i].frame].at
                    /\ c = d /\ i < j => sent[c][i].frame < sent[d][j].frame
  BY DEF OneTimeline
<1> USE DEF VideoInv
<1>1. i \in 1 .. Len(sent[c]) /\ j \in 1 .. Len(sent[d]) BY DEF VideoTypes
<1> DEFINE f == sent[c][i].frame
           g == sent[d][j].frame
<1>2. f \in 1 .. Len(frames) /\ g \in 1 .. Len(frames) BY <1>1 DEF LinesSound, LineSound
<1>3. sent[c][i].pts = pts[f] /\ sent[d][j].pts = pts[g] BY <1>1 DEF SentSound
<1>4. c = d /\ i < j => f < g BY <1>1 DEF LinesSound, LineSound
<1> HIDE DEF f, g
<1>5. ASSUME SameClock(f, g) PROVE pts[g] - pts[f] = frames[g].at - frames[f].at
  <2> DEFINE b == Base(frames[f], sessionPts, firstPts)
  <2>1. Base(frames[g], sessionPts, firstPts) = b BY <1>5 DEF SameClock, Base
  <2> Timed(frames[f]) /\ Timed(frames[g]) BY <1>5 DEF SameClock, Timed
  <2>2. pts[f] = frames[f].at + b /\ pts[g] = frames[g].at + b BY <1>2, <2>1 DEF PtsSound
  <2>3. frames[f] \in Frames /\ frames[g] \in Frames /\ b \in Int
    <3>1. frames[f] \in Frames /\ frames[g] \in Frames BY <1>2 DEF VideoTypes
    <3>2. frames[f].from \in Conn BY <3>1 DEF Frames
    <3>3. sessionPts[frames[f].from] \in Clock /\ firstPts[frames[f].from] \in Int
      BY <3>2 DEF VideoTypes
    <3>4. /\ sessionPts[frames[f].from].pts \in Int /\ sessionPts[frames[f].from].last \in Int
          /\ Offset \in Int
      BY <3>3, VideoAssumption DEF Clock
    <3>5. QED BY <3>1, <3>3, <3>4 DEF Base
  <2> HIDE DEF b
  <2>4. frames[f].at \in Int /\ frames[g].at \in Int BY <2>3 DEF Frames
  <2>5. QED BY <2>2, <2>3, <2>4
<1>6. QED BY <1>3, <1>4, <1>5 DEF f, g

-----------------------------------------------------------------------------
(* The queue                                                               *)

(* The newest frame goes to the end of the queue; the oldest may fall out. *)
LEMMA PutSound ==
  ASSUME NEW q \in Seq(Nat), NEW s, NEW n \in Nat, LineSound(q, s, n)
  PROVE  /\ PutDroppingOldest(q, n + 1) \in Seq(Nat)
         /\ LineSound(PutDroppingOldest(q, n + 1), s, n + 1)
         /\ LineSound(q, s, n + 1)
<1> DEFINE r == IF Len(q) < MaxQueue THEN q ELSE Tail(q)
           p == Append(r, n + 1)
<1>1. /\ r \in Seq(Nat) /\ LineSound(r, s, n)
  <2>1. CASE Len(q) < MaxQueue BY <2>1
  <2>2. CASE ~(Len(q) < MaxQueue)
    <3>1. q # <<>> BY <2>2, EmptySeq, QueueAssumption
    <3>2. Tail(q) \in Seq(Nat) /\ Len(Tail(q)) = Len(q) - 1 /\ Len(q) \in Nat
          /\ \A i \in 1 .. Len(Tail(q)) : Tail(q)[i] = q[i + 1]
      BY <3>1, HeadTailProperties
    <3>3. \A i \in 1 .. Len(Tail(q)) : i + 1 \in 1 .. Len(q) BY <3>2
    <3>4. QED BY <2>2, <3>2, <3>3 DEF LineSound
  <2>3. QED BY <2>1, <2>2
<1> HIDE DEF r
<1>2. /\ p \in Seq(Nat) /\ Len(p) = Len(r) + 1 /\ Len(r) \in Nat /\ p[Len(r) + 1] = n + 1
      /\ \A i \in 1 .. Len(r) : p[i] = r[i]
  BY <1>1, AppendProperties
<1> DEFINE k == Len(r)
<1> HIDE DEF p, k
<1>3. k \in Nat /\ Len(p) = k + 1 /\ p[k + 1] = n + 1 /\ \A i \in 1 .. k : p[i] = r[i]
  BY <1>2 DEF k
<1>4. \A i \in 1 .. Len(p) : i \in 1 .. k \/ i = k + 1 BY <1>3
<1>5. \A i \in 1 .. k : r[i] \in 1 .. n /\ r[i] < n + 1 BY <1>1 DEF LineSound, k
<1>6. \A i \in 1 .. Len(p) : p[i] \in 1 .. (n + 1) BY <1>3, <1>4, <1>5
<1>7. \A i, j \in 1 .. Len(p) : i < j => p[i] < p[j]
  <2> SUFFICES ASSUME NEW i \in 1 .. Len(p), NEW j \in 1 .. Len(p), i < j PROVE p[i] < p[j]
    OBVIOUS
  <2>1. i \in 1 .. k BY <1>3
  <2>2. CASE j \in 1 .. k BY <1>1, <1>3, <2>1, <2>2 DEF LineSound, k
  <2>3. CASE j = k + 1 BY <1>3, <1>5, <2>1, <2>3
  <2>4. QED BY <1>4, <2>2, <2>3
<1>8. \A i \in 1 .. Len(s) : s[i].frame \in 1 .. n /\ s[i].frame \in 1 .. (n + 1) /\ s[i].frame < n + 1
  BY DEF LineSound
<1>9. \A i \in 1 .. Len(s), j \in 1 .. Len(p) : s[i].frame < p[j]
  <2> SUFFICES ASSUME NEW i \in 1 .. Len(s), NEW j \in 1 .. Len(p) PROVE s[i].frame < p[j]
    OBVIOUS
  <2>1. CASE j \in 1 .. k BY <1>1, <1>3, <2>1 DEF LineSound, k
  <2>2. CASE j = k + 1 BY <1>3, <1>8, <2>2
  <2>3. QED BY <1>4, <2>1, <2>2
<1>10. LineSound(p, s, n + 1) BY <1>6, <1>7, <1>8, <1>9 DEF LineSound
<1>11. \A i \in 1 .. Len(q) : q[i] \in 1 .. (n + 1) BY DEF LineSound
<1>12. LineSound(q, s, n + 1) BY <1>8, <1>11 DEF LineSound
<1>13. QED BY <1>2, <1>10, <1>12 DEF p, r, PutDroppingOldest

-----------------------------------------------------------------------------
(* A frame is made                                                         *)

(* Frame x is made and gets the pts p; the clocks and the first pts become
   what keeps the frames of all that had begun where they are. *)
Made(x, p, to) ==
  /\ x \in Frames /\ p \in Nat
  /\ frames' = Append(frames, x) /\ pts' = Append(pts, p)
  /\ QueuedAt(Len(frames) + 1, to)
  /\ complete \subseteq complete' /\ (Timed(x) => Len(frames) + 1 \in complete')
  /\ UNCHANGED <<now, trackPts, sent>>
  /\ sessionPts' \in [Conn -> Clock] /\ firstPts' \in [Conn -> Int]
  /\ ClocksSound'
  /\ \A y \in Frames : Begun(y, sessionPts, firstPts) =>
       /\ Begun(y, sessionPts', firstPts')
       /\ Base(y, sessionPts', firstPts') = Base(y, sessionPts, firstPts)
  /\ Begun(x, sessionPts', firstPts') /\ p = x.at + Base(x, sessionPts', firstPts')

LEMMA MadeStep ==
  ASSUME VideoInv, NEW x, NEW p, NEW to, Made(x, p, to)
  PROVE  VideoInv'
<1> USE DEF VideoInv
<1> DEFINE n == Len(frames)
<1>1. /\ frames' \in Seq(Frames) /\ Len(frames') = n + 1 /\ n \in Nat /\ frames'[n + 1] = x
      /\ \A f \in 1 .. n : frames'[f] = frames[f] /\ frames[f] \in Frames
  BY AppendProperties DEF Made, VideoTypes
<1>2. /\ pts' \in Seq(Nat) /\ Len(pts') = n + 1 /\ pts'[n + 1] = p
      /\ \A f \in 1 .. n : pts'[f] = pts[f]
  BY AppendProperties DEF Made, VideoTypes
<1> HIDE DEF n
<1>3. ASSUME NEW c \in Conn
      PROVE  videoQueue'[c] \in Seq(Nat) /\ LineSound(videoQueue'[c], sent[c], n + 1)
  <2>1. videoQueue[c] \in Seq(Nat) /\ LineSound(videoQueue[c], sent[c], n)
    BY DEF VideoTypes, LinesSound, n
  <2>2. videoQueue'[c] = PutDroppingOldest(videoQueue[c], n + 1) \/ videoQueue'[c] = videoQueue[c]
    BY DEF Made, QueuedAt, n
  <2>3. QED BY <1>1, <2>1, <2>2, PutSound
<1>4. videoQueue' \in [Conn -> Seq(Nat)]
  <2>1. videoQueue' = [c \in Conn |-> videoQueue'[c]] BY DEF Made, QueuedAt
  <2>2. QED BY <1>3, <2>1
<1>5. now' = now /\ trackPts' = trackPts /\ sent' = sent /\ complete \subseteq complete' BY DEF Made
<1>6. VideoTypes' BY <1>1, <1>2, <1>4, <1>5 DEF VideoTypes, Made
<1>7. LinesSound' BY <1>1, <1>3, <1>5 DEF LinesSound
<1>8. PtsSound'
  <2>1. ASSUME NEW f \in 1 .. Len(frames'), Timed(frames'[f])
        PROVE  /\ f \in complete'
               /\ Begun(frames'[f], sessionPts', firstPts')
               /\ pts'[f] = frames'[f].at + Base(frames'[f], sessionPts', firstPts')
    <3>1. CASE f \in 1 .. n
      <4>1. frames'[f] = frames[f] /\ frames[f] \in Frames /\ pts'[f] = pts[f] BY <1>1, <1>2, <3>1
      <4>2. f \in complete /\ Begun(frames[f], sessionPts, firstPts)
            /\ pts[f] = frames[f].at + Base(frames[f], sessionPts, firstPts)
        BY <2>1, <3>1, <4>1 DEF PtsSound, n
      <4>3. Begun(frames[f], sessionPts', firstPts')
            /\ Base(frames[f], sessionPts', firstPts') = Base(frames[f], sessionPts, firstPts)
        BY <4>1, <4>2 DEF Made
      <4>4. QED BY <1>5, <4>1, <4>2, <4>3
    <3>2. CASE f = n + 1 BY <1>1, <1>2, <2>1, <3>2 DEF Made, n
    <3>3. f \in 1 .. n \/ f = n + 1 BY <1>1
    <3>4. QED BY <3>1, <3>2, <3>3
  <2>2. QED BY <2>1 DEF PtsSound
<1>9. SentSound'
  <2>1. ASSUME NEW c \in Conn, NEW i \in 1 .. Len(sent[c])
        PROVE  sent[c][i].frame \in complete' /\ sent[c][i].pts = pts'[sent[c][i].frame]
    <3>1. sent[c][i].frame \in 1 .. n BY DEF LinesSound, LineSound, n
    <3>2. QED BY <1>2, <1>5, <3>1 DEF SentSound
  <2>2. QED BY <1>5, <2>1 DEF SentSound
<1>10. ClocksSound' BY DEF Made
<1>11. QED BY <1>6, <1>7, <1>8, <1>9, <1>10

LEMMA CameraFrameStep ==
  ASSUME VideoInv, NEW c \in Conn, CameraFrame(c)
  PROVE  VideoInv'
<1> USE QueueAssumption, VideoAssumption DEF VideoInv, VideoTypes
<1> DEFINE x == [from |-> c, kind |-> "camera", at |-> now]
<1>1. x \in Frames /\ x.from = c /\ x.kind = "camera" /\ x.at = now BY DEF Frames
<1>2. /\ frames' = Append(frames, x) /\ QueuedAt(Len(frames) + 1, Listeners(c))
      /\ UNCHANGED <<now, trackPts, sent>> /\ sessionPts' = sessionPts
      /\ complete \subseteq complete' /\ (Timed(x) => Len(frames) + 1 \in complete')
  BY DEF CameraFrame, Complete, Incomplete, Timed
<1> HIDE DEF x
<1>3. CASE c \in Recording
  <2> DEFINE first == IF firstPts[c] = NoPts THEN Offset + now ELSE firstPts[c]
             p == Offset + now - first
  <2>1. firstPts' = [firstPts EXCEPT ![c] = first] /\ pts' = Append(pts, p)
    BY <1>3 DEF CameraFrame, Recorded
  <2>2. first \in Offset .. (Offset + now) /\ first # NoPts BY DEF ClocksSound, NoPts
  <2>3. p \in Nat BY <2>2
  <2> HIDE DEF first
  <2>4. firstPts' \in [Conn -> Int]
        /\ \A d \in Conn : firstPts'[d] = IF d = c THEN first ELSE firstPts[d]
    BY <2>1, <2>2
  <2>5. ClocksSound' BY <1>2, <2>2, <2>4 DEF ClocksSound
  <2>6. firstPts[c] # NoPts => first = firstPts[c] BY DEF first
  <2>7. ASSUME NEW y \in Frames, Begun(y, sessionPts, firstPts)
        PROVE  /\ Begun(y, sessionPts', firstPts')
               /\ Base(y, sessionPts', firstPts') = Base(y, sessionPts, firstPts)
    <3>1. y.from \in Conn BY DEF Frames
    <3>2. firstPts[y.from] # NoPts => firstPts'[y.from] = firstPts[y.from]
      BY <2>4, <2>6, <3>1
    <3>3. QED BY <1>2, <2>7, <3>2 DEF Begun, Base
  <2>8. Begun(x, sessionPts', firstPts') /\ p = x.at + Base(x, sessionPts', firstPts')
    <3>1. firstPts'[c] = first BY <2>4
    <3>2. QED BY <1>1, <1>3, <2>2, <3>1 DEF Begun, Base
  <2> HIDE DEF p
  <2>9. Made(x, p, Listeners(c)) BY <1>1, <1>2, <2>1, <2>3, <2>4, <2>5, <2>7, <2>8 DEF Made
  <2>10. QED BY <2>9, MadeStep
<1>4. CASE c \notin Recording
  <2>1. firstPts' = firstPts /\ pts' = Append(pts, Offset + now) BY <1>4 DEF CameraFrame
  <2>2. Begun(x, sessionPts', firstPts') /\ Offset + now = x.at + Base(x, sessionPts', firstPts')
    BY <1>1, <1>4 DEF Begun, Base
  <2>3. ClocksSound' BY <1>2, <2>1 DEF ClocksSound
  <2>4. Made(x, Offset + now, Listeners(c)) BY <1>1, <1>2, <2>1, <2>2, <2>3 DEF Made
  <2>5. QED BY <2>4, MadeStep
<1>5. QED BY <1>3, <1>4

(* A clock that is advanced moves by as much as its last time does. *)
LEMMA AdvancedSound ==
  ASSUME now \in Nat, NEW k \in Clock, k.last = NoTime \/ k.last \in 0 .. now
  PROVE  /\ Advanced(k) \in Clock /\ Advanced(k).last = now /\ Advanced(k).pts \in Nat
         /\ k.last # NoTime => Advanced(k).pts - Advanced(k).last = k.pts - k.last
<1>1. k.pts \in Nat /\ k.last \in Int BY DEF Clock
<1>2. CASE k.last = NoTime BY <1>1, <1>2 DEF Advanced, Clock
<1>3. CASE k.last # NoTime
  <2> DEFINE n == k.pts + (now - k.last)
  <2>1. n \in Nat /\ n - now = k.pts - k.last BY <1>1, <1>3
  <2>2. Advanced(k) = [pts |-> n, last |-> now] BY <1>3 DEF Advanced
  <2> HIDE DEF n
  <2>3. QED BY <2>1, <2>2 DEF Clock
<1>4. QED BY <1>2, <1>3

LEMMA ModelFrameStep ==
  ASSUME VideoInv, NEW c \in Conn, ModelFrame(c)
  PROVE  VideoInv'
<1> USE QueueAssumption, VideoAssumption DEF VideoInv, VideoTypes
<1> DEFINE x == [from |-> c, kind |-> "model", at |-> now]
           a == Advanced(sessionPts[c])
<1>1. x \in Frames /\ x.from = c /\ x.kind = "model" /\ x.at = now BY DEF Frames
<1>2. /\ frames' = Append(frames, x) /\ QueuedAt(Len(frames) + 1, Listeners(c) \union {c})
      /\ UNCHANGED <<now, trackPts, sent>> /\ firstPts' = firstPts
      /\ complete \subseteq complete' /\ Len(frames) + 1 \in complete'
      /\ pts' = Append(pts, a.pts) /\ sessionPts' = [sessionPts EXCEPT ![c] = a]
  BY DEF ModelFrame, Produced, Stamped, Complete
<1> HIDE DEF x
<1>3. /\ a \in Clock /\ a.last = now /\ a.pts \in Nat
      /\ sessionPts[c].last # NoTime =>
           a.pts - a.last = sessionPts[c].pts - sessionPts[c].last
  <2>1. sessionPts[c] \in Clock OBVIOUS
  <2>2. sessionPts[c].last = NoTime \/ sessionPts[c].last \in 0 .. now BY DEF ClocksSound
  <2>3. QED BY <2>1, <2>2, AdvancedSound
<1> HIDE DEF a
<1>4. sessionPts' \in [Conn -> Clock]
      /\ \A d \in Conn : sessionPts'[d] = IF d = c THEN a ELSE sessionPts[d]
  BY <1>2, <1>3
<1>5. ClocksSound' BY <1>2, <1>3, <1>4 DEF ClocksSound
<1>6. now # NoTime BY DEF NoTime
<1>7. ASSUME NEW y \in Frames, Begun(y, sessionPts, firstPts)
      PROVE  /\ Begun(y, sessionPts', firstPts')
             /\ Base(y, sessionPts', firstPts') = Base(y, sessionPts, firstPts)
  <2>1. y.from \in Conn BY DEF Frames
  <2>2. sessionPts[y.from].last # NoTime =>
          /\ sessionPts'[y.from].last # NoTime
          /\ sessionPts'[y.from].pts - sessionPts'[y.from].last
             = sessionPts[y.from].pts - sessionPts[y.from].last
    BY <1>3, <1>4, <1>6, <2>1
  <2>3. QED BY <1>2, <1>7, <2>2 DEF Begun, Base
<1>8. Begun(x, sessionPts', firstPts') /\ a.pts = x.at + Base(x, sessionPts', firstPts')
  <2>1. sessionPts'[c] = a BY <1>4
  <2>2. QED BY <1>1, <1>3, <1>6, <2>1 DEF Begun, Base
<1>9. Made(x, a.pts, Listeners(c) \union {c}) BY <1>1, <1>2, <1>3, <1>4, <1>5, <1>7, <1>8 DEF Made
<1>10. QED BY <1>9, MadeStep

LEMMA OverlayFrameStep ==
  ASSUME VideoInv, NEW c \in Conn, OverlayFrame(c)
  PROVE  VideoInv'
<1> USE QueueAssumption, VideoAssumption DEF VideoInv, VideoTypes
<1>0. SUFFICES ASSUME c \notin Framed PROVE VideoInv'
  BY ModelFrameStep DEF OverlayFrame
<1>1. PICK g \in DOMAIN frames :
        /\ frames[g].from = c /\ frames[g].kind = "camera"
        /\ Produced(c, "overlay", frames[g].at)
        /\ Complete
        /\ pts' = Append(pts, pts[g])
        /\ UNCHANGED sessionPts
  BY <1>0 DEF OverlayFrame
<1>2. g \in 1 .. Len(frames) /\ frames[g] \in Frames /\ frames[g].at \in Nat /\ pts[g] \in Nat
  <2>1. g \in 1 .. Len(frames) /\ g \in 1 .. Len(pts) OBVIOUS
  <2>2. frames[g] \in Frames /\ pts[g] \in Nat BY <2>1
  <2>3. QED BY <2>1, <2>2 DEF Frames
<1> DEFINE x == [from |-> c, kind |-> "overlay", at |-> frames[g].at]
<1>3. x \in Frames /\ x.from = c /\ x.kind = "overlay" /\ x.at = frames[g].at BY <1>2 DEF Frames
<1>4. /\ frames' = Append(frames, x) /\ QueuedAt(Len(frames) + 1, Listeners(c) \union {c})
      /\ UNCHANGED <<now, trackPts, sent>> /\ firstPts' = firstPts /\ sessionPts' = sessionPts
      /\ complete \subseteq complete' /\ Len(frames) + 1 \in complete'
  BY <1>1 DEF Produced, Complete
<1> HIDE DEF x
<1>5. /\ Begun(frames[g], sessionPts, firstPts)
      /\ pts[g] = frames[g].at + Base(frames[g], sessionPts, firstPts)
  BY <1>0, <1>1, <1>2 DEF PtsSound, Timed
<1>6. Begun(x, sessionPts', firstPts') /\ pts[g] = x.at + Base(x, sessionPts', firstPts')
  BY <1>1, <1>3, <1>4, <1>5 DEF Begun, Base
<1>7. ClocksSound' BY <1>4 DEF ClocksSound
<1>8. Made(x, pts[g], Listeners(c) \union {c}) BY <1>1, <1>2, <1>3, <1>4, <1>6, <1>7 DEF Made
<1>9. QED BY <1>8, MadeStep

-----------------------------------------------------------------------------
(* A frame is sent                                                         *)

LEMMA TrackSendsStep ==
  ASSUME VideoInv, NEW c \in Conn, TrackSends(c)
  PROVE  VideoInv'
<1> USE DEF VideoInv
<1> DEFINE q == videoQueue[c]
           s == sent[c]
           f == Head(q)
           p == IF f \in complete THEN pts[f] ELSE Advanced(trackPts[c]).pts
           e == [frame |-> f, pts |-> p]
           u == Append(s, e)
<1>1. /\ q # <<>> /\ q \in Seq(Nat) /\ s \in Seq([frame : Nat, pts : Nat])
      /\ LineSound(q, s, Len(frames))
  BY DEF TrackSends, VideoTypes, LinesSound
<1>2. /\ f = q[1] /\ Len(q) \in Nat /\ Len(q) >= 1 /\ 1 \in 1 .. Len(q)
      /\ Tail(q) \in Seq(Nat) /\ Len(Tail(q)) = Len(q) - 1
      /\ \A i \in 1 .. Len(Tail(q)) : Tail(q)[i] = q[i + 1] /\ i + 1 \in 1 .. Len(q)
  BY <1>1, HeadTailProperties
<1>3. f \in 1 .. Len(frames) BY <1>1, <1>2 DEF LineSound
<1>4. pts \in Seq(Nat) /\ f \in 1 .. Len(pts) BY <1>3 DEF VideoTypes
<1>5. ASSUME f \notin complete
      PROVE  /\ Advanced(trackPts[c]) \in Clock /\ Advanced(trackPts[c]).last = now
             /\ Advanced(trackPts[c]).pts \in Nat
  <2>1. now \in Nat /\ trackPts[c] \in Clock BY DEF VideoTypes
  <2>2. trackPts[c].last = NoTime \/ trackPts[c].last \in 0 .. now BY DEF ClocksSound
  <2>3. QED BY <2>1, <2>2, AdvancedSound
<1>6. /\ videoQueue' = [videoQueue EXCEPT ![c] = Tail(q)]
      /\ sent' = [sent EXCEPT ![c] = u]
      /\ pts' = [pts EXCEPT ![f] = p]
      /\ complete' = complete \union {f}
      /\ trackPts' = IF f \in complete THEN trackPts
                     ELSE [trackPts EXCEPT ![c] = Advanced(trackPts[c])]
      /\ UNCHANGED <<now, frames, sessionPts, firstPts>>
  BY DEF TrackSends
<1>7. p \in Nat /\ (f \in complete => p = pts[f]) BY <1>4, <1>5, ElementOfSeq
<1> HIDE DEF p
<1>8. e \in [frame : Nat, pts : Nat] /\ e.frame = f /\ e.pts = p BY <1>3, <1>7
<1> HIDE DEF e
<1>9. /\ u \in Seq([frame : Nat, pts : Nat]) /\ Len(s) \in Nat /\ Len(u) = Len(s) + 1
      /\ u[Len(s) + 1] = e /\ \A i \in 1 .. Len(s) : u[i] = s[i]
  BY <1>1, <1>8, AppendProperties
<1> DEFINE k == Len(s)
           n == Len(frames)
           r == Tail(q)
<1> HIDE DEF f, q, u, k, n, r
<1>20. /\ pts' \in Seq(Nat) /\ Len(pts') = Len(pts) /\ pts'[f] = p
       /\ \A g \in 1 .. Len(pts) : g # f => pts'[g] = pts[g]
  BY <1>4, <1>6, <1>7, ExceptSeq
<1>21. \A g \in 1 .. Len(pts) : g \in complete => pts'[g] = pts[g] BY <1>7, <1>20
<1>10. /\ k \in Nat /\ Len(u) = k + 1 /\ u[k + 1] = e
       /\ \A i \in 1 .. k : u[i] = s[i]
  BY <1>9 DEF k
<1>11. \A i \in 1 .. Len(u) : i \in 1 .. k \/ i = k + 1 BY <1>10
<1>12. LineSound(r, u, n)
  <2>1. \A i \in 1 .. Len(r) : r[i] = q[i + 1] /\ i + 1 \in 1 .. Len(q) BY <1>2 DEF r
  <2>2. \A i \in 1 .. Len(q) : q[i] \in 1 .. n BY <1>1 DEF LineSound, n
  <2>3. \A i, j \in 1 .. Len(q) : i < j => q[i] < q[j] BY <1>1 DEF LineSound
  <2>4. \A i \in 1 .. k : s[i].frame \in 1 .. n /\ s[i].frame < f
    BY <1>1, <1>2 DEF LineSound, n, k
  <2>5. \A i, j \in 1 .. k : i < j => s[i].frame < s[j].frame BY <1>1 DEF LineSound, k
  <2>6. \A i \in 1 .. k, j \in 1 .. Len(q) : s[i].frame < q[j] BY <1>1 DEF LineSound, k
  <2>7. \A i \in 1 .. Len(r) : r[i] \in 1 .. n /\ f < r[i]
    <3> SUFFICES ASSUME NEW i \in 1 .. Len(r) PROVE r[i] \in 1 .. n /\ f < r[i]
      OBVIOUS
    <3>1. r[i] = q[i + 1] /\ i + 1 \in 1 .. Len(q) /\ 1 < i + 1 BY <2>1
    <3>2. QED BY <1>2, <2>2, <2>3, <3>1
  <2>8. \A i, j \in 1 .. Len(r) : i < j => r[i] < r[j]
    <3> SUFFICES ASSUME NEW i \in 1 .. Len(r), NEW j \in 1 .. Len(r), i < j PROVE r[i] < r[j]
      OBVIOUS
    <3>1. i + 1 < j + 1 OBVIOUS
    <3>2. QED BY <2>1, <2>3, <3>1
  <2>9. \A i \in 1 .. Len(u) : u[i].frame \in 1 .. n
    <3> SUFFICES ASSUME NEW i \in 1 .. Len(u) PROVE u[i].frame \in 1 .. n
      OBVIOUS
    <3>1. CASE i \in 1 .. k BY <1>10, <2>4, <3>1
    <3>2. CASE i = k + 1 BY <1>3, <1>8, <1>10, <3>2 DEF n
    <3>3. QED BY <1>11, <3>1, <3>2
  <2>10. \A i, j \in 1 .. Len(u) : i < j => u[i].frame < u[j].frame
    <3> SUFFICES ASSUME NEW i \in 1 .. Len(u), NEW j \in 1 .. Len(u), i < j
                 PROVE  u[i].frame < u[j].frame
      OBVIOUS
    <3>1. i \in 1 .. k BY <1>10
    <3>2. CASE j \in 1 .. k BY <1>10, <2>5, <3>1, <3>2
    <3>3. CASE j = k + 1 BY <1>8, <1>10, <2>4, <3>1, <3>3
    <3>4. QED BY <1>11, <3>2, <3>3
  <2>11. \A i \in 1 .. Len(u), j \in 1 .. Len(r) : u[i].frame < r[j]
    <3> SUFFICES ASSUME NEW i \in 1 .. Len(u), NEW j \in 1 .. Len(r) PROVE u[i].frame < r[j]
      OBVIOUS
    <3>1. CASE i \in 1 .. k BY <1>10, <2>1, <2>6, <3>1
    <3>2. CASE i = k + 1 BY <1>8, <1>10, <2>7, <3>2
    <3>3. QED BY <1>11, <3>1, <3>2
  <2>12. QED BY <2>7, <2>8, <2>9, <2>10, <2>11 DEF LineSound
<1>13. VideoTypes'
  <2>1. videoQueue' \in [Conn -> Seq(Nat)] BY <1>2, <1>6 DEF VideoTypes
  <2>2. sent' \in [Conn -> Seq([frame : Nat, pts : Nat])] BY <1>6, <1>9 DEF VideoTypes
  <2>3. trackPts' \in [Conn -> Clock] BY <1>5, <1>6 DEF VideoTypes
  <2>4. QED BY <1>6, <1>20, <2>1, <2>2, <2>3 DEF VideoTypes
<1>14. ClocksSound' /\ PtsSound'
  <2>1. ASSUME NEW d \in Conn PROVE trackPts'[d].last = NoTime \/ trackPts'[d].last \in 0 .. now
    <3>1. trackPts'[d] = trackPts[d] \/ trackPts'[d].last = now BY <1>5, <1>6 DEF VideoTypes
    <3>2. now \in 0 .. now BY DEF VideoTypes
    <3>3. QED BY <3>1, <3>2 DEF ClocksSound
  <2>2. ClocksSound' BY <1>6, <2>1 DEF ClocksSound
  <2>3. ASSUME NEW g \in 1 .. Len(frames), Timed(frames[g])
        PROVE  g \in complete' /\ pts'[g] = pts[g]
    <3>1. g \in complete BY <2>3 DEF PtsSound
    <3>2. g \in 1 .. Len(pts) BY DEF VideoTypes
    <3>3. QED BY <1>6, <1>21, <3>1, <3>2
  <2>4. PtsSound' BY <1>6, <2>3 DEF PtsSound
  <2>5. QED BY <2>2, <2>4
<1>15. LinesSound'
  <2>1. ASSUME NEW d \in Conn PROVE LineSound(videoQueue'[d], sent'[d], n)
    <3>1. CASE d = c
      <4>1. videoQueue'[c] = r /\ sent'[c] = u BY <1>6 DEF VideoTypes, r
      <4>2. QED BY <1>12, <3>1, <4>1
    <3>2. CASE d # c
      <4>1. videoQueue'[d] = videoQueue[d] /\ sent'[d] = sent[d] BY <1>6, <3>2 DEF VideoTypes
      <4>2. QED BY <4>1 DEF LinesSound, n
    <3>3. QED BY <3>1, <3>2
  <2>2. QED BY <1>6, <2>1 DEF LinesSound, n
<1>16. SentSound'
  <2>1. ASSUME NEW d \in Conn, NEW i \in 1 .. Len(sent[d])
        PROVE  sent[d][i].frame \in complete' /\ sent[d][i].pts = pts'[sent[d][i].frame]
    <3>1. sent[d][i].frame \in 1 .. Len(pts) BY DEF LinesSound, LineSound, VideoTypes
    <3>2. sent[d][i].frame \in complete /\ sent[d][i].pts = pts[sent[d][i].frame] BY DEF SentSound
    <3>3. QED BY <1>6, <1>21, <3>1, <3>2
  <2>2. ASSUME NEW d \in Conn, NEW i \in 1 .. Len(sent'[d])
        PROVE  sent'[d][i].frame \in complete' /\ sent'[d][i].pts = pts'[sent'[d][i].frame]
    <3>1. CASE d = c
      <4>1. sent'[c] = u BY <1>6 DEF VideoTypes
      <4>2. CASE i \in 1 .. k BY <1>10, <2>1, <3>1, <4>1, <4>2 DEF k
      <4>3. CASE i = k + 1 BY <1>6, <1>8, <1>10, <1>20, <3>1, <4>1, <4>3
      <4>4. QED BY <1>11, <3>1, <4>1, <4>2, <4>3
    <3>2. CASE d # c
      <4>1. sent'[d] = sent[d] BY <1>6, <3>2 DEF VideoTypes
      <4>2. QED BY <2>1, <4>1
    <3>3. QED BY <3>1, <3>2
  <2>3. QED BY <2>2 DEF SentSound
<1>17. QED BY <1>13, <1>14, <1>15, <1>16

LEMMA VideoInterruptedStep ==
  ASSUME VideoInv, NEW c \in Conn, VideoInterrupted(c)
  PROVE  VideoInv'
<1> USE DEF VideoInv
<1>1. /\ videoQueue' = [videoQueue EXCEPT ![c] = <<>>]
      /\ UNCHANGED <<now, frames, pts, complete, sessionPts, trackPts, firstPts, sent>>
  BY DEF VideoInterrupted
<1>2. \A d \in Conn : LineSound(videoQueue'[d], sent[d], Len(frames))
  <2> SUFFICES ASSUME NEW d \in Conn PROVE LineSound(videoQueue'[d], sent[d], Len(frames))
    OBVIOUS
  <2>1. LineSound(videoQueue[d], sent[d], Len(frames)) BY DEF LinesSound
  <2>2. CASE d = c
    <3>1. videoQueue'[d] = <<>> BY <1>1, <2>2 DEF VideoTypes
    <3>2. 1 .. Len(<<>>) = {} OBVIOUS
    <3>3. QED BY <2>1, <3>1, <3>2 DEF LineSound
  <2>3. CASE d # c
    <3>1. videoQueue'[d] = videoQueue[d] BY <1>1, <2>3 DEF VideoTypes
    <3>2. QED BY <2>1, <3>1
  <2>4. QED BY <2>2, <2>3
<1>3. VideoTypes' BY <1>1 DEF VideoTypes
<1>4. LinesSound' BY <1>1, <1>2 DEF LinesSound
<1>5. ClocksSound' /\ PtsSound' /\ SentSound' BY <1>1 DEF ClocksSound, PtsSound, SentSound
<1>6. QED BY <1>3, <1>4, <1>5

(* A step that no frame sees: somebody leaves, or time passes. *)
LEMMA UnseenStep ==
  ASSUME VideoInv, now' = now \/ now' = now + 1,
         UNCHANGED <<frames, pts, complete, sessionPts, trackPts, videoQueue, firstPts, sent>>
  PROVE  VideoInv'
<1> USE DEF VideoInv
<1>1. VideoTypes' BY DEF VideoTypes
<1>2. ClocksSound'
  <2>1. now \in Nat /\ \A d \in Conn : /\ firstPts[d] \in Int /\ sessionPts[d].last \in Int
                                        /\ trackPts[d].last \in Int
    BY DEF VideoTypes, Clock
  <2>2. ASSUME NEW x \in Int
        PROVE  /\ x \in 0 .. now => x \in 0 .. now'
               /\ x \in Offset .. (Offset + now) => x \in Offset .. (Offset + now')
    BY <2>1, VideoAssumption
  <2>3. QED BY <2>1, <2>2 DEF ClocksSound
<1>3. PtsSound' /\ LinesSound' /\ SentSound' BY DEF PtsSound, LinesSound, SentSound
<1>4. QED BY <1>1, <1>2, <1>3

LEMMA VideoStarts == VideoInit => VideoInv
<1> SUFFICES ASSUME VideoInit PROVE VideoInv
  OBVIOUS
<1> USE DEF VideoInit
<1>1. VideoTypes BY DEF VideoTypes, Clock, NoTime, NoPts
<1>2. ClocksSound BY DEF ClocksSound
<1>3. 1 .. Len(<<>>) = {} OBVIOUS
<1>4. PtsSound BY <1>3 DEF PtsSound
<1>5. LinesSound BY <1>3 DEF LinesSound, LineSound
<1>6. SentSound BY <1>3 DEF SentSound
<1>7. QED BY <1>1, <1>2, <1>4, <1>5, <1>6 DEF VideoInv

LEMMA VideoSteps ==
  ASSUME VideoInv, [VideoNext]_videoVars
  PROVE  VideoInv'
<1>1. ASSUME NEW c \in Conn, CameraFrame(c) PROVE VideoInv' BY <1>1, CameraFrameStep
<1>2. ASSUME NEW c \in Conn, ModelFrame(c) PROVE VideoInv' BY <1>2, ModelFrameStep
<1>3. ASSUME NEW c \in Conn, OverlayFrame(c) PROVE VideoInv' BY <1>3, OverlayFrameStep
<1>4. ASSUME NEW c \in Conn, TrackSends(c) PROVE VideoInv' BY <1>4, TrackSendsStep
<1>5. ASSUME NEW c \in Conn, VideoInterrupted(c) PROVE VideoInv' BY <1>5, VideoInterruptedStep
<1>6. ASSUME NEW c \in Conn, VideoLeave(c) PROVE VideoInv' BY <1>6, UnseenStep DEF VideoLeave
<1>7. CASE Passes BY <1>7, UnseenStep DEF Passes
<1>8. CASE UNCHANGED videoVars BY <1>8, UnseenStep DEF videoVars
<1>9. QED BY <1>1, <1>2, <1>3, <1>4, <1>5, <1>6, <1>7, <1>8 DEF VideoNext

(* OneTimeline: all tracks send a frame with the same pts, each in the order the
   frames were made, and those of one clock as far apart as they were made
   (connection.py:256-265, 567-577, recorder.py:86-97). *)
THEOREM AlwaysOneTimeline == VideoSpec => []OneTimeline
<1>1. VideoInit => VideoInv BY VideoStarts
<1>2. VideoInv /\ [VideoNext]_videoVars => VideoInv' BY VideoSteps
<1>3. VideoInv => OneTimeline BY SoundOneTimeline
<1>4. QED BY <1>1, <1>2, <1>3, PTL DEF VideoSpec
=============================================================================
