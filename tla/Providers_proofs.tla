-------------------------- MODULE Providers_proofs --------------------------
(***************************************************************************)
(* Proofs about the providers and what they borrow from their host:        *)
(* SharedModel, for any number of providers and variants of a class;       *)
(* MinimaxClips, for any number of providers, any models and any length of *)
(* their clips; LocalGeneration, for any number of messages and any length *)
(* of their answers; PortRange, for any number of negotiations and hosts   *)
(* and any range of ports; MujocoSim, for any queue of actions and any     *)
(* rates; CosmosWindow, for any window, overlap and frame rate;            *)
(* ScriptHost, for any number of scripts, models and handlers; and         *)
(* CartesiaSpeech, for any texts in any pieces.                            *)
(***************************************************************************)
EXTENDS SharedModel, MinimaxClips, LocalGeneration, PortRange, MujocoSim,
        CosmosWindow, ScriptHost, CartesiaSpeech, FiniteSetTheorems, SequenceTheorems,
        WellFoundedInduction, TLAPS

-----------------------------------------------------------------------------
(* SharedModel                                                             *)

\* RightModel is not inductive by itself: Load reuses `shared` because of what
\* `loaded` says, so the two must agree.
SharedInv == TypeOK /\ RightModel /\ RecordMatches

LEMMA SharedInductive ==
  ASSUME ~Swallow
  PROVE  /\ Init => SharedInv
         /\ SharedInv /\ [Next]_vars => SharedInv'
<1> USE SharedModelAssumption DEF SharedInv, TypeOK, RightModel, RecordMatches
<1>1. Init => SharedInv
  BY DEF Init
<1>2. ASSUME SharedInv, [Next]_vars PROVE SharedInv'
  <2>1. CASE UNCHANGED vars BY <1>2, <2>1 DEF vars
  <2>2. ASSUME NEW p \in Provider, Load(p) PROVE SharedInv'
    <3>1. CASE shared # None /\ loaded = wants[p]
      BY <1>2, <2>2, <3>1 DEF Load, Take
    <3>2. CASE ~(shared # None /\ loaded = wants[p])
      BY <1>2, <2>2, <3>2 DEF Load
    <3>3. QED BY <3>1, <3>2
  <2>3. ASSUME NEW p \in Provider, Built(p) PROVE SharedInv'
    BY <1>2, <2>3 DEF Built, Take
  <2>4. ASSUME NEW p \in Provider, BuildFails(p) PROVE SharedInv'
    BY <1>2, <2>4 DEF BuildFails
  <2>5. ASSUME NEW p \in Provider, Close(p) PROVE SharedInv'
    BY <1>2, <2>5 DEF Close
  <2>6. QED BY <1>2, <2>1, <2>2, <2>3, <2>4, <2>5 DEF Next
<1>3. QED BY <1>1, <1>2

\* Whatever the interleaving of loads, failures and closes, no provider of a
\* class whose setup() raises runs a model of another variant (sam3.py:19-28).
THEOREM AlwaysRightModel == ~Swallow => (Spec => []RightModel)
<1> SUFFICES ASSUME ~Swallow PROVE Spec => []RightModel
  OBVIOUS
<1>1. SharedInv => RightModel BY DEF SharedInv
<1>2. (Init => SharedInv) /\ (SharedInv /\ [Next]_vars => SharedInv')
  BY SharedInductive
<1>3. QED BY <1>1, <1>2, PTL DEF Spec

-----------------------------------------------------------------------------
(* MinimaxClips                                                            *)

(* What OwnClip needs to be inductive: a clip is begun by the end of the load,
   the provider whose clip has the semaphore is the one thread that was not
   cancelled, a close() that was not late finds no load under way, and a clip
   is streamed once. *)
ClipInv ==
  /\ OwnClip
  /\ \A p \in Clip :
       /\ generation[p] # "none" => loader[p] = "loaded"
       /\ p \in threads => generation[p] = "generating" \/ p \in closedClip
       /\ p \in threads => loader[p] = "loaded" /\ generation[p] # "waiting"
       /\ p \in closedClip \ late => loader[p] \notin {"none", "waiting", "building"}
       /\ generation[p] \in {"none", "waiting", "generating"} => streamed[p] = 0
       /\ generation[p] = "streaming" => streamed[p] < ClipFrames
  /\ \A p, q \in Clip : generation[p] = "generating" /\ generation[q] = "generating" => p = q

LEMMA WantedPipeType == \A p : WantedPipe(p) \in {"custom", "default"} /\ WantedPipe(p) # NoPipe
  BY DEF WantedPipe, NoPipe

LEMMA ClipInitial == ClipInit => ClipInv
  BY ClipAssumption DEF ClipInit, ClipInv, OwnClip, ClipTypeOK, NoPipe

LEMMA ClipLoadStep ==
  ASSUME ClipInv, NEW p \in Clip,
         ConnectClip(p) \/ EnterSetup(p) \/ PipeBuilt(p) \/ PipeFails(p)
  PROVE  ClipInv'
<1> USE DEF ClipInv, OwnClip, ClipTypeOK
<1>1. CASE ConnectClip(p) BY <1>1 DEF ConnectClip
<1>2. CASE PipeFails(p) BY <1>2 DEF PipeFails
<1>3. ASSUME Loads(p, WantedPipe(p)), loader[p] \in {"waiting", "building"},
             UNCHANGED <<threads, streamed, closedClip, late>>,
             sharedPipe' \in {sharedPipe, WantedPipe(p)}
      PROVE  ClipInv'
  BY <1>3, WantedPipeType DEF Loads
<1>4. CASE PipeBuilt(p) BY <1>3, <1>4 DEF PipeBuilt
<1>5. CASE EnterSetup(p)
  <2>1. CASE sharedPipe = WantedPipe(p) BY <1>3, <1>5, <2>1 DEF EnterSetup, EnterClip
  <2>2. CASE sharedPipe # WantedPipe(p) BY <1>5, <2>2 DEF EnterSetup, EnterClip
  <2>3. QED BY <2>1, <2>2
<1>6. QED BY <1>1, <1>2, <1>4, <1>5

LEMMA ClipMadeStep ==
  ASSUME ClipInv, NEW p \in Clip,
         StartsThread(p) \/ ThreadEnds(p) \/ StreamsFrame(p) \/ CloseClip(p)
  PROVE  ClipInv'
<1> USE DEF ClipInv, OwnClip, ClipTypeOK
<1>1. CASE StartsThread(p) BY <1>1 DEF StartsThread
<1>2. CASE ThreadEnds(p) BY <1>2, ClipAssumption DEF ThreadEnds
<1>3. CASE StreamsFrame(p) BY <1>3, ClipAssumption DEF StreamsFrame
<1>4. CASE CloseClip(p) BY <1>4 DEF CloseClip, NoPipe
<1>5. QED BY <1>1, <1>2, <1>3, <1>4

(* However loads, clips and closes interleave, a provider makes its clip with
   the model it asked for, a close() after the load leaves no clip, and two
   threads run at once only when one was cancelled (minimax.py:68-107,
   225-229, model.py:283-296). *)
THEOREM AlwaysOwnClip == ClipSpec => []OwnClip
<1>1. ClipInv /\ [ClipNext]_clipVars => ClipInv'
  <2> SUFFICES ASSUME ClipInv, [ClipNext]_clipVars PROVE ClipInv'
    OBVIOUS
  <2>1. CASE UNCHANGED clipVars
    BY <2>1 DEF clipVars, ClipInv, OwnClip, ClipTypeOK
  <2>2. CASE ClipNext BY <2>2, ClipLoadStep, ClipMadeStep DEF ClipNext
  <2>3. QED BY <2>1, <2>2
<1>2. ClipInv => OwnClip BY DEF ClipInv
<1>3. QED BY <1>1, <1>2, ClipInitial, PTL DEF ClipSpec

-----------------------------------------------------------------------------
(* LocalGeneration                                                         *)

(* What InterruptedSilent needs to be inductive: the flag stays set until a
   message revives what was interrupted, what was answered is over, and only
   what was begun is interrupted. *)
TextInv ==
  /\ InterruptedSilent
  /\ \A g \in interrupted \intersect UnderWay : flag \/ g \in revived
  /\ \A g \in answered : reader[g] = "over"
  /\ \A g \in interrupted : reader[g] # "unused"

LEMMA TextSwitchStep ==
  ASSUME TextInv, LlmConnect \/ TokenizerLoaded \/ LlmConnected \/ SendText \/ ClearText \/ CloseText
  PROVE  TextInv'
<1> USE DEF TextInv, InterruptedSilent, TextTypeOK, UnderWay
<1>1. CASE LlmConnect BY <1>1 DEF LlmConnect
<1>2. CASE TokenizerLoaded \/ LlmConnected BY <1>2 DEF TokenizerLoaded, LlmConnected
<1>3. CASE SendText
  <2>1. CASE llm.model /\ llm.tokenizer
    <3>1. PICK g \in Generations : reader[g] = "unused" /\ reader' = [reader EXCEPT ![g] = "reading"]
      BY <1>3, <2>1 DEF SendText
    <3>2. QED BY <1>3, <3>1 DEF SendText
  <2>2. CASE ~(llm.model /\ llm.tokenizer) BY <1>3, <2>2 DEF SendText
  <2>3. QED BY <2>1, <2>2
<1>4. CASE ClearText BY <1>4 DEF ClearText
<1>5. CASE CloseText BY <1>5 DEF CloseText
<1>6. QED BY <1>1, <1>2, <1>3, <1>4, <1>5

LEMMA TextStreamStep ==
  ASSUME TextInv, NEW g \in Generations,
         Streamed(g) \/ Resumes(g) \/ GenerationEnds(g) \/ ThreadRaises(g)
  PROVE  TextInv'
<1> USE DEF TextInv, InterruptedSilent, TextTypeOK, UnderWay
<1>1. CASE Streamed(g) BY <1>1, TextAssumption DEF Streamed
<1>2. CASE Resumes(g) BY <1>2 DEF Resumes
<1>3. CASE GenerationEnds(g) BY <1>3 DEF GenerationEnds, Answers
<1>4. CASE ThreadRaises(g) BY <1>4 DEF ThreadRaises
<1>5. QED BY <1>1, <1>2, <1>3, <1>4

(* An interrupted generation emits no answer, unless another message came
   while it was still under way (local_llm.py:59, 109, 120). *)
THEOREM AlwaysInterruptedSilent == TextSpec => []InterruptedSilent
<1>1. ASSUME TextInit PROVE TextInv
  <2>1. flag \in BOOLEAN BY <1>1, Zenon DEF TextInit
  <2>2. response \in [Generations -> 0 .. MaxResponse] BY <1>1, TextAssumption DEF TextInit
  <2>3. answered = {} /\ interrupted = {} /\ revived = {} BY <1>1 DEF TextInit
  <2>4. llmLoad = "none" /\ reader = [g \in Generations |-> "unused"] BY <1>1 DEF TextInit
  <2>5. llm \in [tokenizer : BOOLEAN, model : BOOLEAN] BY <1>1, Zenon DEF TextInit
  <2>6. QED
    BY <2>1, <2>2, <2>3, <2>4, <2>5 DEF TextInv, InterruptedSilent, TextTypeOK, UnderWay
<1>2. TextInv /\ [TextNext]_textVars => TextInv'
  <2> SUFFICES ASSUME TextInv, [TextNext]_textVars PROVE TextInv'
    OBVIOUS
  <2>1. CASE UNCHANGED textVars
    BY <2>1 DEF textVars, TextInv, InterruptedSilent, TextTypeOK, UnderWay
  <2>2. CASE TextNext BY <2>2, TextSwitchStep, TextStreamStep DEF TextNext
  <2>3. QED BY <2>1, <2>2
<1>3. TextInv => InterruptedSilent BY DEF TextInv
<1>4. QED BY <1>1, <1>2, <1>3, PTL DEF TextSpec

-----------------------------------------------------------------------------
(* PortRange                                                               *)

(* What RangeSound needs to be inductive: a negotiation that has not begun is
   found by none, and as long as contexts do not overlap the one that gathers,
   if there is one, is installed and found the loop's own function. *)
PortInv ==
  /\ RangeSound
  /\ installed \in Entered \union {Loop}
  /\ ~crossed =>
       /\ \A m, n \in Gathering : m = n
       /\ \A n \in Gathering : installed = n /\ found[n] = Loop
       /\ \A n \in Negotiation : sockets[n] \subseteq Ports

LEMMA PortInitial == PortInit => PortInv
<1> SUFFICES ASSUME PortInit PROVE PortInv
  OBVIOUS
<1>1. Entered = {} /\ Gathering = {}
  BY DEF PortInit, Entered, Gathering
<1>2. PortTypeOK
  <2>1. sockets \in [Negotiation -> SUBSET (Ports \union {Ephemeral})]
    BY DEF PortInit
  <2>2. asked \in [Negotiation -> 0 .. Hosts]
    BY PortRangeAssumption DEF PortInit
  <2>3. QED BY <2>1, <2>2 DEF PortInit, PortTypeOK, Functions
<1>3. QED
  BY <1>1, <1>2 DEF PortInit, PortInv, RangeSound, SerialInRange, CandidatesInRange, LoopRestored, ChainEnds

LEMMA EphemeralOutside == Ephemeral \notin Ports /\ Loop \notin Negotiation
BY PortRangeAssumption, LoopAssumption DEF Ephemeral, Ports

LEMMA EnterStep ==
  ASSUME PortInv, NEW n \in Negotiation, Enter(n)
  PROVE  PortInv'
<1> USE EphemeralOutside DEF PortInv, RangeSound, PortTypeOK, Enter
<1>1. PortTypeOK' BY DEF Functions
<1>2. Entered' = Entered \union {n} /\ n \notin Entered
  BY DEF Entered
<1>3. Gathering' = Gathering \union {n}
  BY DEF Gathering
<1>4. installed' = n /\ n \in Entered'
  BY <1>2
<1>5. ChainEnds'
  <2>1. \A m \in Entered' : found'[m] \in Entered' \union {Loop}
    BY <1>2 DEF ChainEnds, Entered
  <2>2. ASSUME NEW together \in SUBSET Entered', together # {}
        PROVE  \E m \in together : found'[m] \notin together
    <3>1. CASE together = {n}
      BY <1>2, <3>1
    <3>2. CASE together \ {n} # {}
      <4>1. together \ {n} \in SUBSET Entered
        BY <1>2
      <4>2. PICK m \in together \ {n} : found[m] \notin together \ {n}
        BY <3>2, <4>1 DEF ChainEnds
      <4>3. m \in Entered /\ m # n /\ found'[m] = found[m]
        BY <4>1 DEF Entered
      <4>4. found[m] # n
        BY <1>2, <4>3 DEF ChainEnds
      <4>5. QED BY <4>2, <4>3, <4>4
    <3>3. QED BY <2>2, <3>1, <3>2
  <2>3. QED BY <2>1, <2>2 DEF ChainEnds
<1>6. ~crossed' => Gathering = {} /\ installed = Loop /\ ~crossed
  BY DEF LoopRestored
<1>7. ~crossed' => CandidatesInRange'
  BY <1>6 DEF SerialInRange, CandidatesInRange, Ports
<1>8. QED BY <1>1, <1>3, <1>4, <1>5, <1>6, <1>7 DEF SerialInRange, CandidatesInRange, LoopRestored, Ports, Gathering

LEMMA AskStep ==
  ASSUME PortInv, NEW n \in Negotiation, Ask(n)
  PROVE  PortInv'
<1> USE EphemeralOutside DEF PortInv, RangeSound, PortTypeOK, Ask
<1>1. PortTypeOK'
  BY PortRangeAssumption DEF Functions, FreePorts
<1>2. Entered' = Entered /\ Gathering' = Gathering /\ n \in Gathering
  BY DEF Entered, Gathering
<1>3. ~crossed => sockets'[n] \subseteq Ports
  BY <1>2 DEF FreePorts
<1>4. ChainEnds' /\ LoopRestored'
  BY <1>2 DEF ChainEnds, LoopRestored
<1>5. ~crossed => \A m \in Negotiation : sockets'[m] \subseteq Ports
  BY <1>3
<1>6. QED BY <1>1, <1>2, <1>4, <1>5 DEF SerialInRange, CandidatesInRange, Ports

LEMMA LeaveStep ==
  ASSUME PortInv, NEW n \in Negotiation, Leave(n)
  PROVE  PortInv'
<1> USE EphemeralOutside DEF PortInv, RangeSound, PortTypeOK, Leave
<1>1. PortTypeOK' BY DEF Functions
<1>2. Entered' = Entered /\ Gathering' = Gathering \ {n} /\ n \in Gathering /\ n \in Entered
  BY DEF Entered, Gathering
<1>3. ChainEnds' /\ installed' \in Entered' \union {Loop}
  BY <1>2 DEF ChainEnds
<1>4. ~crossed => Gathering' = {} /\ installed' = Loop
  BY <1>2
<1>5. QED BY <1>1, <1>3, <1>4 DEF SerialInRange, CandidatesInRange, LoopRestored, Ports

LEMMA ClosePeerStep ==
  ASSUME PortInv, NEW n \in Negotiation, ClosePeer(n)
  PROVE  PortInv'
<1> USE EphemeralOutside DEF PortInv, RangeSound, PortTypeOK, ClosePeer
<1>1. PortTypeOK' OBVIOUS
<1>2. Entered' = Entered /\ Gathering' = Gathering
  BY DEF Entered, Gathering
<1>3. \A m \in Negotiation : sockets'[m] \subseteq sockets[m]
  OBVIOUS
<1>4. QED BY <1>1, <1>2, <1>3 DEF SerialInRange, CandidatesInRange, LoopRestored, ChainEnds, Ports

(* However the contexts of the negotiations overlap, the loop's function is
   restored and the candidates stay in the range when they do not, and the
   chain of functions ends at the loop's own in any case
   (port_range.py:58-84). *)
THEOREM AlwaysRangeSound == PortSpec => []RangeSound
<1>1. PortInv /\ [PortNext]_portVars => PortInv'
  <2> SUFFICES ASSUME PortInv, [PortNext]_portVars PROVE PortInv'
    OBVIOUS
  <2>1. CASE UNCHANGED portVars
    BY <2>1 DEF portVars, PortInv, RangeSound, PortTypeOK, SerialInRange, CandidatesInRange,
                LoopRestored, ChainEnds, Entered, Gathering, Ports
  <2>2. CASE PortNext
    BY <2>2, EnterStep, AskStep, LeaveStep, ClosePeerStep DEF PortNext
  <2>3. QED BY <2>1, <2>2
<1>2. PortInv => RangeSound BY DEF PortInv
<1>3. QED BY <1>1, <1>2, PortInitial, PTL DEF PortSpec

-----------------------------------------------------------------------------
(* MujocoSim                                                               *)

(* Which jobs the executor has, and what became of the renderer, by where the
   loop is: a job is queued behind another only by the loop's end, which puts
   stop() last, and a close() that the loop did not see begin was early. *)
PlaceSound ==
  /\ loop = "none" =>
       jobs = <<>> /\ renderer = "none" /\ simCloser \in {"open", "closed"}
  /\ loop = "starting" =>
       /\ (jobs = <<"start">> /\ renderer = "none") \/ (jobs = <<>> /\ renderer = "open")
       /\ simCloser = "open" \/ (simCloser = "closed" /\ early)
  /\ loop \in {"spawned", "deciding"} =>
       /\ jobs = <<>> /\ renderer = "open"
       /\ loop = "spawned" => simCloser # "stopping"
       /\ simCloser = "closed" => early
  /\ loop = "awaiting" =>
       /\ jobs \in {<<>>, <<"step">>, <<"render">>} /\ renderer = "open"
       /\ simCloser # "closed" /\ rendered < MaxRendered
  /\ loop = "stopping" =>
       \/ /\ jobs \in {<<"stop">>, <<"step", "stop">>, <<"render", "stop">>}
          /\ renderer = "open" /\ simCloser = "stopping"
       \/ /\ jobs = <<>> /\ simCloser # "open"
          /\ renderer = "closed" \/ (simCloser = "closed" /\ early)
  /\ loop = "over" => jobs = <<>> /\ simCloser # "open" /\ (renderer # "open" \/ early)
  /\ loop = "dead" => jobs = <<>> /\ (renderer # "open" \/ (early /\ simCloser # "open"))
  /\ loop = "refused" => jobs = <<>> /\ renderer = "none" /\ simCloser = "closed"

StepSound == inStep # "no" => jobs \in {<<"step">>, <<"step", "stop">>}

\* What the step has read is where the joint was, unless a reset came after.
ReadSound == inStep = "read" /\ ~overrun /\ value <= moved => value = Clipped(moved)

\* What was yielded and then what is queued are frames in their order.
FramesSound ==
  /\ \A i, j \in 1 .. Len(yielded) : i < j => yielded[i] < yielded[j]
  /\ \A i, j \in 1 .. Len(frameQueue) : i < j => frameQueue[i] < frameQueue[j]
  /\ \A i \in 1 .. Len(yielded), j \in 1 .. Len(frameQueue) : yielded[i] < frameQueue[j]
  /\ \A i \in 1 .. Len(yielded) : yielded[i] \in 1 .. rendered
  /\ \A i \in 1 .. Len(frameQueue) : frameQueue[i] \in 1 .. rendered

\* A reset that no step raced has brought the position home.
RaceSound == resetting /\ ~raced => qpos = Home

SimInv ==
  SimTypeOK /\ PlaceSound /\ StepSound /\ ReadSound /\ RaceSound /\ ResetHomes /\ FramesSound

(* The lists of jobs that there are. *)
LEMMA JobFacts ==
  /\ \A a : <<a>> # <<>> /\ Head(<<a>>) = a /\ Tail(<<a>>) = <<>> /\ Append(<<>>, a) = <<a>>
  /\ \A a, b : /\ <<a, b>> # <<>> /\ Head(<<a, b>>) = a /\ Tail(<<a, b>>) = <<b>>
               /\ Append(<<a>>, b) = <<a, b>>
               /\ <<a>> = <<b>> => a = b
  /\ \A a, b, c : <<a, b>> # <<c>>
  /\ \A a, b, c, d : <<a, b>> = <<c, d>> => a = c /\ b = d
<1>1. \A a : <<a>> # <<>> /\ Head(<<a>>) = a /\ Tail(<<a>>) = <<>> /\ Append(<<>>, a) = <<a>>
  OBVIOUS
<1>2. \A a, b : <<a, b>> # <<>> /\ Head(<<a, b>>) = a OBVIOUS
<1>3. \A a, b : Tail(<<a, b>>) = <<b>> OBVIOUS
<1>4. \A a, b : Append(<<a>>, b) = <<a, b>>
  <2> SUFFICES ASSUME NEW a, NEW b PROVE Append(<<a>>, b) = <<a, b>>
    OBVIOUS
  <2> DEFINE p == Append(<<a>>, b)
             q == <<a, b>>
  <2>1. <<a>> \in Seq({a, b}) /\ Len(<<a>>) = 1 /\ <<a>>[1] = a OBVIOUS
  <2>2. /\ p \in Seq({a, b}) /\ Len(p) = 2 /\ p[2] = b
        /\ p[1] = a
    BY <2>1, AppendProperties
  <2>3. q \in Seq({a, b}) /\ Len(q) = 2 /\ q[1] = a /\ q[2] = b OBVIOUS
  <2> HIDE DEF p, q
  <2>4. \A i \in 1 .. 2 : i = 1 \/ i = 2 OBVIOUS
  <2>5. \A i \in 1 .. Len(p) : p[i] = q[i] BY <2>2, <2>3, <2>4
  <2>6. p = q BY <2>2, <2>3, <2>5, SeqEqual
  <2>7. QED BY <2>6 DEF p, q
<1>5. \A a, b : <<a>> = <<b>> => a = b OBVIOUS
<1>6. \A a, b, c : <<a, b>> # <<c>> OBVIOUS
<1>7. \A a, b, c, d : <<a, b>> = <<c, d>> => a = c /\ b = d OBVIOUS
<1>8. QED BY <1>1, <1>2, <1>3, <1>4, <1>5, <1>6, <1>7

LEMMA JobLists ==
  /\ Tail(<<"start">>) = <<>> /\ Tail(<<"stop">>) = <<>>
  /\ \A a \in {"step", "render"} :
       /\ Tail(<<a>>) = <<>> /\ Tail(<<a, "stop">>) = <<"stop">>
       /\ Append(<<a>>, "stop") = <<a, "stop">>
  /\ Append(<<>>, "start") = <<"start">> /\ Append(<<>>, "stop") = <<"stop">>
  /\ {<<>>, <<"start">>, <<"step">>, <<"render">>, <<"stop">>, <<"step", "stop">>, <<"render", "stop">>}
       \subseteq Seq({"start", "step", "render", "stop"})
<1>1. /\ Tail(<<"start">>) = <<>> /\ Tail(<<"stop">>) = <<>>
      /\ \A a \in {"step", "render"} : Tail(<<a>>) = <<>>
      /\ Append(<<>>, "start") = <<"start">> /\ Append(<<>>, "stop") = <<"stop">>
  OBVIOUS
<1>2. \A a, b : Tail(<<a, b>>) = <<b>> /\ Append(<<a>>, b) = <<a, b>> BY JobFacts
<1>3. \A a \in {"step", "render"} :
        Tail(<<a, "stop">>) = <<"stop">> /\ Append(<<a>>, "stop") = <<a, "stop">>
  BY <1>2, Zenon
<1>4. {<<>>, <<"start">>, <<"step">>, <<"render">>, <<"stop">>, <<"step", "stop">>, <<"render", "stop">>}
        \subseteq Seq({"start", "step", "render", "stop"})
  OBVIOUS
<1>5. QED BY <1>1, <1>3, <1>4

LEMMA SoundSim == SimInv => SimSound
<1> SUFFICES ASSUME SimInv PROVE SimSound
  OBVIOUS
<1> USE DEF SimInv
<1>1. simCloser = "closed" /\ ~early => renderer # "open" /\ jobs = <<>>
  BY DEF SimTypeOK, PlaceSound
<1>2. jobs # <<>> /\ Head(jobs) \in {"step", "render", "stop"} => renderer = "open"
  BY JobFacts DEF SimTypeOK, PlaceSound
<1>3. FramesInOrder
  <2> SUFFICES ASSUME NEW i \in 1 .. Len(yielded) - 1 PROVE yielded[i] < yielded[i + 1]
    BY DEF FramesInOrder
  <2>1. Len(yielded) \in Nat BY DEF SimTypeOK
  <2>2. i \in 1 .. Len(yielded) /\ i + 1 \in 1 .. Len(yielded) /\ i < i + 1 BY <2>1
  <2>3. QED BY <2>2 DEF FramesSound
<1>4. QED BY <1>1, <1>2, <1>3 DEF SimSound, SimStops

LEMMA SimStarts == SimInit => SimInv
<1> SUFFICES ASSUME SimInit PROVE SimInv
  OBVIOUS
<1> USE SimAssumption DEF SimInit, Home
<1>1. SimTypeOK
  <2>1. Home \in 0 .. Highest /\ 0 \in 0 .. StepsPerFrame /\ 0 \in 0 .. MaxRendered
        /\ 0 \in 0 .. Highest + 1
    OBVIOUS
  <2>2. <<>> \in Seq({"start", "step", "render", "stop"}) /\ <<>> \in Seq(1 .. MaxRendered)
    OBVIOUS
  <2>3. {target, value, qpos} \subseteq 0 .. Highest BY <2>1
  <2>4. QED BY <2>1, <2>2, <2>3 DEF SimTypeOK
<1>2. PlaceSound /\ StepSound /\ ReadSound /\ RaceSound BY DEF PlaceSound, StepSound, ReadSound, RaceSound
<1>3. ResetHomes BY DEF ResetHomes, Clipped
<1>4. 1 .. Len(<<>>) = {} OBVIOUS
<1>5. FramesSound BY <1>4 DEF FramesSound
<1>6. QED BY <1>1, <1>2, <1>3, <1>5 DEF SimInv

(* The frames: the loop makes one, recv() yields one. *)
FrameTypes ==
  /\ rendered \in 0 .. MaxRendered
  /\ frameQueue \in Seq(1 .. MaxRendered) /\ yielded \in Seq(1 .. MaxRendered)

LEMMA ResumesFrames ==
  ASSUME SimInv, LoopResumes
  PROVE  FramesSound' /\ FrameTypes'
<1> USE SimAssumption DEF SimInv
<1>1. CASE UNCHANGED frameVars
  BY <1>1 DEF frameVars, FramesSound, FrameTypes, SimTypeOK
<1>2. CASE ~UNCHANGED frameVars
  <2> DEFINE q == IF Len(frameQueue) = QueueSize THEN Tail(frameQueue) ELSE frameQueue
             n == rendered + 1
             p == Append(q, n)
  <2>1. rendered' = n /\ frameQueue' = p /\ yielded' = yielded
    BY <1>2 DEF LoopResumes, frameVars
  <2>2. /\ rendered \in 0 .. MaxRendered /\ frameQueue \in Seq(1 .. MaxRendered)
        /\ yielded \in Seq(1 .. MaxRendered)
    BY DEF SimTypeOK
  <2>3. n \in 1 .. MaxRendered /\ rendered \in Nat
    <3>1. rendered < MaxRendered BY DEF LoopResumes, PlaceSound
    <3>2. QED BY <2>2, <3>1
  <2>4. /\ q \in Seq(1 .. MaxRendered)
        /\ \A i, j \in 1 .. Len(q) : i < j => q[i] < q[j]
        /\ \A i \in 1 .. Len(yielded), j \in 1 .. Len(q) : yielded[i] < q[j]
        /\ \A i \in 1 .. Len(q) : q[i] \in 1 .. rendered
    <3>1. CASE Len(frameQueue) = QueueSize
      <4>1. frameQueue # <<>> BY <3>1, EmptySeq
      <4>2. /\ Tail(frameQueue) \in Seq(1 .. MaxRendered)
            /\ Len(Tail(frameQueue)) = Len(frameQueue) - 1 /\ Len(frameQueue) \in Nat
            /\ \A i \in 1 .. Len(Tail(frameQueue)) : Tail(frameQueue)[i] = frameQueue[i + 1]
        BY <2>2, <4>1, HeadTailProperties
      <4>3. \A i \in 1 .. Len(Tail(frameQueue)) : i + 1 \in 1 .. Len(frameQueue) BY <4>2
      <4>4. QED BY <3>1, <4>2, <4>3 DEF FramesSound
    <3>2. CASE Len(frameQueue) # QueueSize BY <2>2, <3>2 DEF FramesSound
    <3>3. QED BY <3>1, <3>2
  <2> HIDE DEF q, n
  <2>5. /\ p \in Seq(1 .. MaxRendered) /\ Len(p) = Len(q) + 1 /\ Len(q) \in Nat
        /\ p[Len(q) + 1] = n /\ \A i \in 1 .. Len(q) : p[i] = q[i]
    BY <2>3, <2>4, AppendProperties
  <2> DEFINE k == Len(q)
  <2> HIDE DEF p, k
  <2>6. /\ k \in Nat /\ Len(p) = k + 1 /\ p[k + 1] = n /\ \A i \in 1 .. k : p[i] = q[i]
        /\ \A i \in 1 .. k : q[i] \in 1 .. rendered
        /\ \A i, j \in 1 .. k : i < j => q[i] < q[j]
        /\ \A i \in 1 .. Len(yielded), j \in 1 .. k : yielded[i] < q[j]
    BY <2>4, <2>5 DEF k
  <2>7. n = rendered + 1 BY DEF n
  <2>8. \A i \in 1 .. k + 1 : i \in 1 .. k \/ i = k + 1 BY <2>6
  <2>9. \A i \in 1 .. Len(yielded) : yielded[i] \in 1 .. rendered BY DEF FramesSound
  <2>10. \A i, j \in 1 .. k + 1 : i < j => p[i] < p[j]
    <3> SUFFICES ASSUME NEW i \in 1 .. k + 1, NEW j \in 1 .. k + 1, i < j PROVE p[i] < p[j]
      OBVIOUS
    <3>1. i \in 1 .. k BY <2>6
    <3>2. CASE j \in 1 .. k BY <2>6, <3>1, <3>2
    <3>3. CASE j = k + 1 BY <2>3, <2>6, <2>7, <3>1, <3>3
    <3>4. QED BY <2>8, <3>2, <3>3
  <2>11. \A i \in 1 .. Len(yielded), j \in 1 .. k + 1 : yielded[i] < p[j]
    <3> SUFFICES ASSUME NEW i \in 1 .. Len(yielded), NEW j \in 1 .. k + 1 PROVE yielded[i] < p[j]
      OBVIOUS
    <3>1. CASE j \in 1 .. k BY <2>6, <3>1
    <3>2. CASE j = k + 1 BY <2>3, <2>6, <2>7, <2>9, <3>2
    <3>3. QED BY <2>8, <3>1, <3>2
  <2>12. \A j \in 1 .. k + 1 : p[j] \in 1 .. n
    <3> SUFFICES ASSUME NEW j \in 1 .. k + 1 PROVE p[j] \in 1 .. n
      OBVIOUS
    <3>1. CASE j \in 1 .. k BY <2>3, <2>6, <2>7, <3>1
    <3>2. CASE j = k + 1 BY <2>3, <2>6, <2>7, <3>2
    <3>3. QED BY <2>8, <3>1, <3>2
  <2>13. \A i \in 1 .. Len(yielded) : yielded[i] \in 1 .. n BY <2>3, <2>7, <2>9
  <2>14. FramesSound' BY <2>1, <2>6, <2>10, <2>11, <2>12, <2>13 DEF FramesSound
  <2>15. QED BY <2>1, <2>2, <2>3, <2>5, <2>14 DEF FrameTypes
<1>3. QED BY <1>1, <1>2

LEMMA YieldsFrames ==
  ASSUME SimInv, Yields
  PROVE  FramesSound' /\ FrameTypes'
<1> USE SimAssumption DEF SimInv
<1> DEFINE q == frameQueue
           r == Tail(q)
           s == yielded
           u == Append(s, Head(q))
<1>1. frameQueue' = r /\ yielded' = u /\ rendered' = rendered /\ q # <<>>
  BY DEF Yields
<1>2. /\ rendered \in 0 .. MaxRendered /\ q \in Seq(1 .. MaxRendered)
      /\ s \in Seq(1 .. MaxRendered)
  BY DEF SimTypeOK
<1>3. /\ r \in Seq(1 .. MaxRendered) /\ Len(r) = Len(q) - 1 /\ Len(q) \in Nat
      /\ \A i \in 1 .. Len(r) : r[i] = q[i + 1] /\ i + 1 \in 1 .. Len(q)
      /\ Head(q) = q[1] /\ 1 \in 1 .. Len(q)
  BY <1>1, <1>2, HeadTailProperties
<1>4. q[1] \in 1 .. MaxRendered BY <1>2, <1>3, ElementOfSeq
<1>5. /\ u \in Seq(1 .. MaxRendered) /\ Len(u) = Len(s) + 1 /\ Len(s) \in Nat
      /\ u[Len(s) + 1] = q[1] /\ \A i \in 1 .. Len(s) : u[i] = s[i]
  BY <1>2, <1>3, <1>4, AppendProperties
<1>6. /\ \A i, j \in 1 .. Len(s) : i < j => s[i] < s[j]
      /\ \A i, j \in 1 .. Len(q) : i < j => q[i] < q[j]
      /\ \A i \in 1 .. Len(s), j \in 1 .. Len(q) : s[i] < q[j]
      /\ \A i \in 1 .. Len(s) : s[i] \in 1 .. rendered
      /\ \A i \in 1 .. Len(q) : q[i] \in 1 .. rendered
  BY DEF FramesSound
<1> DEFINE k == Len(s)
<1> HIDE DEF q, r, s, u, k
<1>7. k \in Nat /\ Len(u) = k + 1 /\ u[k + 1] = q[1] /\ \A i \in 1 .. k : u[i] = s[i]
  BY <1>5 DEF k
<1>8. \A i \in 1 .. k + 1 : i \in 1 .. k \/ i = k + 1 BY <1>7
<1>9. \A i, j \in 1 .. k + 1 : i < j => u[i] < u[j]
  <2> SUFFICES ASSUME NEW i \in 1 .. k + 1, NEW j \in 1 .. k + 1, i < j PROVE u[i] < u[j]
    OBVIOUS
  <2>1. i \in 1 .. k BY <1>7
  <2>2. CASE j \in 1 .. k BY <1>6, <1>7, <2>1, <2>2 DEF k
  <2>3. CASE j = k + 1 BY <1>3, <1>6, <1>7, <2>1, <2>3 DEF k
  <2>4. QED BY <1>8, <2>2, <2>3
<1>10. \A i, j \in 1 .. Len(r) : i < j => r[i] < r[j]
  <2> SUFFICES ASSUME NEW i \in 1 .. Len(r), NEW j \in 1 .. Len(r), i < j PROVE r[i] < r[j]
    OBVIOUS
  <2>1. i + 1 < j + 1 OBVIOUS
  <2>2. QED BY <1>3, <1>6, <2>1
<1>11. \A i \in 1 .. k + 1, j \in 1 .. Len(r) : u[i] < r[j]
  <2> SUFFICES ASSUME NEW i \in 1 .. k + 1, NEW j \in 1 .. Len(r) PROVE u[i] < r[j]
    OBVIOUS
  <2>1. 1 < j + 1 OBVIOUS
  <2>2. CASE i \in 1 .. k BY <1>3, <1>6, <1>7, <2>2 DEF k
  <2>3. CASE i = k + 1 BY <1>3, <1>6, <1>7, <2>1, <2>3
  <2>4. QED BY <1>8, <2>2, <2>3
<1>12. \A i \in 1 .. k + 1 : u[i] \in 1 .. rendered
  <2> SUFFICES ASSUME NEW i \in 1 .. k + 1 PROVE u[i] \in 1 .. rendered
    OBVIOUS
  <2>1. CASE i \in 1 .. k BY <1>6, <1>7, <2>1 DEF k
  <2>2. CASE i = k + 1 BY <1>3, <1>6, <1>7, <2>2
  <2>3. QED BY <1>8, <2>1, <2>2
<1>13. \A i \in 1 .. Len(r) : r[i] \in 1 .. rendered BY <1>3, <1>6
<1>14. FramesSound' BY <1>1, <1>7, <1>9, <1>10, <1>11, <1>12, <1>13 DEF FramesSound
<1>15. QED BY <1>1, <1>2, <1>3, <1>5, <1>14 DEF FrameTypes

(* The joint: the thread, the keys and the reset move it. *)
JointTypes ==
  /\ inStep \in {"no", "read", "stored", "written"}
  /\ target \in 0 .. Highest /\ value \in 0 .. Highest /\ qpos \in 0 .. Highest
  /\ held \in BOOLEAN /\ resetting \in BOOLEAN /\ raced \in BOOLEAN /\ overrun \in BOOLEAN
  /\ moved \in 0 .. Highest + 1

JointSound == JointTypes /\ ReadSound /\ RaceSound /\ ResetHomes

LEMMA ThreadJoint ==
  ASSUME SimInv, ThreadReads \/ ThreadStores \/ ThreadWrites \/ ThreadSteps
  PROVE  JointSound'
<1> USE SimAssumption
<1>1. JointTypes /\ ReadSound /\ RaceSound /\ ResetHomes BY DEF SimInv, SimTypeOK, JointTypes
<1>2. /\ Highest \in Nat /\ target \in 0 .. Highest /\ value \in 0 .. Highest /\ qpos \in 0 .. Highest
      /\ moved \in 0 .. Highest + 1 /\ 0 \in 0 .. Highest
  BY <1>1 DEF JointTypes
<1>3. CASE ThreadReads
  <2>1. UNCHANGED jointVars /\ inStep' \in {"read", "stored"}
        /\ (inStep' = "read" => value' = target) /\ value' \in {target, value}
    BY <1>3 DEF ThreadReads
  <2>2. JointTypes' BY <1>1, <2>1 DEF JointTypes, jointVars
  <2>3. ReadSound' BY <1>1, <2>1 DEF ReadSound, ResetHomes, jointVars, Clipped
  <2>4. ResetHomes' /\ RaceSound' BY <1>1, <2>1 DEF ResetHomes, RaceSound, jointVars, Clipped, Home
  <2>5. QED BY <2>2, <2>3, <2>4 DEF JointSound
<1>4. CASE ThreadStores
  <2>1. /\ inStep = "read" /\ inStep' = "stored" /\ target' = Clipped(value + 1)
        /\ moved' = IF moved > Highest THEN moved ELSE moved + 1
        /\ overrun' = (overrun \/ value > moved)
        /\ UNCHANGED <<value, held, qpos, resetting, raced>>
    BY <1>4 DEF ThreadStores
  <2>2. JointTypes'
    <3>1. target' \in 0 .. Highest BY <1>2, <2>1 DEF Clipped
    <3>2. moved' \in 0 .. Highest + 1 BY <1>2, <2>1
    <3>3. overrun' \in BOOLEAN BY <1>1, <2>1 DEF JointTypes
    <3>4. QED BY <1>1, <2>1, <3>1, <3>2, <3>3 DEF JointTypes
  <2>3. ReadSound' /\ RaceSound' BY <1>1, <2>1 DEF ReadSound, RaceSound, Home
  <2>4. ASSUME ~overrun' PROVE target' = Clipped(moved')
    <3>1. ~overrun /\ ~(value > moved) BY <2>1, <2>4
    <3>2. value = Clipped(moved) BY <1>1, <1>2, <2>1, <3>1 DEF ReadSound
    <3>3. QED BY <1>2, <2>1, <3>1, <3>2 DEF Clipped
  <2>5. ResetHomes' BY <2>4 DEF ResetHomes, Clipped
  <2>6. QED BY <2>2, <2>3, <2>5 DEF JointSound
<1>5. CASE ThreadWrites \/ ThreadSteps
  <2>1. /\ UNCHANGED <<target, resetting, held, moved, overrun>>
        /\ inStep' \in {"written", "no"} /\ raced' = (raced \/ resetting)
        /\ qpos' \in {target, qpos, value} /\ value' \in {target, 0}
    BY <1>5 DEF ThreadWrites, ThreadSteps, Home
  <2>2. raced' \in BOOLEAN BY <1>1, <2>1 DEF JointTypes
  <2>3. qpos' \in 0 .. Highest /\ value' \in 0 .. Highest BY <1>2, <2>1
  <2>4. JointTypes' BY <1>1, <2>1, <2>2, <2>3 DEF JointTypes
  <2>5. ReadSound' /\ RaceSound' BY <2>1 DEF ReadSound, RaceSound
  <2>6. ResetHomes' BY <1>1, <2>1 DEF ResetHomes, Clipped
  <2>7. QED BY <2>4, <2>5, <2>6 DEF JointSound
<1>6. QED BY <1>3, <1>4, <1>5

LEMMA KeyJoint ==
  ASSUME SimInv,
         \/ KeyDown \/ KeyUp \/ ResetKey \/ ResetCopies
         \/ UNCHANGED <<inStep, value, jointVars>>
  PROVE  JointSound'
<1> USE SimAssumption
<1>1. JointTypes /\ ReadSound /\ RaceSound /\ ResetHomes BY DEF SimInv, SimTypeOK, JointTypes
<1>2. /\ Highest \in Nat /\ qpos \in 0 .. Highest /\ value \in 0 .. Highest
      /\ 0 \in 0 .. Highest /\ 0 \in 0 .. Highest + 1
  BY <1>1 DEF JointTypes
<1>3. CASE KeyDown \/ KeyUp
  <2>1. UNCHANGED <<inStep, value, target, qpos, resetting, moved, raced, overrun>> /\ held' \in BOOLEAN
    BY <1>3 DEF KeyDown, KeyUp
  <2>2. QED BY <1>1, <2>1 DEF JointSound, JointTypes, ReadSound, RaceSound, ResetHomes, Clipped
<1>4. CASE ResetKey
  <2>1. /\ qpos' = 0 /\ resetting' = TRUE /\ raced' = FALSE
        /\ UNCHANGED <<inStep, value, target, held, moved, overrun>>
    BY <1>4 DEF ResetKey, Home
  <2>2. JointTypes' BY <1>1, <1>2, <2>1 DEF JointTypes
  <2>3. ReadSound' /\ ResetHomes' BY <1>1, <2>1 DEF ReadSound, ResetHomes, Clipped
  <2>4. RaceSound' BY <2>1 DEF RaceSound, Home
  <2>5. QED BY <2>2, <2>3, <2>4 DEF JointSound
<1>5. CASE ResetCopies
  <2>1. /\ resetting /\ target' = qpos /\ resetting' = FALSE /\ moved' = 0 /\ overrun' = raced
        /\ UNCHANGED <<inStep, value, qpos, held, raced>>
    BY <1>5 DEF ResetCopies
  <2>2. JointTypes' BY <1>1, <1>2, <2>1 DEF JointTypes
  <2>3. ~overrun' => target' = 0 BY <1>1, <2>1 DEF RaceSound, Home
  <2>4. ReadSound' /\ RaceSound' BY <1>2, <2>1 DEF ReadSound, RaceSound, Clipped
  <2>5. ResetHomes' BY <1>2, <2>1, <2>3 DEF ResetHomes, Clipped
  <2>6. QED BY <2>2, <2>4, <2>5 DEF JointSound
<1>6. CASE UNCHANGED <<inStep, value, jointVars>>
  BY <1>1, <1>6 DEF JointSound, JointTypes, ReadSound, RaceSound, ResetHomes, jointVars, Clipped, Home
<1>7. QED BY <1>3, <1>4, <1>5, <1>6

(* The loop, the executor's jobs and the renderer. *)
PlaceTypes ==
  /\ loop \in {"none", "starting", "spawned", "deciding", "awaiting", "stopping", "over", "dead", "refused"}
  /\ stepsDone \in 0 .. StepsPerFrame
  /\ jobs \in Seq({"start", "step", "render", "stop"})
  /\ renderer \in {"none", "open", "closed"}
  /\ early \in BOOLEAN
  /\ simCloser \in {"open", "stopping", "closed"}

PlaceInv == PlaceTypes /\ PlaceSound /\ StepSound

LEMMA LoopPlace ==
  ASSUME SimInv, Connect \/ Connected \/ LoopStarts \/ LoopSubmits \/ LoopResumes \/ LoopEnds \/ LoopOver
  PROVE  PlaceInv'
<1> USE SimAssumption
<1>1. PlaceTypes /\ PlaceSound /\ StepSound BY DEF SimInv, SimTypeOK, PlaceTypes
<1>2. CASE Connect
  <2>1. loop = "none" /\ jobs = <<>> /\ renderer = "none" BY <1>1, <1>2 DEF Connect, PlaceSound
  <2>2. /\ UNCHANGED <<stepsDone, inStep, renderer, rendered, simCloser, early>>
        /\ \/ simCloser = "open" /\ loop' = "starting" /\ jobs' = <<"start">>
           \/ simCloser = "closed" /\ loop' = "refused" /\ jobs' = <<>>
    BY <1>2, <2>1, JobLists DEF Connect, Submits, frameVars
  <2>3. PlaceTypes' BY <1>1, <2>1, <2>2, JobLists DEF PlaceTypes
  <2>4. PlaceSound' BY <1>1, <2>1, <2>2 DEF PlaceSound
  <2>5. StepSound' BY <1>1, <2>1, <2>2 DEF StepSound
  <2>6. QED BY <2>3, <2>4, <2>5 DEF PlaceInv
<1>3. CASE Connected
  BY <1>1, <1>3, JobLists DEF Connected, PlaceInv, PlaceTypes, PlaceSound, StepSound
<1>4. CASE LoopStarts
  BY <1>1, <1>4, JobLists DEF LoopStarts, PlaceInv, PlaceTypes, PlaceSound, StepSound
<1>5. CASE LoopSubmits
  BY <1>1, <1>5, JobLists DEF LoopSubmits, Submits, running, frameVars, PlaceInv, PlaceTypes, PlaceSound, StepSound
<1>6. CASE LoopResumes
  BY <1>1, <1>6, JobLists DEF LoopResumes, PlaceInv, PlaceTypes, PlaceSound, StepSound
<1>7. CASE LoopEnds
  <2>1. /\ jobs \in {<<>>, <<"step">>, <<"render">>} /\ renderer = "open" /\ simCloser # "open"
        /\ simCloser = "closed" => jobs = <<>> /\ early
    BY <1>1, <1>7 DEF LoopEnds, PlaceSound
  <2>2. /\ UNCHANGED <<stepsDone, inStep, renderer, rendered, simCloser, early>>
        /\ loop' = "stopping"
    BY <1>7 DEF LoopEnds, frameVars
  <2>3. /\ simCloser = "closed" => jobs' = jobs
        /\ simCloser # "closed" =>
             jobs' = Append(jobs, "stop") \/ (inStep = "no" /\ jobs' = <<"stop">>)
    <3>1. Stops BY <1>7 DEF LoopEnds
    <3>2. simCloser = "closed" => jobs' = jobs BY <3>1 DEF Stops
    <3>3. ASSUME simCloser # "closed"
          PROVE  jobs' = Append(jobs, "stop") \/ (inStep = "no" /\ jobs' = <<"stop">>)
      <4>1. PICK left \in {jobs} \union (IF inStep = "no" THEN {<<>>} ELSE {}) :
              jobs' = Append(left, "stop")
        BY <3>1, <3>3 DEF Stops
      <4>2. QED BY <4>1, JobLists
    <3>4. QED BY <3>2, <3>3
  <2>4. /\ simCloser = "closed" => jobs' = <<>>
        /\ simCloser # "closed" => jobs' \in {<<"stop">>, <<"step", "stop">>, <<"render", "stop">>}
    BY <2>1, <2>3, JobLists
  <2>5. StepSound' BY <1>1, <2>1, <2>2, <2>3, <2>4 DEF StepSound
  <2>6. PlaceSound' BY <1>1, <2>1, <2>2, <2>4 DEF PlaceSound, PlaceTypes
  <2>7. PlaceTypes' BY <1>1, <2>1, <2>2, <2>4, JobLists DEF PlaceTypes
  <2>8. QED BY <2>5, <2>6, <2>7 DEF PlaceInv
<1>8. CASE LoopOver
  BY <1>1, <1>8, JobLists DEF LoopOver, PlaceInv, PlaceTypes, PlaceSound, StepSound
<1>9. QED BY <1>2, <1>3, <1>4, <1>5, <1>6, <1>7, <1>8

LEMMA ThreadPlace ==
  ASSUME SimInv,
         \/ ThreadOpens \/ ThreadFailsToOpen \/ ThreadCloses
         \/ ThreadReads \/ ThreadStores \/ ThreadWrites \/ ThreadSteps \/ ThreadRenders
  PROVE  PlaceInv'
<1> USE SimAssumption
<1>1. PlaceTypes /\ PlaceSound /\ StepSound BY DEF SimInv, SimTypeOK, PlaceTypes
<1>2. CASE ThreadOpens
  BY <1>1, <1>2, JobLists DEF ThreadOpens, Runs, PlaceInv, PlaceTypes, PlaceSound, StepSound
<1>3. CASE ThreadFailsToOpen
  BY <1>1, <1>3, JobLists DEF ThreadFailsToOpen, Runs, PlaceInv, PlaceTypes, PlaceSound, StepSound
<1>4. CASE ThreadCloses
  BY <1>1, <1>4, JobLists DEF ThreadCloses, Runs, PlaceInv, PlaceTypes, PlaceSound, StepSound
<1>5. CASE ThreadReads
  BY <1>1, <1>5, JobLists DEF ThreadReads, Runs, frameVars, PlaceInv, PlaceTypes, PlaceSound, StepSound
<1>6. CASE ThreadStores \/ ThreadWrites
  BY <1>1, <1>6, JobLists
     DEF ThreadStores, ThreadWrites, frameVars, PlaceInv, PlaceTypes, PlaceSound, StepSound
<1>7. CASE ThreadSteps
  <2>1. /\ loop \in {"awaiting", "stopping"} /\ renderer = "open"
        /\ loop = "awaiting" => jobs = <<"step">> /\ rendered < MaxRendered
        /\ loop = "stopping" => jobs = <<"step", "stop">> /\ simCloser = "stopping"
    <3>1. jobs \in {<<"step">>, <<"step", "stop">>} BY <1>1, <1>7 DEF ThreadSteps, StepSound
    <3>2. CASE jobs = <<"step">> BY <1>1, <3>2 DEF PlaceTypes, PlaceSound
    <3>3. CASE jobs = <<"step", "stop">> BY <1>1, <3>3 DEF PlaceTypes, PlaceSound
    <3>4. QED BY <3>1, <3>2, <3>3
  <2>2. /\ UNCHANGED <<loop, stepsDone, renderer, rendered, simCloser, early>>
        /\ inStep' = "no" /\ jobs' = Tail(jobs)
    BY <1>7 DEF ThreadSteps, frameVars
  <2>3. /\ loop = "awaiting" => jobs' = <<>>
        /\ loop = "stopping" => jobs' = <<"stop">>
    BY <2>1, <2>2, JobLists
  <2>4. PlaceTypes' BY <1>1, <2>1, <2>2, <2>3, JobLists DEF PlaceTypes
  <2>5. PlaceSound' BY <1>1, <2>1, <2>2, <2>3 DEF PlaceSound
  <2>6. StepSound' BY <1>1, <2>1, <2>2, <2>3 DEF StepSound
  <2>7. QED BY <2>4, <2>5, <2>6 DEF PlaceInv
<1>8. CASE ThreadRenders
  <2>1. /\ loop \in {"awaiting", "stopping"} /\ renderer = "open" /\ inStep = "no"
        /\ loop = "awaiting" => jobs = <<"render">> /\ rendered < MaxRendered
        /\ loop = "stopping" => jobs = <<"render", "stop">> /\ simCloser = "stopping"
    BY <1>1, <1>8 DEF ThreadRenders, Runs, PlaceTypes, PlaceSound, StepSound
  <2>2. /\ UNCHANGED <<loop, stepsDone, inStep, renderer, rendered, simCloser, early>>
        /\ jobs' = Tail(jobs)
    BY <1>8 DEF ThreadRenders, frameVars
  <2>3. /\ loop = "awaiting" => jobs' = <<>>
        /\ loop = "stopping" => jobs' = <<"stop">>
    BY <2>1, <2>2, JobLists
  <2>4. PlaceTypes' BY <1>1, <2>1, <2>2, <2>3, JobLists DEF PlaceTypes
  <2>5. PlaceSound' BY <1>1, <2>1, <2>2, <2>3 DEF PlaceSound
  <2>6. StepSound' BY <1>1, <2>1, <2>2, <2>3 DEF StepSound
  <2>7. QED BY <2>4, <2>5, <2>6 DEF PlaceInv
<1>9. QED BY <1>2, <1>3, <1>4, <1>5, <1>6, <1>7, <1>8

LEMMA ClosePlace ==
  ASSUME SimInv,
         \/ SimClose \/ SimClosed
         \/ UNCHANGED <<loop, stepsDone, jobs, inStep, renderer, rendered, simCloser, early>>
  PROVE  PlaceInv'
<1> USE SimAssumption
<1>1. PlaceTypes /\ PlaceSound /\ StepSound BY DEF SimInv, SimTypeOK, PlaceTypes
<1>2. CASE SimClose
  <2>1. /\ simCloser = "open" /\ UNCHANGED <<stepsDone, jobs, inStep, renderer, rendered>>
        /\ simCloser' = IF loop \in {"none", "starting", "dead"} THEN "closed" ELSE "stopping"
        /\ loop' = IF loop = "spawned" THEN "dead" ELSE loop
    BY <1>2 DEF SimClose, frameVars
  <2>2. early' \in BOOLEAN /\ (early' <=> loop \in {"none", "starting", "spawned"})
    <3>1. early' = (loop \in {"none", "starting", "spawned"}) BY <1>2 DEF SimClose
    <3>2. (loop \in {"none", "starting", "spawned"}) \in BOOLEAN OBVIOUS
    <3>3. QED BY <3>1, <3>2, Zenon
  <2>3. PlaceTypes' BY <1>1, <2>1, <2>2 DEF PlaceTypes
  <2>4. StepSound' BY <1>1, <2>1 DEF StepSound
  <2>5. PlaceSound' BY <1>1, <2>1, <2>2 DEF PlaceSound, PlaceTypes
  <2>6. QED BY <2>3, <2>4, <2>5 DEF PlaceInv
<1>3. CASE SimClosed
  BY <1>1, <1>3, JobLists DEF SimClosed, PlaceInv, PlaceTypes, PlaceSound, StepSound
<1>4. CASE UNCHANGED <<loop, stepsDone, jobs, inStep, renderer, rendered, simCloser, early>>
  BY <1>1, <1>4 DEF PlaceInv, PlaceTypes, PlaceSound, StepSound
<1>5. QED BY <1>2, <1>3, <1>4

LEMMA SimSteps ==
  ASSUME SimInv, [SimNext]_simVars
  PROVE  SimInv'
<1>0. LoopNext \/ CallNext \/ ResetCopies \/ ThreadNext \/ UNCHANGED simVars BY DEF SimNext
<1>1. FramesSound' /\ FrameTypes'
  <2>1. LoopResumes \/ Yields \/ UNCHANGED frameVars
    BY <1>0 DEF LoopNext, CallNext, ThreadNext, simVars, frameVars,
           Connect, Connected, LoopStarts, LoopSubmits, LoopEnds, LoopOver,
           ThreadOpens, ThreadFailsToOpen, ThreadCloses, ThreadReads, ThreadStores, ThreadWrites,
           ThreadSteps, ThreadRenders, KeyDown, KeyUp, ResetKey, ResetCopies, SimClose, SimClosed
  <2>2. CASE UNCHANGED frameVars
    BY <2>2 DEF frameVars, SimInv, FramesSound, FrameTypes, SimTypeOK
  <2>3. QED BY <2>1, <2>2, ResumesFrames, YieldsFrames
<1>2. JointSound'
  <2>1. \/ ThreadReads \/ ThreadStores \/ ThreadWrites \/ ThreadSteps
        \/ KeyDown \/ KeyUp \/ ResetKey \/ ResetCopies
        \/ UNCHANGED <<inStep, value, jointVars>>
    BY <1>0 DEF LoopNext, CallNext, ThreadNext, simVars,
           Connect, Connected, LoopStarts, LoopSubmits, LoopResumes, LoopEnds, LoopOver,
           ThreadOpens, ThreadFailsToOpen, ThreadCloses, ThreadRenders, Yields, SimClose, SimClosed
  <2>2. QED BY <2>1, ThreadJoint, KeyJoint
<1>3. PlaceInv'
  <2>1. CASE KeyDown \/ KeyUp \/ ResetKey \/ ResetCopies \/ Yields \/ UNCHANGED simVars
    <3>1. UNCHANGED <<loop, stepsDone, jobs, inStep, renderer, rendered, simCloser, early>>
      BY <2>1 DEF KeyDown, KeyUp, ResetKey, ResetCopies, Yields, simVars, frameVars
    <3>2. QED BY <3>1, ClosePlace
  <2>2. CASE SimClose \/ SimClosed BY <2>2, ClosePlace
  <2>3. CASE LoopNext BY <2>3, LoopPlace DEF LoopNext
  <2>4. CASE ThreadNext BY <2>4, ThreadPlace DEF ThreadNext
  <2>5. QED BY <1>0, <2>1, <2>2, <2>3, <2>4 DEF CallNext
<1>4. SimTypeOK'
  <2>1. {target', value', qpos'} \subseteq 0 .. Highest BY <1>2 DEF JointSound, JointTypes
  <2>2. {held', early', resetting', raced', overrun'} \subseteq BOOLEAN
    BY <1>2, <1>3 DEF JointSound, JointTypes, PlaceInv, PlaceTypes
  <2>3. QED BY <1>1, <1>2, <1>3, <2>1, <2>2
               DEF SimTypeOK, FrameTypes, JointSound, JointTypes, PlaceInv, PlaceTypes
<1>5. QED BY <1>1, <1>2, <1>3, <1>4 DEF SimInv, JointSound, PlaceInv

(* SimSound: a close() that the loop's task had begun to run for leaves no
   renderer and no job, the thread works only with a renderer, a reset is
   lost or undone only by the step in flight, and the frames come in their
   order (visual.py:186-201, 253-314, 400-446). *)
THEOREM AlwaysSimSound == SimSpec => []SimSound
<1>1. SimInit => SimInv BY SimStarts
<1>2. SimInv /\ [SimNext]_simVars => SimInv' BY SimSteps
<1>3. SimInv => SimSound BY SoundSim
<1>4. QED BY <1>1, <1>2, <1>3, PTL DEF SimSpec

-----------------------------------------------------------------------------
(* CosmosWindow                                                            *)

(* Two frames of a queue are Interval apart, and all of them come within
   Window ticks. *)
Sampled(s) ==
  /\ \A i, j \in 1 .. Len(s) : i < j => s[j] - s[i] >= Interval
  /\ \A i \in 1 .. Len(s) : s[i] >= s[Len(s)] - Window /\ s[i] <= s[Len(s)]

\* The window s was dispatched at lastDispatch, or the input was cleared since.
DispatchedBy(s) ==
  s # <<>> => IF lastDispatch = Never THEN cleared >= s[Len(s)] ELSE s[Len(s)] <= lastDispatch

(* What is in the window was captured last, and after the last clear_overlay,
   as were the first capture and the last dispatch. *)
CosmosInv ==
  /\ CosmosTypeOK
  /\ Sampled(frames) /\ Sampled(inference)
  /\ frames # <<>> => frames[Len(frames)] = lastCapture
  /\ lastCapture <= clock /\ cleared <= clock /\ lastDispatch <= clock
  /\ firstCapture # Never => firstCapture >= cleared
  /\ inference # <<>> =>
       /\ inference[Len(inference)] <= clock
       /\ cleared = Never \/ cleared >= inference[Len(inference)]
          \/ cleared <= inference[Len(inference)] - Window
       /\ previous # <<>> => inference[Len(inference)] - previous[Len(previous)] >= Stride
  /\ DispatchedBy(inference) /\ DispatchedBy(previous)

(* A nonempty set of numbers has a least one. *)
LEMMA LeastNumber ==
  ASSUME NEW T, T \subseteq Nat, T # {}
  PROVE  \E x \in T : \A y \in T : x <= y
<1> DEFINE R == {ss \in Nat \X Nat : ss[1] < ss[2]}
<1>1. IsWellFoundedOn(R, Nat) BY NatLessThanWellFounded DEF OpToRel
<1> HIDE DEF R
<1>2. PICK x \in T : \A y \in T : ~(<<y, x>> \in R) BY <1>1, WFMin
<1>3. \A y \in T : <<y, x>> \in Nat \X Nat OBVIOUS
<1>4. \A y \in T : ~(y < x) BY <1>2, <1>3 DEF R
<1>5. QED BY <1>4

LEMMA SoundWindows == CosmosInv => WindowsSound
<1> SUFFICES ASSUME CosmosInv PROVE WindowsSound
  OBVIOUS
<1> USE CosmosAssumption DEF CosmosInv
<1> DEFINE s == inference
           n == Len(s)
<1>1. ASSUME s # <<>>
      PROVE  /\ Head(s) >= Last(s) - Window
             /\ \A i \in 2 .. n : s[i] - s[i - 1] >= Interval
             /\ cleared = Never \/ cleared >= Last(s) \/ cleared <= Last(s) - Window
             /\ previous # <<>> => Last(s) - Last(previous) >= Stride
  <2>1. s \in Seq(Time) BY DEF CosmosTypeOK
  <2>2. n \in Nat /\ n >= 1 /\ Head(s) = s[1] /\ Last(s) = s[n] /\ Last(previous) = previous[Len(previous)]
    BY <1>1, <2>1, EmptySeq, LenProperties, HeadTailProperties DEF Last
  <2>3. 1 \in 1 .. n BY <2>2
  <2>4. Head(s) >= Last(s) - Window BY <2>2, <2>3 DEF Sampled
  <2>5. \A i \in 2 .. n : i - 1 \in 1 .. n /\ i \in 1 .. n /\ i - 1 < i BY <2>2
  <2>6. \A i \in 2 .. n : s[i] - s[i - 1] >= Interval BY <2>5 DEF Sampled
  <2>7. QED BY <1>1, <2>2, <2>4, <2>6
<1>2. QED BY <1>1 DEF WindowsSound

(* The frames kept are the last ones of the queue, from the first that is not
   older than the window. *)
LEMMA KeptSuffix ==
  ASSUME NEW q \in Seq(Time), q # <<>>, clock \in Time, q[Len(q)] >= clock - Window,
         \A i, j \in 1 .. Len(q) : i < j => q[i] <= q[j]
  PROVE  \E k \in 1 .. Len(q) :
           /\ Kept(q) \in Seq(Time) /\ Kept(q) # <<>>
           /\ Len(Kept(q)) = Len(q) - k + 1
           /\ \A i \in 1 .. Len(Kept(q)) : i + k - 1 \in 1 .. Len(q) /\ Kept(q)[i] = q[i + k - 1]
           /\ \A i \in 1 .. Len(Kept(q)) : Kept(q)[i] >= clock - Window
<1> DEFINE n == Len(q)
<1>1. n \in Nat /\ n >= 1 BY EmptySeq, LenProperties
<1>2. \A i \in 1 .. n : q[i] \in Time /\ q[i] \in Int
  <2>1. Time \subseteq Int BY DEF Time
  <2>2. \A i \in 1 .. n : q[i] \in Time BY ElementOfSeq
  <2>3. QED BY <2>1, <2>2
<1> DEFINE T == {i \in 1 .. n : q[i] >= clock - Window}
<1>3. n \in T /\ T \subseteq Nat BY <1>1
<1>4. PICK k \in T : \A i \in T : k <= i BY <1>3, LeastNumber
<1> DEFINE First(j) == /\ q[j] >= clock - Window
                       /\ \A i \in 1 .. j - 1 : q[i] < clock - Window
<1>5. k \in 1 .. n /\ First(k)
  <2>1. clock - Window \in Int BY CosmosAssumption DEF Time
  <2>2. ASSUME NEW i \in 1 .. k - 1 PROVE q[i] < clock - Window
    <3>1. i \in 1 .. n /\ i < k BY <1>1, <1>4
    <3>2. i \notin T BY <1>4, <3>1
    <3>3. QED BY <1>2, <2>1, <3>1, <3>2
  <2>3. QED BY <1>4, <2>2
<1> DEFINE f == CHOOSE j \in 1 .. n : First(j)
<1>6. f \in 1 .. n /\ First(f) BY <1>5
<1>7. Kept(q) = SubSeq(q, f, n) BY DEF Kept
<1> HIDE DEF f, n, T
<1>8. \A i \in f .. n : q[i] \in Time BY <1>2, <1>6
<1>9. f \in Int /\ n \in Int /\ f <= n BY <1>1, <1>6
<1> DEFINE s == SubSeq(q, f, n)
<1>10. /\ s \in Seq(Time) /\ Len(s) = n - f + 1
       /\ \A i \in 1 .. n - f + 1 : s[i] = q[f + i - 1]
  BY <1>8, <1>9, SubSeqProperties
<1> HIDE DEF s, First
<1>11. \A i \in 1 .. Len(s) : i + f - 1 \in 1 .. n /\ i + f - 1 = f + i - 1 /\ i \in 1 .. n - f + 1
                             /\ (i + f - 1 = f \/ f < i + f - 1)
  BY <1>1, <1>6, <1>10
<1>12. \A i \in 1 .. Len(s) : s[i] = q[i + f - 1] BY <1>10, <1>11
<1>13. \A i \in 1 .. Len(s) : s[i] >= clock - Window
  <2> SUFFICES ASSUME NEW i \in 1 .. Len(s) PROVE s[i] >= clock - Window
    OBVIOUS
  <2>1. q[f] >= clock - Window BY <1>6 DEF First
  <2>2. q[i + f - 1] >= q[f] BY <1>2, <1>6, <1>11 DEF n
  <2>3. q[f] \in Int /\ q[i + f - 1] \in Int /\ clock - Window \in Int
    BY <1>2, <1>6, <1>11, CosmosAssumption DEF Time
  <2>4. QED BY <1>12, <2>1, <2>2, <2>3
<1>14. s # <<>> BY <1>9, <1>10
<1>15. QED BY <1>6, <1>7, <1>10, <1>11, <1>12, <1>13, <1>14 DEF n, s

LEMMA CosmosStarts == CosmosInit => CosmosInv
<1> SUFFICES ASSUME CosmosInit PROVE CosmosInv
  OBVIOUS
<1> USE CosmosAssumption DEF CosmosInit
<1>1. CosmosTypeOK
  <2>1. <<>> \in Seq(Time) BY EmptySeq
  <2>2. 0 \in Time BY DEF Time
  <2>3. QED BY <2>1, <2>2 DEF CosmosTypeOK
<1>2. 1 .. Len(<<>>) = {} OBVIOUS
<1>3. Sampled(frames) /\ Sampled(inference) BY <1>2 DEF Sampled
<1>4. QED BY <1>1, <1>3 DEF CosmosInv, DispatchedBy, Never

(* A frame joins the window; what is kept of it is sampled as the window was. *)
LEMMA ProcessFrameStep ==
  ASSUME CosmosInv, ProcessFrame
  PROVE  CosmosInv'
<1> USE CosmosAssumption DEF CosmosInv
<1> DEFINE q == Append(frames, clock)
           w == Kept(q)
           first == IF firstCapture = Never THEN clock ELSE firstCapture
<1>1. /\ frames \in Seq(Time) /\ clock \in Time /\ clock \in Int
      /\ {lastCapture, firstCapture, lastDispatch, cleared} \subseteq Int
      /\ Window \in Int /\ Interval \in Int /\ Interval > 0 /\ Window > 0
  BY DEF CosmosTypeOK, Time, Never
<1>2. /\ lastCapture = Never \/ clock - lastCapture >= Interval
      /\ lastCapture' = clock /\ firstCapture' = first /\ frames' = w
      /\ UNCHANGED <<clock, closing, awaited, cleared, previous>>
      /\ \/ /\ inference = <<>> /\ clock - first >= Window
            /\ lastDispatch = Never \/ clock - lastDispatch >= Stride
            /\ inference' = w /\ waits' = TRUE /\ lastDispatch' = clock
         \/ UNCHANGED <<inference, waits, lastDispatch>>
  BY DEF ProcessFrame
<1> DEFINE k == Len(frames)
<1>3. /\ q \in Seq(Time) /\ Len(q) = k + 1 /\ k \in Nat /\ q[k + 1] = clock
      /\ \A i \in 1 .. k : q[i] = frames[i] /\ frames[i] \in Time
  BY <1>1, AppendProperties, LenProperties, ElementOfSeq
<1> HIDE DEF q, k
<1>4. ASSUME NEW i \in 1 .. k PROVE clock - frames[i] >= Interval
  <2>1. frames # <<>> /\ k \in 1 .. k BY <1>3 DEF k
  <2>2. frames[k] = lastCapture /\ frames[i] <= frames[k] BY <2>1 DEF Sampled, k
  <2>3. frames[k] \in Time /\ frames[i] \in Time BY <1>3, <2>1
  <2>4. lastCapture # Never BY <2>2, <2>3 DEF Time, Never
  <2>5. QED BY <1>1, <1>2, <2>2, <2>3, <2>4 DEF Time
<1>5. \A i, j \in 1 .. k + 1 : i < j => q[j] - q[i] >= Interval
  <2> SUFFICES ASSUME NEW i \in 1 .. k + 1, NEW j \in 1 .. k + 1, i < j PROVE q[j] - q[i] >= Interval
    OBVIOUS
  <2>1. i \in 1 .. k BY <1>3
  <2>2. CASE j \in 1 .. k BY <1>3, <2>1, <2>2 DEF Sampled, k
  <2>3. CASE j = k + 1 BY <1>3, <1>4, <2>1, <2>3
  <2>4. j \in 1 .. k \/ j = k + 1 BY <1>3
  <2>5. QED BY <2>2, <2>3, <2>4
<1>6. \A i \in 1 .. k + 1 : q[i] \in Time BY <1>3, ElementOfSeq
<1>7. \A i, j \in 1 .. Len(q) : i < j => q[i] <= q[j]
  <2> SUFFICES ASSUME NEW i \in 1 .. k + 1, NEW j \in 1 .. k + 1, i < j PROVE q[i] <= q[j]
    BY <1>3
  <2>1. q[j] - q[i] >= Interval /\ q[i] \in Int /\ q[j] \in Int BY <1>5, <1>6 DEF Time
  <2>2. QED BY <1>1, <2>1
<1>8. q # <<>> /\ q[Len(q)] >= clock - Window BY <1>1, <1>3
<1>9. PICK l \in 1 .. Len(q) :
        /\ w \in Seq(Time) /\ w # <<>>
        /\ Len(w) = Len(q) - l + 1
        /\ \A i \in 1 .. Len(w) : i + l - 1 \in 1 .. Len(q) /\ w[i] = q[i + l - 1]
        /\ \A i \in 1 .. Len(w) : w[i] >= clock - Window
  BY <1>1, <1>3, <1>7, <1>8, KeptSuffix
<1> HIDE DEF w
<1>10. w[Len(w)] = clock
  <2>1. Len(w) \in 1 .. Len(w) /\ Len(w) + l - 1 = k + 1 BY <1>3, <1>9
  <2>2. QED BY <1>3, <1>9, <2>1
<1>11. Sampled(w)
  <2>1. ASSUME NEW i \in 1 .. Len(w), NEW j \in 1 .. Len(w), i < j PROVE w[j] - w[i] >= Interval
    <3>1. /\ i + l - 1 \in 1 .. k + 1 /\ j + l - 1 \in 1 .. k + 1 /\ i + l - 1 < j + l - 1
          /\ w[i] = q[i + l - 1] /\ w[j] = q[j + l - 1]
      BY <1>3, <1>9, <2>1
    <3>2. QED BY <1>5, <3>1
  <2>2. ASSUME NEW i \in 1 .. Len(w) PROVE w[i] <= clock
    <3>1. i + l - 1 \in 1 .. k + 1 /\ w[i] = q[i + l - 1] BY <1>3, <1>9
    <3>2. i + l - 1 = k + 1 \/ i + l - 1 < k + 1 BY <1>3, <3>1
    <3>3. k + 1 \in 1 .. Len(q) /\ i + l - 1 \in 1 .. Len(q) BY <1>3, <3>1
    <3>4. QED BY <1>1, <1>3, <1>7, <3>1, <3>2, <3>3
  <2>3. QED BY <1>9, <1>10, <2>1, <2>2 DEF Sampled
<1>12. /\ first \in Int /\ first \in Time \union {Never}
       /\ first >= cleared /\ (cleared = Never \/ cleared >= 0) /\ cleared <= clock
       /\ first # Never
  BY <1>1 DEF CosmosTypeOK, Time, Never
<1> HIDE DEF first
<1>13. frames' # <<>> => frames'[Len(frames')] = lastCapture' BY <1>2, <1>10
<1>14. CASE /\ inference = <<>> /\ clock - first >= Window
            /\ lastDispatch = Never \/ clock - lastDispatch >= Stride
            /\ inference' = w /\ waits' = TRUE /\ lastDispatch' = clock
  <2>1. CosmosTypeOK' BY <1>1, <1>2, <1>9, <1>12, <1>14 DEF CosmosTypeOK
  <2>2. cleared <= clock - Window BY <1>1, <1>12, <1>14
  <2>3. ASSUME previous # <<>> PROVE clock - previous[Len(previous)] >= Stride
    <3>1. previous \in Seq(Time) BY DEF CosmosTypeOK
    <3>2. previous[Len(previous)] \in Int BY <2>3, <3>1, EmptySeq, LenProperties, ElementOfSeq DEF Time
    <3>3. Stride <= Window /\ Stride \in Int BY DEF Stride
    <3>4. CASE lastDispatch = Never
      <4>1. cleared >= previous[Len(previous)] BY <2>3, <3>4 DEF DispatchedBy
      <4>2. QED BY <1>1, <2>2, <3>2, <3>3, <4>1
    <3>5. CASE lastDispatch # Never
      <4>1. previous[Len(previous)] <= lastDispatch BY <2>3, <3>5 DEF DispatchedBy
      <4>2. QED BY <1>1, <1>14, <3>2, <3>3, <3>5, <4>1
    <3>6. QED BY <3>4, <3>5
  <2>4. clock # Never BY <1>1 DEF Time, Never
  <2>5. DispatchedBy(inference)' BY <1>1, <1>10, <1>14, <2>4 DEF DispatchedBy
  <2>6. DispatchedBy(previous)'
    <3>1. ASSUME previous # <<>> PROVE previous[Len(previous)] <= clock
      <4>1. previous \in Seq(Time) BY DEF CosmosTypeOK
      <4>2. previous[Len(previous)] \in Int BY <3>1, <4>1, EmptySeq, LenProperties, ElementOfSeq DEF Time
      <4>3. cleared >= previous[Len(previous)] \/ previous[Len(previous)] <= lastDispatch
        BY <3>1 DEF DispatchedBy
      <4>4. QED BY <1>1, <4>2, <4>3
    <3>2. QED BY <1>2, <1>14, <2>4, <3>1 DEF DispatchedBy
  <2>7. QED BY <1>1, <1>2, <1>10, <1>11, <1>12, <1>13, <1>14, <2>1, <2>2, <2>3, <2>5, <2>6
<1>15. CASE UNCHANGED <<inference, waits, lastDispatch>>
  <2>1. CosmosTypeOK' BY <1>1, <1>2, <1>9, <1>12, <1>15 DEF CosmosTypeOK
  <2>2. DispatchedBy(inference)' /\ DispatchedBy(previous)' BY <1>2, <1>15 DEF DispatchedBy
  <2>3. QED BY <1>1, <1>2, <1>11, <1>12, <1>13, <1>15, <2>1, <2>2
<1>16. QED BY <1>2, <1>14, <1>15

(* The window is emptied. *)
LEMMA ClearedStep ==
  ASSUME CosmosInv, Cleared, UNCHANGED <<clock, lastCapture, inference, waits, previous>>,
         awaited' \in BOOLEAN, closing' \in {"open", "awaiting", "closed"}
  PROVE  CosmosInv'
<1> USE CosmosAssumption DEF CosmosInv
<1>1. /\ frames' = <<>> /\ cleared' = clock /\ firstCapture' = Never /\ lastDispatch' = Never
      /\ clock' = clock /\ lastCapture' = lastCapture /\ inference' = inference
      /\ waits' = waits /\ previous' = previous
  BY DEF Cleared
<1>2. CosmosTypeOK' BY <1>1 DEF CosmosTypeOK
<1>3. clock \in Int /\ cleared \in Int /\ lastDispatch \in Int /\ Never <= clock
  BY DEF CosmosTypeOK, Time, Never
<1>4. 1 .. Len(<<>>) = {} OBVIOUS
<1>5. Sampled(frames)' BY <1>1, <1>4 DEF Sampled
<1>6. Sampled(inference)' BY <1>1 DEF Sampled
<1>7. DispatchedBy(inference)' BY <1>1 DEF DispatchedBy
<1>8. DispatchedBy(previous)'
  <2>1. ASSUME previous # <<>> PROVE clock >= previous[Len(previous)]
    <3>1. previous \in Seq(Time) BY DEF CosmosTypeOK
    <3>2. previous[Len(previous)] \in Int BY <2>1, <3>1, EmptySeq, LenProperties, ElementOfSeq DEF Time
    <3>3. cleared >= previous[Len(previous)] \/ previous[Len(previous)] <= lastDispatch
      BY <2>1 DEF DispatchedBy
    <3>4. QED BY <1>3, <3>2, <3>3
  <2>2. QED BY <1>1, <2>1 DEF DispatchedBy
<1>9. QED BY <1>1, <1>2, <1>3, <1>5, <1>6, <1>7, <1>8

LEMMA CosmosSteps ==
  ASSUME CosmosInv, [CosmosNext]_cosmosVars
  PROVE  CosmosInv'
<1> USE CosmosAssumption DEF CosmosInv
<1>1. clock \in Time /\ {lastCapture, firstCapture, lastDispatch, cleared} \subseteq Int
  BY DEF CosmosTypeOK, Time, Never
<1>2. CASE CosmosTick
  <2>1. clock' = clock + 1 /\ clock < MaxClock
        /\ UNCHANGED <<frames, lastCapture, firstCapture, lastDispatch, inference, waits, closing,
                       awaited, cleared, previous>>
    BY <1>2 DEF CosmosTick
  <2>2. clock' \in Time BY <1>1, <2>1 DEF Time
  <2>3. CosmosTypeOK' BY <2>1, <2>2 DEF CosmosTypeOK
  <2>4. Sampled(frames)' /\ Sampled(inference)' BY <2>1 DEF Sampled
  <2>5. DispatchedBy(inference)' /\ DispatchedBy(previous)' BY <2>1 DEF DispatchedBy
  <2>6. ASSUME inference # <<>> PROVE inference[Len(inference)] <= clock'
    <3>1. inference \in Seq(Time) BY DEF CosmosTypeOK
    <3>2. inference[Len(inference)] \in Int BY <2>6, <3>1, EmptySeq, LenProperties, ElementOfSeq DEF Time
    <3>3. QED BY <1>1, <2>1, <2>6, <3>2 DEF Time
  <2>7. lastCapture <= clock' /\ cleared <= clock' /\ lastDispatch <= clock'
    BY <1>1, <2>1 DEF Time
  <2>8. QED BY <2>1, <2>3, <2>4, <2>5, <2>6, <2>7
<1>3. CASE ProcessFrame BY <1>3, ProcessFrameStep
<1>4. CASE Generates \/ CosmosClose \/ UNCHANGED cosmosVars
  <2>1. /\ UNCHANGED <<clock, frames, lastCapture, firstCapture, lastDispatch, inference, cleared, previous>>
        /\ waits' \in BOOLEAN /\ awaited' \in BOOLEAN /\ closing' \in {"open", "awaiting", "closed"}
    BY <1>4 DEF Generates, CosmosClose, cosmosVars, CosmosTypeOK
  <2>2. CosmosTypeOK' BY <2>1 DEF CosmosTypeOK
  <2>3. Sampled(frames)' /\ Sampled(inference)' BY <2>1 DEF Sampled
  <2>4. DispatchedBy(inference)' /\ DispatchedBy(previous)' BY <2>1 DEF DispatchedBy
  <2>5. QED BY <2>1, <2>2, <2>3, <2>4
<1>5. CASE InferenceEnds
  <2>1. /\ inference' = <<>> /\ previous' = inference /\ awaited' = FALSE
        /\ UNCHANGED <<clock, frames, lastCapture, firstCapture, lastDispatch, waits, closing, cleared>>
    BY <1>5 DEF InferenceEnds
  <2>2. CosmosTypeOK'
    <3>1. <<>> \in Seq(Time) BY EmptySeq
    <3>2. inference \in Seq(Time) /\ frames \in Seq(Time) BY DEF CosmosTypeOK
    <3>3. QED BY <2>1, <3>1, <3>2 DEF CosmosTypeOK
  <2>3. 1 .. Len(<<>>) = {} OBVIOUS
  <2>4. Sampled(frames)' /\ Sampled(inference)' BY <2>1, <2>3 DEF Sampled
  <2>5. DispatchedBy(inference)' /\ DispatchedBy(previous)' BY <2>1 DEF DispatchedBy
  <2>6. QED BY <2>1, <2>2, <2>4, <2>5
<1>6. CASE ClearOverlay BY <1>6, ClearedStep DEF ClearOverlay, CosmosTypeOK
<1>7. CASE CosmosClosed BY <1>7, ClearedStep DEF CosmosClosed, CosmosTypeOK
<1>8. QED BY <1>2, <1>3, <1>4, <1>5, <1>6, <1>7 DEF CosmosNext

(* WindowsSound: every window given to the model spans at most Window ticks and
   no clear_overlay, and shares at most Overlap with the one before
   (cosmos.py:260-288). *)
THEOREM AlwaysWindowsSound == CosmosSpec => []WindowsSound
<1>1. CosmosInit => CosmosInv BY CosmosStarts
<1>2. CosmosInv /\ [CosmosNext]_cosmosVars => CosmosInv' BY CosmosSteps
<1>3. CosmosInv => WindowsSound BY SoundWindows
<1>4. QED BY <1>1, <1>2, <1>3, PTL DEF CosmosSpec

-----------------------------------------------------------------------------
(* ScriptHost                                                              *)

(* A handler on a model is in the callbacks of a script that is still to be
   torn down, or one of those ScriptsTornDown excepts. *)
Accounted(h) ==
  /\ owner[h] \in Script
  /\ \/ owner[h] \in broken \/ h \in lateHandlers
     \/ /\ h \in callbacks[owner[h]]
        /\ \/ stage \in {"setup", "open"}
           \/ stage = "teardown" /\ owner[h] >= scriptNext

(* Whose code runs in each stage, and which scripts have their context. *)
CodeInv ==
  /\ stage \in {"setup", "teardown"} =>
       /\ walk = NoWalk
       /\ code # NoCode => code.of = scriptNext
  /\ code # NoCode => code.for \in CASE stage = "setup" -> {"top", "setup"}
                                     [] stage = "teardown" -> {"teardown"}
                                     [] OTHER -> {"handler", "tool"}
  /\ stage = "setup" => \A s \in 1 .. scriptNext - 1 : s \in contexts \union broken
  /\ code.for = "setup" => scriptNext \in contexts
  /\ stage = "open" => scriptNext = 1 /\ Script \subseteq contexts \union broken
  /\ stage = "teardown" => \A s \in Script : s >= scriptNext => s \in contexts \union broken

(* A list holds a handler once, and the connection's own from the setup on. *)
ListsInv ==
  \A m \in Target :
    /\ \A i, j \in 1 .. Len(handlers[m]) : handlers[m][i] = handlers[m][j] => i = j
    /\ \A h \in ToSet(handlers[m]) :
         IF h = ServerHandler THEN stage # "setup" ELSE Accounted(h)

CallbacksInv == \A s \in Script : \A h \in callbacks[s] : owner[h] = s

(* Those due that the loop has passed without calling them. *)
Passed ==
  {h \in due \ heardIt : \E i \in 1 .. Len(handlers[walk.target]) :
                           i < walk.at /\ handlers[walk.target][i] = h}

WalkInv ==
  walk # NoWalk =>
    /\ walk.at >= 1
    /\ due \subseteq ToSet(handlers[walk.target])
    /\ Cardinality(Passed) <= removals

ScriptInv == ScriptTypeOK /\ CodeInv /\ ListsInv /\ CallbacksInv /\ WalkInv

(* The n-th of a set of indices. *)
LEMMA NthExists ==
  ASSUME NEW L \in Nat, NEW K, K \subseteq 1 .. L, NEW n \in 1 .. Cardinality(K)
  PROVE  \E i \in K : Cardinality({j \in K : j <= i}) = n
<1> DEFINE B(k) == {j \in K : j <= k}
<1>1. IsFiniteSet(K) /\ Cardinality(K) \in Nat
  <2>1. IsFiniteSet(1 .. L) BY FS_Interval
  <2>2. QED BY <2>1, FS_Subset, FS_CardinalityType
<1>2. \A k \in 0 .. L : IsFiniteSet(B(k)) /\ Cardinality(B(k)) \in Nat
  <2> SUFFICES ASSUME NEW k \in 0 .. L PROVE IsFiniteSet(B(k)) /\ Cardinality(B(k)) \in Nat
    OBVIOUS
  <2>1. B(k) \subseteq K OBVIOUS
  <2>2. QED BY <1>1, <2>1, FS_Subset, FS_CardinalityType
<1>3. Cardinality(B(0)) = 0
  <2>1. \A j \in K : ~(j <= 0) OBVIOUS
  <2>2. B(0) = {} BY <2>1
  <2>3. QED BY <2>2, FS_EmptySet
<1>4. B(L) = K
  <2>1. \A j \in K : j <= L OBVIOUS
  <2>2. QED BY <2>1
<1> DEFINE T == {k \in 0 .. L : Cardinality(B(k)) >= n}
<1>5. L \in T /\ T \subseteq Nat
  <2>1. Cardinality(K) >= n BY <1>1
  <2>2. QED BY <1>4, <2>1
<1>6. PICK k \in T : \A x \in T : k <= x BY <1>5, LeastNumber
<1>7. k \in 1 .. L
  <2>1. k # 0 BY <1>3
  <2>2. QED BY <2>1
<1>8. ~(Cardinality(B(k - 1)) >= n)
  <2>1. k - 1 \in 0 .. L /\ ~(k <= k - 1) BY <1>7
  <2>2. k - 1 \notin T BY <1>6, <2>1
  <2>3. QED BY <2>1, <2>2
<1>9. k \in K
  <2> SUFFICES ASSUME k \notin K PROVE FALSE
    OBVIOUS
  <2>1. \A j \in K : j <= k <=> j <= k - 1 BY <1>7
  <2>2. B(k) = B(k - 1) BY <2>1
  <2>3. QED BY <1>6, <1>8, <2>2
<1>10. Cardinality(B(k)) = Cardinality(B(k - 1)) + 1
  <2>1. \A j \in K : j <= k <=> j <= k - 1 \/ j = k BY <1>7
  <2>2. B(k) = B(k - 1) \union {k} BY <1>9, <2>1
  <2>3. ~(k <= k - 1) /\ k - 1 \in 0 .. L BY <1>7
  <2>4. k \notin B(k - 1) BY <2>3
  <2> HIDE DEF B
  <2>5. IsFiniteSet(B(k - 1)) BY <1>2, <2>3
  <2>6. QED BY <2>2, <2>4, <2>5, FS_AddElement
<1>11. Cardinality(B(k)) = n
  <2>1. k - 1 \in 0 .. L BY <1>7
  <2>2. Cardinality(B(k)) >= n BY <1>6
  <2> HIDE DEF B
  <2>3. Cardinality(B(k - 1)) \in Nat BY <1>2, <2>1
  <2>4. QED BY <1>8, <1>10, <2>2, <2>3
<1>12. QED BY <1>9, <1>11

(* What is left of a list comes from it, in one place. *)
LEMMA WithoutFacts ==
  ASSUME NEW S, NEW q \in Seq(S), NEW gone, NEW t, t = Without(q, gone)
  PROVE  /\ t \in Seq(S)
         /\ \A n \in 1 .. Len(t) : \E i \in 1 .. Len(q) : t[n] = q[i] /\ q[i] \notin gone
         /\ (\A i, j \in 1 .. Len(q) : q[i] = q[j] => i = j)
              => \A i, j \in 1 .. Len(t) : t[i] = t[j] => i = j
<1> DEFINE L == Len(q)
           K == {i \in DOMAIN q : q[i] \notin gone}
           rank(i) == Cardinality({j \in K : j <= i})
           nth(n) == CHOOSE i \in K : rank(i) = n
           C == Cardinality(K)
<1>1. L \in Nat /\ K \subseteq 1 .. L BY LenProperties
<1>2. C \in Nat
  <2>1. IsFiniteSet(1 .. L) BY <1>1, FS_Interval
  <2>2. QED BY <1>1, <2>1, FS_Subset, FS_CardinalityType
<1>3. \A n \in 1 .. C : nth(n) \in K /\ rank(nth(n)) = n
  <2> SUFFICES ASSUME NEW n \in 1 .. C PROVE nth(n) \in K /\ rank(nth(n)) = n
    OBVIOUS
  <2>1. \E i \in K : rank(i) = n
    <3> HIDE DEF K
    <3>1. QED BY <1>1, NthExists
  <2> HIDE DEF K, rank
  <2>2. QED BY <2>1
<1>4. t = [n \in 1 .. C |-> q[nth(n)]] BY DEF Without
<1>5. \A i \in K : q[i] \notin gone /\ i \in 1 .. L /\ q[i] \in S
  BY <1>1, ElementOfSeq
<1> HIDE DEF K, rank, nth, L, C
<1>6. t \in Seq(S) /\ Len(t) = C /\ \A n \in 1 .. C : t[n] = q[nth(n)]
  BY <1>2, <1>3, <1>4, <1>5
<1>7. \A n \in 1 .. Len(t) : \E i \in 1 .. L : t[n] = q[i] /\ q[i] \notin gone
  BY <1>3, <1>5, <1>6
<1>8. ASSUME \A i, j \in 1 .. L : q[i] = q[j] => i = j, NEW i \in 1 .. Len(t), NEW j \in 1 .. Len(t),
             t[i] = t[j]
      PROVE  i = j
  <2>1. nth(i) \in 1 .. L /\ nth(j) \in 1 .. L /\ q[nth(i)] = q[nth(j)] BY <1>3, <1>5, <1>6, <1>8
  <2>2. nth(i) = nth(j) BY <1>8, <2>1
  <2>3. i = rank(nth(i)) /\ j = rank(nth(j)) BY <1>3, <1>6
  <2>4. QED BY <2>2, <2>3
<1>9. QED BY <1>6, <1>7, <1>8 DEF L

(* One handler gone: those behind it move up. *)
MovedUp(q, t, h) ==
  \/ /\ \A i \in 1 .. Len(q) : q[i] # h
     /\ Len(t) = Len(q) /\ \A n \in 1 .. Len(q) : t[n] = q[n]
  \/ \E p \in 1 .. Len(q) :
       /\ q[p] = h /\ Len(t) = Len(q) - 1
       /\ \A n \in 1 .. Len(q) - 1 : t[n] = IF n < p THEN q[n] ELSE q[n + 1]

LEMMA WithoutOne ==
  ASSUME NEW S, NEW q \in Seq(S), NEW h, NEW t, t = Without(q, {h}),
         \A i, j \in 1 .. Len(q) : q[i] = q[j] => i = j
  PROVE  MovedUp(q, t, h)
<1> USE DEF MovedUp
<1> DEFINE L == Len(q)
           K == {i \in DOMAIN q : q[i] \notin {h}}
           rank(i) == Cardinality({j \in K : j <= i})
           C == Cardinality(K)
<1>1. L \in Nat /\ DOMAIN q = 1 .. L BY LenProperties
<1>2. t = [n \in 1 .. C |-> q[CHOOSE i \in K : rank(i) = n]] BY DEF Without
<1>3. \A n \in 1 .. L : q[n] \in S BY ElementOfSeq
<1>4. CASE \A i \in 1 .. L : q[i] # h
  <2>1. K = 1 .. L BY <1>1, <1>4
  <2>2. C = L
    <3>1. Cardinality(1 .. L) = IF 1 > L THEN 0 ELSE L - 1 + 1 BY <1>1, FS_Interval
    <3>2. Cardinality(1 .. L) = L BY <1>1, <3>1
    <3>3. QED BY <2>1, <3>2
  <2>3. ASSUME NEW i \in K PROVE rank(i) = i
    <3>1. {j \in K : j <= i} = 1 .. i BY <1>1, <2>1
    <3>2. i \in Nat BY <2>1
    <3>3. Cardinality(1 .. i) = i BY <3>2, FS_Interval
    <3>4. QED BY <3>1, <3>3
  <2> HIDE DEF rank, K, C
  <2>4. \A n \in 1 .. L : (CHOOSE i \in K : rank(i) = n) = n BY <2>1, <2>3
  <2>5. t = [n \in 1 .. L |-> q[n]] BY <1>2, <2>2, <2>4
  <2> HIDE DEF L
  <2>6. t \in Seq(S) /\ Len(t) = L /\ \A n \in 1 .. L : t[n] = q[n] BY ONLY <1>1, <1>3, <2>5
  <2>7. QED BY <1>4, <2>6 DEF L
<1>5. CASE \E i \in 1 .. L : q[i] = h
  <2>1. PICK p \in 1 .. L : q[p] = h BY <1>5
  <2>2. K = (1 .. L) \ {p} BY <1>1, <2>1
  <2>3. C = L - 1
    <3>1. IsFiniteSet(1 .. L) /\ Cardinality(1 .. L) = L BY <1>1, FS_Interval
    <3>2. Cardinality((1 .. L) \ {p}) = L - 1
      <4>1. Cardinality((1 .. L) \ {p}) = Cardinality(1 .. L) - 1 BY <3>1, FS_RemoveElement
      <4>2. QED BY <3>1, <4>1
    <3>3. QED BY <2>2, <3>2
  <2>4. ASSUME NEW i \in K PROVE rank(i) = IF i < p THEN i ELSE i - 1
    <3>1. i \in Nat /\ i \in 1 .. L /\ i # p /\ p \in Nat BY <1>1, <2>2
    <3>2. IsFiniteSet(1 .. i) /\ Cardinality(1 .. i) = i BY <3>1, FS_Interval
    <3>3. CASE i < p
      <4>1. {j \in K : j <= i} = 1 .. i BY <1>1, <2>2, <3>1, <3>3
      <4>2. QED BY <3>2, <3>3, <4>1
    <3>4. CASE ~(i < p)
      <4>1. {j \in K : j <= i} = (1 .. i) \ {p} BY <1>1, <2>2, <3>1, <3>4
      <4>2. p \in 1 .. i BY <3>1, <3>4
      <4>3. Cardinality((1 .. i) \ {p}) = i - 1 BY <3>1, <3>2, <4>2, FS_RemoveElement
      <4>4. QED BY <3>4, <4>1, <4>3
    <3>5. QED BY <3>3, <3>4
  <2> HIDE DEF rank, K, C
  <2>5. ASSUME NEW n \in 1 .. L - 1
        PROVE  (CHOOSE i \in K : rank(i) = n) = IF n < p THEN n ELSE n + 1
    <3> DEFINE x == IF n < p THEN n ELSE n + 1
    <3>1. x \in K BY <1>1, <2>1, <2>2
    <3>2. rank(x) = n BY <1>1, <2>1, <2>4, <3>1
    <3>3. ASSUME NEW i \in K, rank(i) = n PROVE i = x
      <4>1. i \in 1 .. L /\ i # p /\ n = IF i < p THEN i ELSE i - 1 BY <2>2, <2>4, <3>3
      <4>2. QED BY <1>1, <2>1, <4>1
    <3> HIDE DEF x
    <3>4. (CHOOSE i \in K : rank(i) = n) = x BY <3>1, <3>2, <3>3
    <3>5. QED BY <3>4 DEF x
  <2>6. t = [n \in 1 .. L - 1 |-> q[IF n < p THEN n ELSE n + 1]] BY <1>2, <2>3, <2>5
  <2>7. L - 1 \in Nat BY <1>1, <2>1
  <2> DEFINE M == L - 1
             f(n) == q[IF n < p THEN n ELSE n + 1]
  <2>8. Len(t) = L - 1 /\ \A n \in 1 .. L - 1 : t[n] = IF n < p THEN q[n] ELSE q[n + 1]
    <3>1. \A n \in 1 .. M : f(n) = IF n < p THEN q[n] ELSE q[n + 1] OBVIOUS
    <3>2. \A n \in 1 .. M : f(n) \in S BY <1>1, <1>3
    <3>3. t = [n \in 1 .. M |-> f(n)] /\ M \in Nat BY <2>6, <2>7
    <3> HIDE DEF M, f
    <3>4. t \in Seq(S) /\ Len(t) = M /\ \A n \in 1 .. M : t[n] = f(n) BY ONLY <3>2, <3>3
    <3>5. QED BY <3>1, <3>4 DEF M
  <2>9. QED BY <2>1, <2>8
<1>6. QED BY <1>4, <1>5

LEMMA ScriptFacts ==
  ASSUME ScriptTypeOK
  PROVE  /\ code.for # "nothing" => code # NoCode
         /\ code # NoCode => code.of \in Script /\ code.of # Nobody
                             /\ code.for \in {"top", "setup", "handler", "tool", "teardown"}
         /\ code = NoCode => code.for = "nothing"
         /\ walk # NoWalk => walk.target \in Target /\ walk.at \in Nat
         /\ \A m \in Target : walk # NoWalk => NoWalk # [target |-> m, at |-> 1]
         /\ \A m \in Target : /\ handlers[m] \in Seq(Handler \union {ServerHandler})
                              /\ DOMAIN handlers[m] = 1 .. Len(handlers[m])
                              /\ Len(handlers[m]) \in Nat
                              /\ ToSet(handlers[m]) \subseteq Handler \union {ServerHandler}
         /\ IsFiniteSet(due)
         /\ Nobody \notin Script /\ NumScripts \in Nat /\ ServerHandler \notin Handler
<1> USE ScriptAssumption DEF ScriptTypeOK
<1>1. NumScripts \in Nat /\ Nobody \notin Script /\ ServerHandler \notin Handler
  BY DEF Script, Nobody, Handler, ServerHandler
<1>2. /\ code.for # "nothing" => code # NoCode
      /\ code # NoCode => code.of \in Script
                          /\ code.for \in {"top", "setup", "handler", "tool", "teardown"}
      /\ code = NoCode => code.for = "nothing"
  BY DEF NoCode
<1>3. walk # NoWalk => walk.target \in Target /\ walk.at \in Nat OBVIOUS
<1>4. \A m \in Target : walk # NoWalk => NoWalk # [target |-> m, at |-> 1] BY DEF NoWalk
<1>5. ASSUME NEW m \in Target
      PROVE  /\ handlers[m] \in Seq(Handler \union {ServerHandler})
             /\ DOMAIN handlers[m] = 1 .. Len(handlers[m])
             /\ Len(handlers[m]) \in Nat
             /\ ToSet(handlers[m]) \subseteq Handler \union {ServerHandler}
  <2>1. handlers[m] \in Seq(Handler \union {ServerHandler}) OBVIOUS
  <2>2. DOMAIN handlers[m] = 1 .. Len(handlers[m]) /\ Len(handlers[m]) \in Nat
    BY <2>1, LenProperties
  <2>3. \A i \in 1 .. Len(handlers[m]) : handlers[m][i] \in Handler \union {ServerHandler}
    BY <2>1, ElementOfSeq
  <2>4. QED BY <2>1, <2>2, <2>3 DEF ToSet
<1>6. IsFiniteSet(due)
  <2>1. due \subseteq 0 .. MaxHandlers BY DEF Handler, ServerHandler
  <2>2. IsFiniteSet(0 .. MaxHandlers) BY FS_Interval
  <2>3. QED BY <2>1, <2>2, FS_Subset
<1>7. QED BY <1>1, <1>2, <1>3, <1>4, <1>5, <1>6

LEMMA ScriptStarts == ScriptInit => ScriptInv
<1> SUFFICES ASSUME ScriptInit PROVE ScriptInv
  OBVIOUS
<1> USE ScriptAssumption DEF ScriptInit
<1>1. ScriptTypeOK
  <2>1. <<>> \in Seq(Handler \union {ServerHandler}) BY EmptySeq
  <2>2. handlers \in [Target -> Seq(Handler \union {ServerHandler})] BY <2>1
  <2>3. scriptNext \in 1 .. Nobody BY DEF Nobody
  <2>4. QED BY <2>2, <2>3 DEF ScriptTypeOK
<1>2. CodeInv BY DEF CodeInv, NoCode
<1>3. ListsInv
  <2>1. 1 .. Len(<<>>) = {} /\ ToSet(<<>>) = {} BY DEF ToSet
  <2>2. QED BY <2>1 DEF ListsInv
<1>4. CallbacksInv /\ WalkInv BY DEF CallbacksInv, WalkInv
<1>5. QED BY <1>1, <1>2, <1>3, <1>4 DEF ScriptInv

(* A step that neither registers nor removes a handler nor moves the loop. *)
LEMMA QuietStep ==
  ASSUME ListsInv, CallbacksInv, WalkInv,
         UNCHANGED <<handlers, callbacks, owner, walk, due, heardIt, removals>>,
         stage' = "setup" => stage = "setup",
         \A h : Accounted(h) => Accounted(h)'
  PROVE  ListsInv' /\ CallbacksInv' /\ WalkInv'
<1>1. ListsInv' BY DEF ListsInv
<1>2. CallbacksInv' BY DEF CallbacksInv
<1>3. WalkInv' BY DEF WalkInv, Passed
<1>4. QED BY <1>1, <1>2, <1>3

(* Code runs or returns, or a stage goes on to the next script. *)
LEMMA SetupSteps ==
  ASSUME ScriptInv, SetupBegins \/ TopLevelEnds \/ TopLevelRaises \/ SetupEnds
  PROVE  ScriptInv'
<1> USE DEF ScriptInv
<1>1. /\ UNCHANGED <<stage, handlers, callbacks, tools, owner, walk, due, heardIt, removals, lateHandlers>>
  BY DEF SetupBegins, TopLevelEnds, TopLevelRaises, SetupEnds, walkVars
<1>2. /\ code.for # "nothing" => code # NoCode
      /\ code # NoCode => code.of \in Script /\ code.of # Nobody
      /\ code = NoCode => code.for = "nothing"
      /\ Nobody \notin Script /\ NumScripts \in Nat
  BY ScriptFacts
<1>3. stage = "setup" /\ walk = NoWalk /\ scriptNext \in Script
      /\ (code # NoCode => code.of = scriptNext)
  <2>1. CASE SetupBegins BY <2>1 DEF SetupBegins, Idle, CodeInv
  <2>2. CASE code.for \in {"top", "setup"}
    <3>1. stage = "setup" BY <1>2, <2>2 DEF CodeInv
    <3>2. QED BY <1>2, <2>2, <3>1 DEF CodeInv
  <2>3. QED BY <2>1, <2>2 DEF TopLevelEnds, TopLevelRaises, SetupEnds
<1>4. contexts \subseteq contexts' /\ broken \subseteq broken'
  BY DEF SetupBegins, TopLevelEnds, TopLevelRaises, SetupEnds
<1>5. \A h : Accounted(h) => Accounted(h)' BY <1>1, <1>3, <1>4 DEF Accounted
<1>6. ListsInv' /\ CallbacksInv' /\ WalkInv' BY <1>1, <1>5, QuietStep
<1>7. scriptNext \in 1 .. NumScripts /\ scriptNext + 1 \in 1 .. Nobody /\ Nobody = NumScripts + 1
  BY <1>2, <1>3 DEF Script, Nobody
<1>8. CASE SetupBegins
  <2>1. code' = [of |-> scriptNext, for |-> "top"] /\ UNCHANGED <<scriptNext, contexts, broken>>
    BY <1>8 DEF SetupBegins, RunsCode
  <2>2. code'.of = scriptNext /\ code'.for = "top" BY <2>1
  <2>3. ScriptTypeOK' BY <1>1, <1>3, <2>1 DEF ScriptTypeOK
  <2>4. CodeInv' BY <1>1, <1>3, <2>1, <2>2 DEF CodeInv
  <2>5. QED BY <1>6, <2>3, <2>4
<1>9. CASE TopLevelEnds
  <2>1. code' = [of |-> code.of, for |-> "setup"] /\ contexts' = contexts \union {code.of}
        /\ code.for = "top" /\ UNCHANGED <<scriptNext, broken>>
    BY <1>9 DEF TopLevelEnds, RunsCode
  <2>2. code'.of = scriptNext /\ code'.for = "setup" /\ code.of = scriptNext BY <1>2, <1>3, <2>1
  <2>3. ScriptTypeOK' BY <1>1, <1>3, <2>1, <2>2 DEF ScriptTypeOK
  <2>4. CodeInv' BY <1>1, <1>3, <2>1, <2>2 DEF CodeInv
  <2>5. QED BY <1>6, <2>3, <2>4
<1>10. CASE TopLevelRaises \/ SetupEnds
  <2>1. /\ code' = NoCode /\ scriptNext' = scriptNext + 1 /\ contexts' = contexts
        /\ scriptNext \in contexts' \union broken'
        /\ broken' \subseteq broken \union {scriptNext}
    <3>1. CASE TopLevelRaises BY <1>2, <1>3, <3>1 DEF TopLevelRaises
    <3>2. CASE SetupEnds BY <1>2, <1>3, <3>2 DEF SetupEnds, CodeInv
    <3>3. QED BY <1>10, <3>1, <3>2
  <2>2. ScriptTypeOK'
    <3>1. scriptNext' \in 1 .. Nobody BY <1>7, <2>1
    <3>2. broken' \subseteq Script /\ contexts' \subseteq Script BY <1>3, <2>1 DEF ScriptTypeOK
    <3>3. QED BY <1>1, <2>1, <3>1, <3>2 DEF ScriptTypeOK
  <2>3. CodeInv'
    <3>1. \A s \in 1 .. scriptNext' - 1 : s \in 1 .. scriptNext - 1 \/ s = scriptNext
      BY <1>7, <2>1
    <3>2. \A s \in 1 .. scriptNext' - 1 : s \in contexts' \union broken'
      BY <1>3, <1>4, <2>1, <3>1 DEF CodeInv
    <3>3. NoCode.for = "nothing" BY DEF NoCode
    <3>4. QED BY <1>1, <1>3, <2>1, <3>2, <3>3 DEF CodeInv
  <2>4. QED BY <1>6, <2>2, <2>3
<1>11. QED BY <1>8, <1>9, <1>10

LEMMA TeardownSteps ==
  ASSUME ScriptInv, TeardownStarts \/ TeardownBegins \/ TeardownSkips \/ TornDownAll
  PROVE  ScriptInv'
<1> USE DEF ScriptInv
<1>1. /\ UNCHANGED <<handlers, callbacks, tools, owner, contexts, walk, due, heardIt, removals,
                     broken, lateHandlers>>
      /\ code = NoCode /\ walk = NoWalk /\ stage' # "setup" /\ stage # "setup"
  BY DEF TeardownStarts, TeardownBegins, TeardownSkips, TornDownAll, walkVars, Idle
<1>2. Nobody \notin Script /\ NumScripts \in Nat BY ScriptFacts
<1>3. scriptNext \in Nat /\ scriptNext >= 1 /\ (scriptNext \in Script \/ scriptNext = Nobody)
  BY <1>2 DEF ScriptTypeOK, Script, Nobody
<1>4. CASE TeardownStarts
  <2>1. /\ stage = "open" /\ stage' = "teardown" /\ UNCHANGED <<scriptNext, code>>
    BY <1>4 DEF TeardownStarts
  <2>2. scriptNext = 1 /\ Script \subseteq contexts \union broken BY <2>1 DEF CodeInv
  <2>3. \A s \in Script : s >= 1 BY DEF Script
  <2>4. \A h : Accounted(h) => Accounted(h)' BY <1>1, <2>1, <2>2, <2>3 DEF Accounted
  <2>5. ListsInv' /\ CallbacksInv' /\ WalkInv' BY <1>1, <2>4, QuietStep
  <2>6. ScriptTypeOK' BY <1>1, <2>1 DEF ScriptTypeOK
  <2>7. NoCode.for = "nothing" BY DEF NoCode
  <2>8. CodeInv' BY <1>1, <2>1, <2>2, <2>7 DEF CodeInv
  <2>9. QED BY <2>5, <2>6, <2>8
<1>5. CASE TeardownBegins
  <2>1. /\ stage = "teardown" /\ stage' = "teardown" /\ scriptNext' = scriptNext
        /\ scriptNext \in contexts /\ code' = [of |-> scriptNext, for |-> "teardown"]
    BY <1>5 DEF TeardownBegins, RunsCode
  <2>2. scriptNext \in Script BY <2>1 DEF ScriptTypeOK
  <2>3. \A h : Accounted(h) => Accounted(h)' BY <1>1, <2>1 DEF Accounted
  <2>4. ListsInv' /\ CallbacksInv' /\ WalkInv' BY <1>1, <2>3, QuietStep
  <2>5. ScriptTypeOK' BY <1>1, <2>1, <2>2 DEF ScriptTypeOK
  <2>6. code'.of = scriptNext /\ code'.for = "teardown" BY <2>1
  <2>7. CodeInv' BY <1>1, <2>1, <2>6 DEF CodeInv
  <2>8. QED BY <2>4, <2>5, <2>7
<1>6. CASE TeardownSkips
  <2>1. /\ stage = "teardown" /\ stage' = "teardown" /\ scriptNext' = scriptNext + 1
        /\ scriptNext \in Script /\ scriptNext \notin contexts /\ code' = code
    BY <1>6 DEF TeardownSkips
  <2>2. scriptNext \in broken BY <1>3, <2>1 DEF CodeInv
  <2>3. \A s \in Script : s >= scriptNext => s >= scriptNext + 1 \/ s = scriptNext
    BY <1>3 DEF Script
  <2>4. \A s \in Script : s >= scriptNext + 1 => s >= scriptNext BY <1>3 DEF Script
  <2>5. \A h : Accounted(h) => Accounted(h)' BY <1>1, <2>1, <2>2, <2>3 DEF Accounted
  <2>6. ListsInv' /\ CallbacksInv' /\ WalkInv' BY <1>1, <2>5, QuietStep
  <2>7. scriptNext + 1 \in 1 .. Nobody BY <1>2, <2>1 DEF Script, Nobody
  <2>8. ScriptTypeOK' BY <1>1, <2>1, <2>7 DEF ScriptTypeOK
  <2>9. NoCode.for = "nothing" BY DEF NoCode
  <2>10. CodeInv' BY <1>1, <2>1, <2>4, <2>9 DEF CodeInv
  <2>11. QED BY <2>6, <2>8, <2>10
<1>7. CASE TornDownAll
  <2>1. /\ stage = "teardown" /\ stage' = "over" /\ scriptNext = Nobody
        /\ scriptNext' = scriptNext /\ code' = code
    BY <1>7 DEF TornDownAll
  <2>2. \A s \in Script : ~(s >= scriptNext) BY <1>2, <2>1 DEF Script, Nobody
  <2>3. \A h : Accounted(h) => Accounted(h)' BY <1>1, <2>1, <2>2 DEF Accounted
  <2>4. ListsInv' /\ CallbacksInv' /\ WalkInv' BY <1>1, <2>3, QuietStep
  <2>5. ScriptTypeOK' BY <1>1, <2>1 DEF ScriptTypeOK
  <2>6. NoCode.for = "nothing" BY DEF NoCode
  <2>7. CodeInv' BY <1>1, <2>1, <2>6 DEF CodeInv
  <2>8. QED BY <2>4, <2>5, <2>7
<1>8. QED BY <1>4, <1>5, <1>6, <1>7

LEMMA ToolSteps ==
  ASSUME ScriptInv, Returns \/ ScriptAddsTool \/ \E s \in Script : ToolRuns(s)
  PROVE  ScriptInv'
<1> USE DEF ScriptInv
<1>1. UNCHANGED <<stage, scriptNext, contexts, handlers, callbacks, owner, walk, due, heardIt,
                  removals, broken, lateHandlers>>
  BY DEF Returns, ScriptAddsTool, ToolRuns, walkVars
<1>2. \A h : Accounted(h) => Accounted(h)' BY <1>1 DEF Accounted
<1>3. ListsInv' /\ CallbacksInv' /\ WalkInv' BY <1>1, <1>2, QuietStep
<1>4. /\ code.for # "nothing" => code # NoCode
      /\ code # NoCode => code.of \in Script
      /\ NoCode.for = "nothing"
  BY ScriptFacts DEF NoCode
<1>5. CASE Returns
  <2>1. code' = NoCode /\ tools' = tools BY <1>5 DEF Returns
  <2>2. ScriptTypeOK' BY <1>1, <2>1 DEF ScriptTypeOK
  <2>3. CodeInv' BY <1>1, <1>4, <2>1 DEF CodeInv
  <2>4. QED BY <1>3, <2>2, <2>3
<1>6. CASE ScriptAddsTool
  <2>1. code' = code /\ code # NoCode /\ tools' = tools \union {code.of}
    BY <1>6 DEF ScriptAddsTool
  <2>2. ScriptTypeOK' BY <1>1, <1>4, <2>1 DEF ScriptTypeOK
  <2>3. CodeInv' BY <1>1, <2>1 DEF CodeInv
  <2>4. QED BY <1>3, <2>2, <2>3
<1>7. ASSUME NEW s \in Script, ToolRuns(s) PROVE ScriptInv'
  <2>1. code' = [of |-> s, for |-> "tool"] /\ tools' = tools /\ stage \in {"open", "over"}
    BY <1>7 DEF ToolRuns, RunsCode
  <2>2. ScriptTypeOK' BY <1>1, <2>1 DEF ScriptTypeOK
  <2>3. code'.for = "tool" BY <2>1
  <2>4. CodeInv' BY <1>1, <2>1, <2>3 DEF CodeInv
  <2>5. QED BY <1>3, <2>2, <2>4
<1>8. QED BY <1>5, <1>6, <1>7

(* A handler is registered: it is behind the loop's list, and nobody's due. *)
LEMMA ScriptOnStep ==
  ASSUME ScriptInv, ScriptOn
  PROVE  ScriptInv'
<1> USE DEF ScriptInv
<1>1. PICK h \in Handler, m \in Target :
        /\ Fresh(h)
        /\ owner' = [owner EXCEPT ![h] = code.of]
        /\ handlers' = [handlers EXCEPT ![m] = Append(handlers[m], h)]
        /\ callbacks' = [callbacks EXCEPT ![code.of] = callbacks[code.of] \union {h}]
        /\ lateHandlers' = IF stage = "over" THEN lateHandlers \union {h} ELSE lateHandlers
  BY DEF ScriptOn
<1>2. /\ code # NoCode
      /\ UNCHANGED <<stage, scriptNext, code, contexts, tools, walk, due, heardIt, removals, broken>>
  BY DEF ScriptOn, walkVars
<1>3. /\ code.of \in Script /\ Nobody \notin Script /\ ServerHandler \notin Handler
      /\ walk # NoWalk => walk.target \in Target /\ walk.at \in Nat
      /\ \A x \in Target : /\ handlers[x] \in Seq(Handler \union {ServerHandler})
                           /\ DOMAIN handlers[x] = 1 .. Len(handlers[x])
                           /\ Len(handlers[x]) \in Nat
                           /\ ToSet(handlers[x]) \subseteq Handler \union {ServerHandler}
      /\ IsFiniteSet(due)
  BY <1>2, ScriptFacts
<1>4. owner[h] = Nobody /\ owner'[h] = code.of /\ \A g \in Handler \ {h} : owner'[g] = owner[g]
  BY <1>1 DEF Fresh, ScriptTypeOK
<1>5. /\ h \in callbacks'[code.of]
      /\ \A s \in Script : callbacks[s] \subseteq callbacks'[s]
      /\ \A s \in Script : callbacks'[s] \subseteq callbacks[s] \union {h}
      /\ \A s \in Script \ {code.of} : callbacks'[s] = callbacks[s]
  BY <1>1, <1>3 DEF ScriptTypeOK
<1>6. \A x \in Target : h \notin ToSet(handlers[x])
  BY <1>3, <1>4 DEF ListsInv, Accounted
<1>7. /\ \A x \in Target \ {m} : handlers'[x] = handlers[x]
      /\ handlers'[m] = Append(handlers[m], h)
      /\ handlers' \in [Target -> Seq(Handler \union {ServerHandler})]
  BY <1>1, <1>3, AppendProperties DEF ScriptTypeOK
<1>8. /\ Len(handlers'[m]) = Len(handlers[m]) + 1 /\ handlers'[m][Len(handlers[m]) + 1] = h
      /\ \A i \in 1 .. Len(handlers[m]) : handlers'[m][i] = handlers[m][i]
      /\ DOMAIN handlers'[m] = 1 .. Len(handlers[m]) + 1
  BY <1>3, <1>7, AppendProperties, LenProperties
<1>9. \A i \in 1 .. Len(handlers[m]) : handlers[m][i] # h BY <1>3, <1>6 DEF ToSet
<1>10. ToSet(handlers'[m]) = ToSet(handlers[m]) \union {h}
  <2>1. \A i \in DOMAIN handlers'[m] : i \in DOMAIN handlers[m] \/ i = Len(handlers[m]) + 1
    BY <1>3, <1>8
  <2>2. DOMAIN handlers[m] \subseteq DOMAIN handlers'[m]
        /\ Len(handlers[m]) + 1 \in DOMAIN handlers'[m]
    BY <1>3, <1>8
  <2>3. \A i \in DOMAIN handlers[m] : handlers'[m][i] = handlers[m][i] BY <1>3, <1>8
  <2>4. QED BY <1>8, <2>1, <2>2, <2>3 DEF ToSet
<1>11. ScriptTypeOK'
  <2>1. owner' \in [Handler -> {Nobody} \union Script] BY <1>1, <1>3 DEF ScriptTypeOK
  <2>2. callbacks' \in [Script -> SUBSET Handler] BY <1>1, <1>3 DEF ScriptTypeOK
  <2>3. lateHandlers' \subseteq Handler BY <1>1 DEF ScriptTypeOK
  <2>4. QED BY <1>2, <1>7, <2>1, <2>2, <2>3 DEF ScriptTypeOK
<1>12. CodeInv' BY <1>2 DEF CodeInv
<1>13. CallbacksInv' BY <1>3, <1>4, <1>5 DEF CallbacksInv, ScriptTypeOK
<1>14. Accounted(h)'
  <2>1. stage \in {"setup", "open", "teardown", "over"} BY DEF ScriptTypeOK
  <2>2. stage = "teardown" => code.of = scriptNext /\ scriptNext >= scriptNext
    <3>1. scriptNext \in 1 .. Nobody /\ Nobody \in Nat
      BY ScriptFacts DEF ScriptTypeOK, Nobody
    <3>2. scriptNext >= scriptNext BY <3>1
    <3>3. QED BY <1>2, <3>2 DEF CodeInv
  <2>3. stage = "over" => h \in lateHandlers' BY <1>1
  <2>4. QED BY <1>2, <1>3, <1>4, <1>5, <2>1, <2>2, <2>3 DEF Accounted
<1>15. \A g \in Handler \ {h} : Accounted(g) => Accounted(g)'
  <2>1. lateHandlers \subseteq lateHandlers' BY <1>1
  <2>2. QED BY <1>2, <1>4, <1>5, <2>1 DEF Accounted
<1>16. ListsInv'
  <2>1. ASSUME NEW x \in Target, NEW i \in 1 .. Len(handlers'[x]), NEW j \in 1 .. Len(handlers'[x]),
               handlers'[x][i] = handlers'[x][j]
        PROVE  i = j
    <3>1. CASE x # m BY <1>7, <2>1, <3>1 DEF ListsInv
    <3>2. CASE x = m
      <4>1. (i \in 1 .. Len(handlers[m]) \/ i = Len(handlers[m]) + 1)
            /\ (j \in 1 .. Len(handlers[m]) \/ j = Len(handlers[m]) + 1)
        BY <1>3, <1>8, <3>2
      <4>2. QED BY <1>8, <1>9, <2>1, <3>2, <4>1 DEF ListsInv
    <3>3. QED BY <3>1, <3>2
  <2>2. ASSUME NEW x \in Target, NEW g \in ToSet(handlers'[x])
        PROVE  IF g = ServerHandler THEN stage' # "setup" ELSE Accounted(g)'
    <3>1. g \in ToSet(handlers[x]) \/ g = h BY <1>7, <1>10
    <3>2. CASE g = h BY <1>3, <1>14, <3>2
    <3>3. CASE g # h
      <4>1. IF g = ServerHandler THEN stage # "setup" ELSE Accounted(g) BY <3>1, <3>3 DEF ListsInv
      <4>2. g \in Handler \union {ServerHandler} BY <1>3, <3>1, <3>3
      <4>3. QED BY <1>2, <1>15, <3>3, <4>1, <4>2
    <3>4. QED BY <3>2, <3>3
  <2>3. QED BY <2>1, <2>2 DEF ListsInv
<1>17. WalkInv'
  <2> SUFFICES ASSUME walk' # NoWalk PROVE WalkInv'
    BY DEF WalkInv
  <2> DEFINE x == walk.target
  <2>1. walk # NoWalk /\ x \in Target BY <1>2, <1>3
  <2>2. walk.at >= 1 /\ due \subseteq ToSet(handlers[x]) /\ Cardinality(Passed) <= removals
    BY <2>1 DEF WalkInv
  <2>3. h \notin due BY <1>6, <2>1, <2>2
  <2>4. due \subseteq ToSet(handlers'[x]) BY <1>7, <1>10, <2>1, <2>2
  <2>5. Passed' = Passed
    <3>1. CASE x # m BY <1>2, <1>7, <2>1, <3>1 DEF Passed
    <3>2. CASE x = m
      <4>1. \A i \in 1 .. Len(handlers'[m]) : i \in 1 .. Len(handlers[m]) \/ handlers'[m][i] = h
        BY <1>3, <1>8
      <4>2. \A i \in 1 .. Len(handlers[m]) : i \in 1 .. Len(handlers'[m]) BY <1>3, <1>8
      <4>3. QED BY <1>2, <1>8, <2>3, <3>2, <4>1, <4>2 DEF Passed
    <3>3. QED BY <3>1, <3>2
  <2>6. QED BY <1>2, <2>2, <2>4, <2>5 DEF WalkInv
<1>18. QED BY <1>11, <1>12, <1>13, <1>16, <1>17

(* Handlers go off the lists: those left are accounted for as before. *)
LEMMA ListsShrink ==
  ASSUME ScriptInv, NEW gone, handlers' = [m \in Target |-> Without(handlers[m], gone)],
         stage' = stage,
         \A g : g \notin gone /\ Accounted(g) => Accounted(g)'
  PROVE  /\ handlers' \in [Target -> Seq(Handler \union {ServerHandler})]
         /\ ListsInv'
<1> USE DEF ScriptInv
<1>1. /\ ServerHandler \notin Handler
      /\ \A x \in Target : /\ handlers[x] \in Seq(Handler \union {ServerHandler})
                           /\ DOMAIN handlers[x] = 1 .. Len(handlers[x])
  BY ScriptFacts
<1>2. ASSUME NEW m \in Target
      PROVE  /\ handlers'[m] \in Seq(Handler \union {ServerHandler})
             /\ \A n \in 1 .. Len(handlers'[m]) : \E i \in 1 .. Len(handlers[m]) :
                  handlers'[m][n] = handlers[m][i] /\ handlers[m][i] \notin gone
             /\ \A i, j \in 1 .. Len(handlers'[m]) : handlers'[m][i] = handlers'[m][j] => i = j
  <2>1. handlers'[m] = Without(handlers[m], gone) OBVIOUS
  <2>2. \A i, j \in 1 .. Len(handlers[m]) : handlers[m][i] = handlers[m][j] => i = j
    BY DEF ListsInv
  <2>3. handlers[m] \in Seq(Handler \union {ServerHandler}) BY <1>1
  <2>4. QED BY ONLY <2>1, <2>2, <2>3, WithoutFacts
<1>3. handlers' \in [Target -> Seq(Handler \union {ServerHandler})] BY <1>2
<1>4. ASSUME NEW m \in Target, NEW g \in ToSet(handlers'[m])
      PROVE  IF g = ServerHandler THEN stage' # "setup" ELSE Accounted(g)'
  <2>1. DOMAIN handlers'[m] = 1 .. Len(handlers'[m]) BY <1>2, LenProperties
  <2>2. PICK n \in 1 .. Len(handlers'[m]) : handlers'[m][n] = g BY <2>1 DEF ToSet
  <2>3. PICK i \in 1 .. Len(handlers[m]) : g = handlers[m][i] /\ g \notin gone BY <1>2, <2>2
  <2>4. g \in ToSet(handlers[m]) BY <1>1, <2>3 DEF ToSet
  <2>5. IF g = ServerHandler THEN stage # "setup" ELSE Accounted(g) BY <2>4 DEF ListsInv
  <2>6. QED BY <2>3, <2>5
<1>5. ListsInv' BY <1>2, <1>4 DEF ListsInv
<1>6. QED BY <1>3, <1>5

(* A handler is removed: the loop may now pass one more of those due. *)
LEMMA ScriptOffStep ==
  ASSUME ScriptInv, ScriptOff
  PROVE  ScriptInv'
<1> USE DEF ScriptInv
<1>1. PICK h \in callbacks[code.of] :
        /\ callbacks' = [callbacks EXCEPT ![code.of] = callbacks[code.of] \ {h}]
        /\ handlers' = [m \in Target |-> Without(handlers[m], {h})]
        /\ due' = due \ {h}
        /\ removals' = IF walk = NoWalk THEN removals ELSE removals + 1
  BY DEF ScriptOff, TakenOff
<1>2. /\ code # NoCode
      /\ UNCHANGED <<stage, scriptNext, code, contexts, tools, owner, walk, heardIt, broken, lateHandlers>>
  BY DEF ScriptOff
<1>3. /\ code.of \in Script /\ Nobody \notin Script /\ ServerHandler \notin Handler
      /\ walk # NoWalk => walk.target \in Target /\ walk.at \in Nat
      /\ \A x \in Target : /\ handlers[x] \in Seq(Handler \union {ServerHandler})
                           /\ DOMAIN handlers[x] = 1 .. Len(handlers[x])
                           /\ Len(handlers[x]) \in Nat
      /\ IsFiniteSet(due)
  BY <1>2, ScriptFacts
<1>4. /\ \A s \in Script : callbacks'[s] \subseteq callbacks[s] /\ callbacks[s] \subseteq callbacks'[s] \union {h}
      /\ callbacks' \in [Script -> SUBSET Handler]
  BY <1>1, <1>3 DEF ScriptTypeOK
<1>5. \A g : g \notin {h} /\ Accounted(g) => Accounted(g)' BY <1>2, <1>4 DEF Accounted
<1>6. handlers' \in [Target -> Seq(Handler \union {ServerHandler})] /\ ListsInv'
  BY <1>1, <1>2, <1>5, ListsShrink
<1>7. ScriptTypeOK'
  <2>1. removals' \in Nat BY <1>1 DEF ScriptTypeOK
  <2>2. due' \union heardIt' \subseteq Handler \union {ServerHandler} BY <1>1, <1>2 DEF ScriptTypeOK
  <2>3. QED BY <1>2, <1>4, <1>6, <2>1, <2>2 DEF ScriptTypeOK
<1>8. CodeInv' BY <1>2 DEF CodeInv
<1>9. CallbacksInv' BY <1>2, <1>4 DEF CallbacksInv
<1>10. WalkInv'
  <2> SUFFICES ASSUME walk' # NoWalk PROVE WalkInv'
    BY DEF WalkInv
  <2> DEFINE x == walk.target
             q == handlers[x]
             L == Len(q)
             r == handlers'[x]
             z == q[walk.at]
  <2>1. walk # NoWalk /\ x \in Target /\ walk.at \in Nat BY <1>2, <1>3
  <2>2. walk.at >= 1 /\ due \subseteq ToSet(q) /\ Cardinality(Passed) <= removals
    BY <2>1 DEF WalkInv
  <2>3. q \in Seq(Handler \union {ServerHandler}) /\ L \in Nat /\ DOMAIN q = 1 .. L BY <1>3, <2>1
  <2>4. \/ /\ \A i \in 1 .. L : q[i] # h
           /\ Len(r) = L /\ \A n \in 1 .. L : r[n] = q[n]
        \/ \E p \in 1 .. L :
             /\ q[p] = h /\ Len(r) = L - 1
             /\ \A n \in 1 .. L - 1 : r[n] = IF n < p THEN q[n] ELSE q[n + 1]
    <3>1. r = Without(q, {h}) BY <1>1, <2>1
    <3>2. \A i, j \in 1 .. Len(q) : q[i] = q[j] => i = j BY <2>1 DEF ListsInv
    <3>3. q \in Seq(Handler \union {ServerHandler}) BY <2>3
    <3> HIDE DEF q, r
    <3>4. MovedUp(q, r, h) BY ONLY <3>1, <3>2, <3>3, WithoutOne
    <3>5. QED BY <3>4 DEF L, MovedUp
  <2>5. DOMAIN r = 1 .. Len(r) BY <1>6, <2>1, LenProperties
  <2>6. Passed = {g \in due \ heardIt : \E i \in 1 .. L : i < walk.at /\ q[i] = g}
        /\ Passed' = {g \in due' \ heardIt : \E i \in 1 .. Len(r) : i < walk.at /\ r[i] = g}
    BY <1>2 DEF Passed
  <2> HIDE DEF q, r, L
  <2>7. due' \subseteq ToSet(r)
    <3> SUFFICES ASSUME NEW g \in due, g # h PROVE g \in ToSet(r)
      BY <1>1
    <3>1. PICK i \in 1 .. L : q[i] = g BY <2>2, <2>3 DEF ToSet
    <3>2. \E n \in 1 .. Len(r) : r[n] = g
      <4>1. CASE Len(r) = L /\ \A n \in 1 .. L : r[n] = q[n] BY <3>1, <4>1
      <4>2. ASSUME NEW p \in 1 .. L, q[p] = h, Len(r) = L - 1,
                   \A n \in 1 .. L - 1 : r[n] = IF n < p THEN q[n] ELSE q[n + 1]
            PROVE  \E n \in 1 .. Len(r) : r[n] = g
        <5>1. i # p BY <3>1, <4>2
        <5>2. CASE i < p
          <6>1. i \in 1 .. L - 1 BY <2>3, <3>1, <5>2
          <6>2. QED BY <3>1, <4>2, <5>2, <6>1
        <5>3. CASE ~(i < p)
          <6>1. i - 1 \in 1 .. L - 1 /\ ~(i - 1 < p) /\ (i - 1) + 1 = i BY <2>3, <3>1, <5>1, <5>3
          <6>2. r[i - 1] = g BY <3>1, <4>2, <6>1
          <6>3. QED BY <4>2, <6>1, <6>2
        <5>4. QED BY <5>2, <5>3
      <4>3. QED BY <2>4, <4>1, <4>2
    <3>3. QED BY <2>5, <3>2 DEF ToSet
  <2>8. Passed' \subseteq Passed \union {z}
    <3> SUFFICES ASSUME NEW g \in Passed' PROVE g \in Passed \/ g = z
      OBVIOUS
    <3>1. g \in due \ heardIt BY <1>1, <2>6
    <3>2. PICK i \in 1 .. Len(r) : i < walk.at /\ r[i] = g BY <2>6
    <3>3. CASE Len(r) = L /\ \A n \in 1 .. L : r[n] = q[n] BY <2>6, <3>1, <3>2, <3>3
    <3>4. ASSUME NEW p \in 1 .. L, q[p] = h, Len(r) = L - 1,
                 \A n \in 1 .. L - 1 : r[n] = IF n < p THEN q[n] ELSE q[n + 1]
          PROVE  g \in Passed \/ g = z
      <4>1. i \in 1 .. L /\ i + 1 \in 1 .. L /\ i \in 1 .. L - 1 BY <2>3, <3>2, <3>4
      <4>2. CASE i < p
        <5>1. q[i] = g BY <3>2, <3>4, <4>1, <4>2
        <5>2. QED BY <2>6, <3>1, <3>2, <4>1, <5>1
      <4>3. CASE ~(i < p)
        <5>1. q[i + 1] = g BY <3>2, <3>4, <4>1, <4>3
        <5>2. i + 1 < walk.at \/ i + 1 = walk.at BY <2>1, <3>2, <4>1
        <5>3. QED BY <2>6, <3>1, <4>1, <5>1, <5>2
      <4>4. QED BY <4>2, <4>3
    <3>5. QED BY <2>4, <3>3, <3>4
  <2> HIDE DEF z
  <2>9. IsFiniteSet(Passed) /\ Cardinality(Passed) \in Nat
    <3>1. Passed \subseteq due BY DEF Passed
    <3>2. QED BY <1>3, <3>1, FS_Subset, FS_CardinalityType
  <2>10. Cardinality(Passed') <= Cardinality(Passed) + 1
    <3> DEFINE P == Passed
               P1 == Passed'
    <3> HIDE DEF P, P1
    <3>1. IsFiniteSet(P) /\ Cardinality(P) \in Nat /\ P1 \subseteq P \union {z} BY <2>8, <2>9 DEF P, P1
    <3>2. IsFiniteSet(P \union {z})
          /\ (Cardinality(P \union {z}) = Cardinality(P) \/ Cardinality(P \union {z}) = Cardinality(P) + 1)
      BY ONLY <3>1, FS_AddElement
    <3>3. Cardinality(P1) <= Cardinality(P \union {z}) /\ Cardinality(P1) \in Nat
      BY ONLY <3>1, <3>2, FS_Subset, FS_CardinalityType
    <3>4. Cardinality(P1) <= Cardinality(P) + 1 BY ONLY <3>1, <3>2, <3>3
    <3>5. QED BY <3>4 DEF P, P1
  <2>11. removals' = removals + 1 /\ removals \in Nat BY <1>1, <2>1 DEF ScriptTypeOK
  <2>12. IsFiniteSet(Passed') /\ Cardinality(Passed') \in Nat
    <3>1. Passed' \subseteq due BY <1>1, <2>6
    <3>2. QED BY <1>3, <3>1, FS_Subset, FS_CardinalityType
  <2>13. Cardinality(Passed)' <= removals' BY <2>2, <2>9, <2>10, <2>11, <2>12
  <2>14. QED BY <1>2, <2>2, <2>7, <2>13 DEF WalkInv, r
<1>11. QED BY <1>6, <1>7, <1>8, <1>9, <1>10

(* A script is torn down: its handlers go with its context. *)
LEMMA TeardownEndsStep ==
  ASSUME ScriptInv, TeardownEnds
  PROVE  ScriptInv'
<1> USE DEF ScriptInv
<1>1. /\ code.for = "teardown" /\ code' = NoCode /\ scriptNext' = scriptNext + 1
      /\ contexts' = contexts \ {code.of}
      /\ handlers' = [m \in Target |-> Without(handlers[m], callbacks[code.of])]
      /\ UNCHANGED <<stage, callbacks, tools, owner, walk, due, heardIt, removals, broken, lateHandlers>>
  BY DEF TeardownEnds, Cleaned, walkVars
<1>2. /\ code # NoCode /\ code.of \in Script /\ NumScripts \in Nat /\ NoCode.for = "nothing"
  BY <1>1, ScriptFacts DEF NoCode
<1>3. stage = "teardown"
  <2>1. stage \in {"setup", "open", "teardown", "over"} BY DEF ScriptTypeOK
  <2>2. QED BY <1>1, <1>2, <2>1 DEF CodeInv
<1>4. walk = NoWalk /\ code.of = scriptNext BY <1>2, <1>3 DEF CodeInv
<1>5. /\ scriptNext + 1 \in 1 .. Nobody
      /\ \A s \in Script : s >= scriptNext => s >= scriptNext + 1 \/ s = scriptNext
      /\ \A s \in Script : s >= scriptNext + 1 => s >= scriptNext /\ s # scriptNext
  <2>1. scriptNext \in Script BY <1>2, <1>4
  <2>2. QED BY <1>2, <2>1 DEF Script, Nobody
<1>6. \A g : g \notin callbacks[code.of] /\ Accounted(g) => Accounted(g)'
  BY <1>1, <1>3, <1>4, <1>5 DEF Accounted
<1>7. handlers' \in [Target -> Seq(Handler \union {ServerHandler})] /\ ListsInv'
  BY <1>1, <1>6, ListsShrink
<1>8. ScriptTypeOK' BY <1>1, <1>5, <1>7 DEF ScriptTypeOK
<1>9. CodeInv'
  <2>1. \A s \in Script : s >= scriptNext' => s \in contexts' \union broken'
    <3> SUFFICES ASSUME NEW s \in Script, s >= scriptNext + 1 PROVE s \in contexts' \union broken'
      BY <1>1
    <3>1. s >= scriptNext /\ s # scriptNext BY <1>5
    <3>2. s \in contexts \union broken BY <1>3, <3>1 DEF CodeInv
    <3>3. QED BY <1>1, <1>4, <3>1, <3>2
  <2>2. QED BY <1>1, <1>2, <1>3, <1>4, <2>1 DEF CodeInv
<1>10. CallbacksInv' BY <1>1 DEF CallbacksInv
<1>11. WalkInv' BY <1>1, <1>4 DEF WalkInv
<1>12. QED BY <1>7, <1>8, <1>9, <1>10, <1>11

(* The connection's own handler goes behind those of the scripts. *)
LEMMA PreparedStep ==
  ASSUME ScriptInv, Prepared
  PROVE  ScriptInv'
<1> USE DEF ScriptInv
<1>1. /\ stage = "setup" /\ code = NoCode /\ walk = NoWalk /\ scriptNext = Nobody
      /\ stage' = "open" /\ scriptNext' = 1
      /\ handlers' = [m \in Target |-> Append(handlers[m], ServerHandler)]
      /\ UNCHANGED <<code, contexts, callbacks, tools, owner, walk, due, heardIt, removals,
                     broken, lateHandlers>>
  BY DEF Prepared, Idle, walkVars
<1>2. /\ NumScripts \in Nat /\ NoCode.for = "nothing" /\ ServerHandler \notin Handler
      /\ \A x \in Target : /\ handlers[x] \in Seq(Handler \union {ServerHandler})
                           /\ DOMAIN handlers[x] = 1 .. Len(handlers[x])
                           /\ Len(handlers[x]) \in Nat
  BY ScriptFacts DEF NoCode
<1>3. ASSUME NEW m \in Target
      PROVE  /\ handlers'[m] \in Seq(Handler \union {ServerHandler})
             /\ Len(handlers'[m]) = Len(handlers[m]) + 1
             /\ handlers'[m][Len(handlers[m]) + 1] = ServerHandler
             /\ \A i \in 1 .. Len(handlers[m]) : handlers'[m][i] = handlers[m][i]
             /\ DOMAIN handlers'[m] = 1 .. Len(handlers[m]) + 1
  <2>1. handlers'[m] = Append(handlers[m], ServerHandler) BY <1>1
  <2>2. ServerHandler \in Handler \union {ServerHandler} OBVIOUS
  <2>3. QED BY <1>2, <2>1, <2>2, AppendProperties, LenProperties
<1>4. \A m \in Target : \A i \in 1 .. Len(handlers[m]) : handlers[m][i] \in ToSet(handlers[m])
  BY <1>2 DEF ToSet
<1>5. \A m \in Target : \A i \in 1 .. Len(handlers[m]) : handlers[m][i] # ServerHandler
  BY <1>1, <1>4 DEF ListsInv
<1>6. \A g : Accounted(g) => Accounted(g)' BY <1>1 DEF Accounted
<1>7. ListsInv'
  <2>1. ASSUME NEW m \in Target, NEW i \in 1 .. Len(handlers'[m]), NEW j \in 1 .. Len(handlers'[m]),
               handlers'[m][i] = handlers'[m][j]
        PROVE  i = j
    <3>1. (i \in 1 .. Len(handlers[m]) \/ i = Len(handlers[m]) + 1)
          /\ (j \in 1 .. Len(handlers[m]) \/ j = Len(handlers[m]) + 1)
      BY <1>2, <1>3
    <3>2. QED BY <1>3, <1>5, <2>1, <3>1 DEF ListsInv
  <2>2. ASSUME NEW m \in Target, NEW g \in ToSet(handlers'[m])
        PROVE  IF g = ServerHandler THEN stage' # "setup" ELSE Accounted(g)'
    <3>1. PICK i \in 1 .. Len(handlers[m]) + 1 : handlers'[m][i] = g BY <1>3 DEF ToSet
    <3>2. CASE i = Len(handlers[m]) + 1 BY <1>1, <1>3, <3>1, <3>2
    <3>3. CASE i \in 1 .. Len(handlers[m])
      <4>1. g = handlers[m][i] BY <1>3, <3>1, <3>3
      <4>2. g \in ToSet(handlers[m]) /\ g # ServerHandler BY <1>4, <1>5, <3>3, <4>1
      <4>3. Accounted(g) BY <4>2 DEF ListsInv
      <4>4. QED BY <1>6, <4>2, <4>3
    <3>4. QED BY <1>2, <3>1, <3>2, <3>3
  <2>3. QED BY <2>1, <2>2 DEF ListsInv
<1>8. Script \subseteq contexts \union broken
  <2>1. Script = 1 .. scriptNext - 1 BY <1>1, <1>2 DEF Script, Nobody
  <2>2. QED BY <1>1, <2>1 DEF CodeInv
<1>9. ScriptTypeOK'
  <2>1. handlers' \in [Target -> Seq(Handler \union {ServerHandler})] BY <1>1, <1>3
  <2>2. 1 \in 1 .. Nobody BY <1>2 DEF Nobody
  <2>3. QED BY <1>1, <2>1, <2>2 DEF ScriptTypeOK
<1>10. CodeInv' BY <1>1, <1>2, <1>8 DEF CodeInv
<1>11. CallbacksInv' BY <1>1 DEF CallbacksInv
<1>12. WalkInv' BY <1>1 DEF WalkInv
<1>13. QED BY <1>7, <1>9, <1>10, <1>11, <1>12

(* The loop starts and ends. *)
LEMMA EmitSteps ==
  ASSUME ScriptInv, Emitted \/ \E m \in Target : Emit(m)
  PROVE  ScriptInv'
<1> USE DEF ScriptInv
<1>1. UNCHANGED <<stage, scriptNext, code, contexts, handlers, callbacks, tools, owner, broken,
                  lateHandlers>>
  BY DEF Emitted, Emit
<1>2. ListsInv' /\ CallbacksInv'
  <2>1. \A g : Accounted(g) => Accounted(g)' BY <1>1 DEF Accounted
  <2>2. QED BY <1>1, <2>1 DEF ListsInv, CallbacksInv
<1>3. CASE Emitted
  <2>1. walk' = NoWalk /\ due' = {} /\ heardIt' = {} /\ removals' = 0 BY <1>3 DEF Emitted
  <2>2. ScriptTypeOK' BY <1>1, <2>1 DEF ScriptTypeOK
  <2>3. CodeInv' BY <1>1, <2>1 DEF CodeInv
  <2>4. WalkInv' BY <2>1 DEF WalkInv
  <2>5. QED BY <1>2, <2>2, <2>3, <2>4
<1>4. ASSUME NEW m \in Target, Emit(m) PROVE ScriptInv'
  <2>1. /\ stage \in {"open", "over"} /\ walk' = [target |-> m, at |-> 1]
        /\ due' = ToSet(handlers[m]) /\ heardIt' = {} /\ removals' = 0
    BY <1>4 DEF Emit
  <2>2. walk'.target = m /\ walk'.at = 1 BY <2>1
  <2>3. ScriptTypeOK'
    <3>1. ToSet(handlers[m]) \subseteq Handler \union {ServerHandler} BY ScriptFacts
    <3>2. QED BY <1>1, <2>1, <3>1 DEF ScriptTypeOK
  <2>4. CodeInv' BY <1>1, <2>1 DEF CodeInv
  <2>5. WalkInv'
    <3>1. Len(handlers'[m]) \in Nat BY <1>1, ScriptFacts
    <3>2. \A i \in 1 .. Len(handlers'[m]) : ~(i < 1) BY <3>1
    <3>3. Passed' = {} BY <2>2, <3>2 DEF Passed
    <3>4. Cardinality(Passed') = 0 BY <3>3, FS_EmptySet
    <3>5. Cardinality(Passed)' <= removals' /\ walk'.at >= 1 BY <2>1, <2>2, <3>4
    <3>6. QED BY <1>1, <2>1, <2>2, <3>5 DEF WalkInv
  <2>6. QED BY <1>2, <2>3, <2>4, <2>5
<1>5. QED BY <1>3, <1>4

(* The loop calls the handler it has reached, which it does not pass. *)
LEMMA CallsStep ==
  ASSUME ScriptInv, Calls
  PROVE  ScriptInv'
<1> USE DEF ScriptInv
<1> DEFINE h == handlers[walk.target][walk.at]
<1>1. /\ walk # NoWalk /\ code = NoCode /\ walk.at <= Len(handlers[walk.target])
      /\ heardIt' = heardIt \union {h}
      /\ IF h = ServerHandler THEN code' = code ELSE code' = [of |-> owner[h], for |-> "handler"]
      /\ walk' = [walk EXCEPT !.at = walk.at + 1]
      /\ UNCHANGED <<stage, scriptNext, contexts, handlers, callbacks, tools, owner, due, removals,
                     broken, lateHandlers>>
  BY DEF Calls, RunsCode
<1>2. /\ walk.target \in Target /\ walk.at \in Nat /\ NoCode.for = "nothing"
      /\ walk.at >= 1 /\ due \subseteq ToSet(handlers[walk.target]) /\ Cardinality(Passed) <= removals
      /\ IsFiniteSet(due) /\ ServerHandler \notin Handler
  BY <1>1, ScriptFacts DEF WalkInv, NoCode
<1>3. /\ DOMAIN handlers[walk.target] = 1 .. Len(handlers[walk.target])
      /\ Len(handlers[walk.target]) \in Nat
      /\ ToSet(handlers[walk.target]) \subseteq Handler \union {ServerHandler}
  BY <1>2, ScriptFacts
<1>4. h \in ToSet(handlers[walk.target])
  <2>1. walk.at \in DOMAIN handlers[walk.target] BY <1>1, <1>2, <1>3
  <2>2. QED BY <2>1 DEF ToSet
<1>5. h # ServerHandler => owner[h] \in Script BY <1>2, <1>4 DEF ListsInv, Accounted
<1>6. stage \in {"open", "over"}
  <2>1. stage \in {"setup", "open", "teardown", "over"} BY DEF ScriptTypeOK
  <2>2. QED BY <1>1, <2>1 DEF CodeInv
<1>7. walk' \in [target : Target, at : Nat] /\ walk'.target = walk.target /\ walk'.at = walk.at + 1
  <2>1. walk \in [target : Target, at : Nat] BY <1>1 DEF ScriptTypeOK
  <2>2. QED BY <1>1, <1>2, <2>1
<1>8. h \in Handler \union {ServerHandler} BY <1>3, <1>4
<1> HIDE DEF h
<1>9. code' = NoCode \/ code' \in [of : Script, for : {"handler"}]
  BY <1>1, <1>5
<1>10. ScriptTypeOK' BY <1>1, <1>7, <1>8, <1>9 DEF ScriptTypeOK
<1>11. CodeInv'
  <2>1. (code'.for = "nothing" /\ code' = NoCode) \/ code'.for = "handler" BY <1>2, <1>9
  <2>2. QED BY <1>1, <1>6, <2>1 DEF CodeInv
<1>12. ListsInv' /\ CallbacksInv'
  <2>1. \A g : Accounted(g) => Accounted(g)' BY <1>1 DEF Accounted
  <2>2. QED BY <1>1, <2>1 DEF ListsInv, CallbacksInv
<1>13. WalkInv'
  <2>1. Passed' \subseteq Passed
    <3> SUFFICES ASSUME NEW g \in Passed' PROVE g \in Passed
      OBVIOUS
    <3>1. g \in due \ heardIt /\ g # h BY <1>1 DEF Passed
    <3>2. PICK i \in 1 .. Len(handlers[walk.target]) : i < walk.at + 1 /\ handlers[walk.target][i] = g
      BY <1>1, <1>7 DEF Passed
    <3>3. i # walk.at BY <3>1, <3>2 DEF h
    <3>4. i < walk.at BY <1>2, <1>3, <3>2, <3>3
    <3>5. QED BY <3>1, <3>2, <3>4 DEF Passed
  <2>2. IsFiniteSet(Passed)
    <3>1. Passed \subseteq due BY DEF Passed
    <3>2. QED BY <1>2, <3>1, FS_Subset
  <2>3. Cardinality(Passed') <= Cardinality(Passed)
        /\ Cardinality(Passed') \in Nat /\ Cardinality(Passed) \in Nat
    BY <2>1, <2>2, FS_Subset, FS_CardinalityType
  <2>4. Cardinality(Passed)' <= removals'
    <3>1. removals \in Nat /\ removals' = removals BY <1>1 DEF ScriptTypeOK
    <3>2. QED BY <1>2, <2>3, <3>1
  <2>5. walk'.at >= 1 BY <1>2, <1>7
  <2>6. QED BY <1>1, <1>2, <1>7, <2>4, <2>5 DEF WalkInv
<1>14. QED BY <1>10, <1>11, <1>12, <1>13

LEMMA ScriptSteps == ScriptInv /\ [ScriptNext]_scriptVars => ScriptInv'
<1> SUFFICES ASSUME ScriptInv, [ScriptNext]_scriptVars PROVE ScriptInv'
  OBVIOUS
<1>1. CASE ScriptOn BY <1>1, ScriptOnStep
<1>2. CASE ScriptOff BY <1>2, ScriptOffStep
<1>3. CASE SetupBegins \/ TopLevelEnds \/ TopLevelRaises \/ SetupEnds BY <1>3, SetupSteps
<1>4. CASE Prepared BY <1>4, PreparedStep
<1>5. CASE Calls BY <1>5, CallsStep
<1>6. CASE Emitted \/ \E m \in Target : Emit(m) BY <1>6, EmitSteps
<1>7. CASE Returns \/ ScriptAddsTool \/ \E s \in Script : ToolRuns(s) BY <1>7, ToolSteps
<1>8. CASE TeardownStarts \/ TeardownBegins \/ TeardownSkips \/ TornDownAll
  BY <1>8, TeardownSteps
<1>9. CASE TeardownEnds BY <1>9, TeardownEndsStep
<1>10. CASE UNCHANGED scriptVars
  <2>1. UNCHANGED <<stage, scriptNext, code, contexts, handlers, callbacks, tools, owner, walk, due,
                    heardIt, removals, broken, lateHandlers>>
    BY <1>10 DEF scriptVars, walkVars
  <2>2. \A g : Accounted(g) => Accounted(g)' BY <2>1 DEF Accounted
  <2>3. ListsInv' /\ CallbacksInv' /\ WalkInv' BY <2>1, <2>2, QuietStep DEF ScriptInv
  <2>4. ScriptTypeOK' /\ CodeInv' BY <2>1 DEF ScriptInv, ScriptTypeOK, CodeInv
  <2>5. QED BY <2>3, <2>4 DEF ScriptInv
<1>11. QED BY <1>1, <1>2, <1>3, <1>4, <1>5, <1>6, <1>7, <1>8, <1>9, <1>10 DEF ScriptNext

LEMMA AlwaysScriptInv == ScriptSpec => []ScriptInv
<1>1. ScriptInit => ScriptInv BY ScriptStarts
<1>2. ScriptInv /\ [ScriptNext]_scriptVars => ScriptInv' BY ScriptSteps
<1>3. QED BY <1>1, <1>2, PTL DEF ScriptSpec

(* Whatever order a script's code registers and removes its handlers in, once
   the scripts are torn down a handler left on a model belongs to one whose top
   level raised or was registered afterwards, for every number of scripts,
   models and handlers (script_manager.py:415, 424-440). *)
THEOREM AlwaysTornDown == ScriptSpec => []ScriptsTornDown
<1>1. ScriptInv => ScriptsTornDown
  <2> SUFFICES ASSUME ScriptInv, stage = "over", NEW m \in Target, NEW h \in ToSet(handlers[m])
               PROVE  h = ServerHandler \/ owner[h] \in broken \/ h \in lateHandlers
    BY DEF ScriptsTornDown, ScriptInv
  <2>1. QED BY DEF ScriptInv, ListsInv, Accounted
<1>2. QED BY <1>1, AlwaysScriptInv, PTL

(* A loop over the handlers of an event misses at most as many of those that
   stayed registered as were removed while it ran (model.py:240-256). *)
THEOREM AlwaysFewSkipped == ScriptSpec => []FewSkipped
<1>1. ScriptInv => FewSkipped
  <2> SUFFICES ASSUME ScriptInv, walk # NoWalk, walk.at > Len(handlers[walk.target])
               PROVE  Cardinality(due \ heardIt) <= removals
    BY DEF FewSkipped
  <2>1. /\ walk.target \in Target /\ walk.at \in Nat /\ Cardinality(Passed) <= removals
        /\ due \subseteq ToSet(handlers[walk.target])
        /\ DOMAIN handlers[walk.target] = 1 .. Len(handlers[walk.target])
        /\ Len(handlers[walk.target]) \in Nat
    BY ScriptFacts DEF ScriptInv, WalkInv
  <2>2. due \ heardIt = Passed
    <3>1. \A g \in due : \E i \in 1 .. Len(handlers[walk.target]) : handlers[walk.target][i] = g
      BY <2>1 DEF ToSet
    <3>2. \A i \in 1 .. Len(handlers[walk.target]) : i < walk.at BY <2>1
    <3>3. QED BY <3>1, <3>2 DEF Passed
  <2>3. QED BY <2>1, <2>2
<1>2. QED BY <1>1, AlwaysScriptInv, PTL

-----------------------------------------------------------------------------
(* CartesiaSpeech                                                          *)

(* Every close that a tag of the utterance u needs is in it or pending in p. *)
Closed(u, p) ==
  \A i \in 1 .. Len(u) : Is(u, i, "open") =>
    \E j \in i + 1 .. Len(u \o p) : Is(u \o p, j, "close")

(* The tokens of t are in their order, but for those of L. *)
Ordered(t, L) == \A i, j \in 1 .. Len(t) : i < j => t[i] < t[j] \/ t[j] \in L

(* All that was sent since the last reset, wherever it is. *)
AllSent == spoken \o (pendingText \o inputQueue)

\* Each frame of audio is of an utterance whose stream was left, or of one that
\* came after the last reset, and after a reset there is none before another.
HeardSound ==
  /\ receiving => spoken # <<>>
  /\ spoken = <<>> => outputQueue = <<>>
  /\ \A k \in 1 .. Len(outputQueue) :
       outputQueue[k] \in leftover \/ \A p \in ToSet(outputQueue[k]) : p > cut

\* What was sent since the last reset is there once, in its order; what was
\* dropped is white space.
SentSound ==
  /\ cut <= Len(sent)
  /\ IsInjective(AllSent) /\ ToSet(AllSent) = (cut + 1) .. Len(sent)
  /\ Ordered(AllSent, swapped)
  /\ lost \subseteq 1 .. Len(sent) /\ \A p \in lost : sent[p] = "gap"

\* What both properties rest on: while audio is received its utterance is whole,
\* with its closes spoken or pending, and came after the last reset.
SpeechInv ==
  /\ SpeechTypeOK
  /\ SentSound
  /\ receiving => /\ Whole(utterance) /\ Closed(utterance, pendingText)
                  /\ ToSet(utterance) \subseteq (cut + 1) .. Len(sent)
  /\ HeardSound

(* The places of two texts in their join. *)
LEMMA JoinedPlaces ==
  ASSUME NEW S, NEW s \in Seq(S), NEW t \in Seq(S)
  PROVE  LET a == Len(s)
             b == Len(t)
             w == s \o t
         IN /\ w \in Seq(S) /\ Len(w) = a + b /\ a \in Nat /\ b \in Nat
            /\ DOMAIN s = 1 .. a /\ DOMAIN t = 1 .. b /\ DOMAIN w = 1 .. a + b
            /\ \A i \in 1 .. a : i \in 1 .. a + b /\ w[i] = s[i]
            /\ \A i \in 1 .. b : i + a \in 1 .. a + b /\ w[i + a] = t[i]
            /\ \A i \in 1 .. a + b : i \in 1 .. a \/ (i - a \in 1 .. b /\ (i - a) + a = i)
<1> DEFINE w == s \o t
           a == Len(s)
           b == Len(t)
<1>1. /\ w \in Seq(S) /\ Len(w) = a + b
      /\ \A i \in 1 .. a + b : w[i] = IF i <= a THEN s[i] ELSE t[i - a]
  BY ConcatProperties
<1>2. a \in Nat /\ b \in Nat /\ DOMAIN s = 1 .. a /\ DOMAIN t = 1 .. b /\ DOMAIN w = 1 .. a + b
  BY <1>1, LenProperties
<1> HIDE DEF w, a, b
<1>3. \A i \in 1 .. a : i \in 1 .. a + b /\ w[i] = s[i] BY <1>1, <1>2
<1>4. \A i \in 1 .. b : i + a \in 1 .. a + b /\ w[i + a] = t[i]
  <2> SUFFICES ASSUME NEW i \in 1 .. b PROVE i + a \in 1 .. a + b /\ w[i + a] = t[i]
    OBVIOUS
  <2>1. i + a \in 1 .. a + b /\ ~(i + a <= a) /\ (i + a) - a = i BY <1>2
  <2>2. QED BY <1>1, <2>1
<1>5. \A i \in 1 .. a + b : i \in 1 .. a \/ (i - a \in 1 .. b /\ (i - a) + a = i) BY <1>2
<1>6. QED BY <1>1, <1>2, <1>3, <1>4, <1>5 DEF w, a, b

(* Joining texts joins what they hold; no token is twice in the whole if it is
   not twice in a part or in two of them. *)
LEMMA JoinedTexts ==
  ASSUME NEW S, NEW s \in Seq(S), NEW t \in Seq(S)
  PROVE  /\ s \o t \in Seq(S)
         /\ ToSet(s \o t) = ToSet(s) \union ToSet(t)
         /\ IsInjective(s \o t) <=>
              IsInjective(s) /\ IsInjective(t) /\ ToSet(s) \intersect ToSet(t) = {}
<1> DEFINE w == s \o t
           a == Len(s)
           b == Len(t)
<1>1. w \in Seq(S) /\ Len(w) = a + b BY JoinedPlaces
<1>2. a \in Nat /\ b \in Nat /\ DOMAIN s = 1 .. a /\ DOMAIN t = 1 .. b /\ DOMAIN w = 1 .. a + b
  BY JoinedPlaces
<1>3. \A i \in 1 .. a : i \in 1 .. a + b /\ w[i] = s[i] BY JoinedPlaces
<1>4. \A i \in 1 .. b : i + a \in 1 .. a + b /\ w[i + a] = t[i] BY JoinedPlaces
<1>5. \A i \in 1 .. a + b : i \in 1 .. a \/ (i - a \in 1 .. b /\ (i - a) + a = i) BY JoinedPlaces
<1> HIDE DEF w, a, b
<1>6. ToSet(w) = ToSet(s) \union ToSet(t)
  <2>1. ASSUME NEW x \in ToSet(w) PROVE x \in ToSet(s) \union ToSet(t)
    <3>1. PICK i \in 1 .. a + b : x = w[i] BY <1>2 DEF ToSet
    <3>2. CASE i \in 1 .. a BY <1>2, <1>3, <3>1, <3>2 DEF ToSet
    <3>3. CASE i - a \in 1 .. b /\ (i - a) + a = i
      <4>1. x = t[i - a] BY <1>4, <3>1, <3>3
      <4>2. QED BY <1>2, <3>3, <4>1 DEF ToSet
    <3>4. QED BY <1>5, <3>2, <3>3
  <2>2. ASSUME NEW x \in ToSet(s) PROVE x \in ToSet(w)
    <3>1. PICK i \in 1 .. a : x = s[i] BY <1>2 DEF ToSet
    <3>2. QED BY <1>2, <1>3, <3>1 DEF ToSet
  <2>3. ASSUME NEW x \in ToSet(t) PROVE x \in ToSet(w)
    <3>1. PICK i \in 1 .. b : x = t[i] BY <1>2 DEF ToSet
    <3>2. QED BY <1>2, <1>4, <3>1 DEF ToSet
  <2>4. QED BY <2>1, <2>2, <2>3
<1>7. ASSUME IsInjective(w)
      PROVE  IsInjective(s) /\ IsInjective(t) /\ ToSet(s) \intersect ToSet(t) = {}
  <2>1. \A i, j \in 1 .. a + b : w[i] = w[j] => i = j BY <1>2, <1>7 DEF IsInjective
  <2>2. IsInjective(s) BY <1>2, <1>3, <2>1 DEF IsInjective
  <2>3. ASSUME NEW i \in 1 .. b, NEW j \in 1 .. b, t[i] = t[j] PROVE i = j
    <3>1. i + a = j + a BY <1>4, <2>1, <2>3
    <3>2. QED BY <1>2, <3>1
  <2>4. ASSUME NEW x \in ToSet(s), x \in ToSet(t) PROVE FALSE
    <3>1. PICK i \in 1 .. a : x = s[i] BY <1>2 DEF ToSet
    <3>2. PICK j \in 1 .. b : x = t[j] BY <1>2, <2>4 DEF ToSet
    <3>3. i = j + a BY <1>3, <1>4, <2>1, <3>1, <3>2
    <3>4. QED BY <1>2, <3>3
  <2>5. QED BY <1>2, <2>2, <2>3, <2>4 DEF IsInjective
<1>8. ASSUME IsInjective(s), IsInjective(t), ToSet(s) \intersect ToSet(t) = {}
      PROVE  IsInjective(w)
  <2>1. \A i, j \in 1 .. a : s[i] = s[j] => i = j BY <1>2, <1>8 DEF IsInjective
  <2>2. \A i, j \in 1 .. b : t[i] = t[j] => i = j BY <1>2, <1>8 DEF IsInjective
  <2>3. \A i \in 1 .. a, j \in 1 .. b : s[i] # t[j]
    <3> SUFFICES ASSUME NEW i \in 1 .. a, NEW j \in 1 .. b, s[i] = t[j] PROVE FALSE
      OBVIOUS
    <3>1. s[i] \in ToSet(s) /\ t[j] \in ToSet(t) BY <1>2 DEF ToSet
    <3>2. QED BY <1>8, <3>1
  <2>4. ASSUME NEW i \in 1 .. a + b, NEW j \in 1 .. a + b, w[i] = w[j] PROVE i = j
    <3>1. CASE i \in 1 .. a /\ j \in 1 .. a BY <1>3, <2>1, <2>4, <3>1
    <3>2. CASE i \in 1 .. a /\ j - a \in 1 .. b /\ (j - a) + a = j
      <4>1. w[i] = s[i] /\ w[j] = t[j - a] BY <1>3, <1>4, <3>2
      <4>2. QED BY <2>3, <2>4, <3>2, <4>1
    <3>3. CASE j \in 1 .. a /\ i - a \in 1 .. b /\ (i - a) + a = i
      <4>1. w[j] = s[j] /\ w[i] = t[i - a] BY <1>3, <1>4, <3>3
      <4>2. QED BY <2>3, <2>4, <3>3, <4>1
    <3>4. CASE i - a \in 1 .. b /\ (i - a) + a = i /\ j - a \in 1 .. b /\ (j - a) + a = j
      <4>1. w[i] = t[i - a] /\ w[j] = t[j - a] BY <1>4, <3>4
      <4>2. i - a = j - a BY <2>2, <2>4, <3>4, <4>1
      <4>3. QED BY <3>4, <4>2
    <3>5. QED BY <1>5, <3>1, <3>2, <3>3, <3>4
  <2>5. QED BY <1>2, <2>4 DEF IsInjective
<1>9. QED BY <1>1, <1>6, <1>7, <1>8 DEF w

(* Two texts in order, one behind the other, are in order together. *)
LEMMA JoinedOrder ==
  ASSUME NEW S, NEW s \in Seq(S), NEW t \in Seq(S), NEW L
  PROVE  Ordered(s \o t, L) <=>
           /\ Ordered(s, L) /\ Ordered(t, L)
           /\ \A p \in ToSet(s), q \in ToSet(t) : p < q \/ q \in L
<1> DEFINE w == s \o t
           a == Len(s)
           b == Len(t)
           Before(p, q) == p < q \/ q \in L
<1>1. w \in Seq(S) /\ Len(w) = a + b BY JoinedPlaces
<1>2. a \in Nat /\ b \in Nat /\ DOMAIN s = 1 .. a /\ DOMAIN t = 1 .. b /\ DOMAIN w = 1 .. a + b
  BY JoinedPlaces
<1>3. \A i \in 1 .. a : i \in 1 .. a + b /\ w[i] = s[i] BY JoinedPlaces
<1>4. \A i \in 1 .. b : i + a \in 1 .. a + b /\ w[i + a] = t[i] BY JoinedPlaces
<1>5. \A i \in 1 .. a + b : i \in 1 .. a \/ (i - a \in 1 .. b /\ (i - a) + a = i) BY JoinedPlaces
<1>6. /\ Ordered(w, L) <=> \A i, j \in 1 .. a + b : i < j => Before(w[i], w[j])
      /\ Ordered(s, L) <=> \A i, j \in 1 .. a : i < j => Before(s[i], s[j])
      /\ Ordered(t, L) <=> \A i, j \in 1 .. b : i < j => Before(t[i], t[j])
  BY <1>1 DEF Ordered
<1> HIDE DEF w, a, b, Before
<1>7. ASSUME Ordered(w, L)
      PROVE  Ordered(s, L) /\ Ordered(t, L) /\ \A p \in ToSet(s), q \in ToSet(t) : Before(p, q)
  <2>1. \A i, j \in 1 .. a + b : i < j => Before(w[i], w[j]) BY <1>6, <1>7
  <2>2. Ordered(s, L) BY <1>3, <1>6, <2>1
  <2>3. ASSUME NEW i \in 1 .. b, NEW j \in 1 .. b, i < j PROVE Before(t[i], t[j])
    <3>1. i + a < j + a BY <1>2, <2>3
    <3>2. QED BY <1>4, <2>1, <3>1
  <2>4. ASSUME NEW p \in ToSet(s), NEW q \in ToSet(t) PROVE Before(p, q)
    <3>1. PICK i \in 1 .. a : p = s[i] BY <1>2 DEF ToSet
    <3>2. PICK j \in 1 .. b : q = t[j] BY <1>2 DEF ToSet
    <3>3. i < j + a BY <1>2
    <3>4. QED BY <1>3, <1>4, <2>1, <3>1, <3>2, <3>3
  <2>5. QED BY <1>6, <2>2, <2>3, <2>4
<1>8. ASSUME Ordered(s, L), Ordered(t, L), \A p \in ToSet(s), q \in ToSet(t) : Before(p, q)
      PROVE  Ordered(w, L)
  <2>1. ASSUME NEW i \in 1 .. a + b, NEW j \in 1 .. a + b, i < j PROVE Before(w[i], w[j])
    <3>1. CASE i \in 1 .. a /\ j \in 1 .. a BY <1>3, <1>6, <1>8, <2>1, <3>1
    <3>2. CASE i \in 1 .. a /\ j - a \in 1 .. b /\ (j - a) + a = j
      <4>1. w[i] = s[i] /\ w[j] = t[j - a] BY <1>3, <1>4, <3>2
      <4>2. s[i] \in ToSet(s) /\ t[j - a] \in ToSet(t) BY <1>2, <3>2 DEF ToSet
      <4>3. QED BY <1>8, <4>1, <4>2
    <3>3. CASE i - a \in 1 .. b /\ (i - a) + a = i /\ j - a \in 1 .. b /\ (j - a) + a = j
      <4>1. w[i] = t[i - a] /\ w[j] = t[j - a] /\ i - a < j - a BY <1>2, <1>4, <2>1, <3>3
      <4>2. QED BY <1>6, <1>8, <3>3, <4>1
    <3>4. ~(j \in 1 .. a /\ i - a \in 1 .. b) BY <1>2, <2>1
    <3>5. QED BY <1>5, <3>1, <3>2, <3>3, <3>4
  <2>2. QED BY <1>6, <2>1
<1>9. QED BY <1>7, <1>8 DEF w, Before

(* A text is what is before a place in it and what is behind. *)
LEMMA CutText ==
  ASSUME NEW S, NEW s \in Seq(S), NEW n \in 0 .. Len(s)
  PROVE  LET x == SubSeq(s, 1, n)
             y == SubSeq(s, n + 1, Len(s))
         IN /\ x \in Seq(S) /\ Len(x) = n /\ \A i \in 1 .. n : x[i] = s[i]
            /\ y \in Seq(S) /\ Len(y) = Len(s) - n
            /\ \A i \in 1 .. Len(s) - n : y[i] = s[i + n]
            /\ s = x \o y
<1> DEFINE x == SubSeq(s, 1, n)
           y == SubSeq(s, n + 1, Len(s))
<1>1. Len(s) \in Nat /\ n \in Nat /\ n <= Len(s) BY LenProperties
<1>2. \A i \in 1 .. Len(s) : s[i] \in S OBVIOUS
<1>3. x \in Seq(S) /\ Len(x) = n /\ \A i \in 1 .. n : x[i] = s[i]
  <2>1. /\ x \in Seq(S) /\ Len(x) = (IF 1 <= n THEN n - 1 + 1 ELSE 0)
        /\ \A i \in 1 .. n - 1 + 1 : x[i] = s[1 + i - 1]
    BY <1>1, <1>2, SubSeqProperties
  <2> HIDE DEF x
  <2>2. QED BY <1>1, <2>1
<1>4. /\ y \in Seq(S) /\ Len(y) = Len(s) - n
      /\ \A i \in 1 .. Len(s) - n : y[i] = s[i + n]
  <2>1. /\ y \in Seq(S) /\ Len(y) = (IF n + 1 <= Len(s) THEN Len(s) - (n + 1) + 1 ELSE 0)
        /\ \A i \in 1 .. Len(s) - (n + 1) + 1 : y[i] = s[(n + 1) + i - 1]
    <3>1. \A i \in n + 1 .. Len(s) : s[i] \in S BY <1>1, <1>2
    <3>2. n + 1 \in Int /\ Len(s) \in Int BY <1>1
    <3>3. QED BY <3>1, <3>2, SubSeqProperties
  <2> HIDE DEF y
  <2>2. QED BY <1>1, <2>1
<1> HIDE DEF x, y
<1>5. s = x \o y
  <2>1. /\ x \o y \in Seq(S) /\ Len(x \o y) = Len(s)
        /\ \A i \in 1 .. Len(s) : (x \o y)[i] = IF i <= n THEN x[i] ELSE y[i - n]
    <3>1. n + (Len(s) - n) = Len(s) BY <1>1
    <3>2. QED BY <1>3, <1>4, <3>1, ConcatProperties
  <2>2. ASSUME NEW i \in 1 .. Len(s) PROVE (x \o y)[i] = s[i]
    <3>1. CASE i <= n BY <1>1, <1>3, <2>1, <3>1
    <3>2. CASE ~(i <= n)
      <4>1. i - n \in 1 .. Len(s) - n /\ (i - n) + n = i BY <1>1, <3>2
      <4>2. y[i - n] = s[i] BY <1>4, <4>1
      <4>3. QED BY <2>1, <3>2, <4>2
    <3>3. QED BY <3>1, <3>2
  <2>3. QED BY <2>1, <2>2, SeqEqual
<1>6. QED BY <1>3, <1>4, <1>5 DEF x, y

LEMMA GreatestNumber ==
  ASSUME NEW n \in Nat, NEW T \in SUBSET (0 .. n), T # {}
  PROVE  Max(T) \in T /\ \A y \in T : y <= Max(T)
<1> DEFINE U == {m \in Nat : \A y \in T : y <= m}
<1>1. n \in U OBVIOUS
<1>2. PICK m \in U : \A k \in U : m <= k BY <1>1, LeastNumber
<1>3. m \in T
  <2> SUFFICES ASSUME m \notin T PROVE FALSE
    OBVIOUS
  <2>1. \A y \in T : y \in Nat /\ y < m BY <1>2
  <2>2. m \in Nat /\ m # 0
    <3>1. PICK y \in T : TRUE OBVIOUS
    <3>2. y \in Nat /\ y < m BY <2>1
    <3>3. QED BY <1>2, <3>2
  <2>3. m - 1 \in Nat /\ \A y \in T : y <= m - 1 BY <2>1, <2>2
  <2>4. m <= m - 1 BY <1>2, <2>3
  <2>5. QED BY <2>2, <2>4
<1>4. \A y \in T : y \in Nat /\ m >= y BY <1>2
<1>5. \E x \in T : \A y \in T : x >= y BY <1>3, <1>4
<1>6. Max(T) \in T /\ \A y \in T : Max(T) >= y BY <1>5 DEF Max
<1>7. QED BY <1>4, <1>6

(* Behind what can be spoken the first tag is open, or the text ends. *)
LEMMA SpeakableProperties ==
  ASSUME NEW text \in Seq(Nat)
  PROVE  /\ Speakable(text) \in 0 .. Len(text)
         /\ \A i \in 1 .. Speakable(text) : Is(text, i, "open") =>
              \E j \in i + 1 .. Speakable(text) : Is(text, j, "close")
<1> DEFINE m == Len(text)
           unclosed == {i \in DOMAIN text : /\ Is(text, i, "open")
                                            /\ \A j \in i + 1 .. Len(text) : ~Is(text, j, "close")}
           n == Speakable(text)
<1>1. m \in Nat /\ DOMAIN text = 1 .. m BY LenProperties
<1>2. n = IF unclosed = {} THEN m ELSE Min(unclosed) - 1 BY DEF Speakable
<1>3. \A i \in 1 .. m : i \in unclosed <=>
        Is(text, i, "open") /\ \A j \in i + 1 .. m : ~Is(text, j, "close")
  BY <1>1
<1>4. unclosed \subseteq 1 .. m BY <1>1
<1> HIDE DEF unclosed, n, m
<1>5. CASE unclosed = {}
  <2>1. n = m BY <1>2, <1>5
  <2>2. n \in 0 .. m BY <1>1, <2>1
  <2>3. QED BY <1>3, <1>5, <2>1, <2>2 DEF n, m
<1>6. CASE unclosed # {}
  <2> DEFINE k == Min(unclosed)
  <2>1. unclosed \subseteq Nat BY <1>4
  <2>2. \E x \in unclosed : \A y \in unclosed : x <= y BY <1>6, <2>1, LeastNumber
  <2>3. k \in unclosed /\ \A y \in unclosed : k <= y BY <2>2 DEF Min
  <2> HIDE DEF k
  <2>4. k \in 1 .. m /\ n = k - 1 BY <1>2, <1>4, <1>6, <2>3 DEF k
  <2>5. n \in 0 .. m BY <1>1, <2>4
  <2>6. ASSUME NEW i \in 1 .. n, Is(text, i, "open")
        PROVE  \E j \in i + 1 .. n : Is(text, j, "close")
    <3>1. i \in 1 .. m /\ i < k BY <1>1, <2>4
    <3>2. i \notin unclosed BY <2>3, <2>4, <3>1
    <3>3. PICK j \in i + 1 .. m : Is(text, j, "close") BY <1>3, <2>6, <3>1, <3>2
    <3>4. j # k BY <1>3, <2>3, <2>4, <3>3 DEF Is
    <3>5. ~(j > k)
      <4> SUFFICES ASSUME j > k PROVE FALSE
        OBVIOUS
      <4>1. j \in k + 1 .. m BY <2>4, <3>1, <3>3
      <4>2. QED BY <1>3, <2>3, <2>4, <3>3, <4>1
    <3>6. j \in i + 1 .. n BY <1>1, <2>4, <3>1, <3>4, <3>5
    <3>7. QED BY <3>3, <3>6
  <2>7. QED BY <2>5, <2>6 DEF n, m
<1>7. QED BY <1>5, <1>6

(* What Stripped drops of a text is white space, and what it leaves ends in a
   token that is none. *)
LEMMA StrippedProperties ==
  ASSUME NEW text, NEW n \in Nat, DOMAIN text = 1 .. n
  PROVE  /\ Stripped(text) \in 0 .. n
         /\ \A i \in Stripped(text) + 1 .. n : Is(text, i, "gap")
         /\ \A j \in 1 .. n : ~Is(text, j, "gap") /\ (\A i \in j + 1 .. n : Is(text, i, "gap"))
                                => Stripped(text) = j
<1> DEFINE T == {0} \union {i \in DOMAIN text : ~Is(text, i, "gap")}
           k == Stripped(text)
<1>1. k = Max(T) BY DEF Stripped
<1>2. T \in SUBSET (0 .. n) /\ T # {} OBVIOUS
<1>3. \A i \in 1 .. n : i \in T <=> ~Is(text, i, "gap") OBVIOUS
<1> HIDE DEF T, k
<1>4. k \in T /\ \A y \in T : y <= k BY <1>1, <1>2, GreatestNumber
<1>5. k \in 0 .. n BY <1>2, <1>4
<1>6. ASSUME NEW i \in k + 1 .. n PROVE Is(text, i, "gap")
  <2>1. i \in 1 .. n /\ ~(i <= k) BY <1>5
  <2>2. QED BY <1>3, <1>4, <2>1
<1>7. ASSUME NEW j \in 1 .. n, ~Is(text, j, "gap"), \A i \in j + 1 .. n : Is(text, i, "gap")
      PROVE  k = j
  <2>1. j \in T /\ j <= k BY <1>3, <1>4, <1>7
  <2>2. ~(k > j)
    <3> SUFFICES ASSUME k > j PROVE FALSE
      OBVIOUS
    <3>1. k \in j + 1 .. n /\ k \in 1 .. n BY <1>5
    <3>2. QED BY <1>3, <1>4, <1>7, <3>1
  <2>3. QED BY <1>5, <2>1, <2>2
<1>8. QED BY <1>5, <1>6, <1>7 DEF k

(* Cutting a text into what is spoken and what is not loses and doubles nothing
   but white space and puts nothing out of order but the sentence that is swapped;
   what is spoken ends a sentence or a tag and has its closes. *)
LEMMA TextCut ==
  ASSUME NEW S, S \subseteq Nat, NEW text \in Seq(S),
         NEW whole \in Aggregates(Parse(text)[1], Parse(text)[2])
  PROVE  /\ whole.text \in Seq(S) /\ whole.rest \in Seq(S)
         /\ ToSet(whole.text) \union ToSet(whole.rest) = ToSet(text)
         /\ IsInjective(text) =>
              /\ IsInjective(whole.text) /\ IsInjective(whole.rest)
              /\ ToSet(whole.text) \intersect ToSet(whole.rest) = {}
         /\ whole.lost \subseteq ToSet(text) /\ \A p \in whole.lost : sent[p] = "gap"
         /\ whole.swapped \subseteq ToSet(text)
         /\ Whole(whole.text)
         /\ Closed(whole.text, whole.rest)
         /\ \A L : Ordered(text, L) => Ordered(whole.text \o whole.rest, L \union whole.swapped)
<1> DEFINE m == Len(text)
           n == Speakable(text)
           s == SubSeq(text, 1, n)
           r == SubSeq(text, n + 1, m)
<1>1. text \in Seq(Nat) /\ m \in Nat
  <2>1. \A i \in 1 .. m : text[i] \in Nat BY ElementOfSeq
  <2>2. QED BY <2>1, LenProperties
<1>2. /\ n \in 0 .. m
      /\ \A i \in 1 .. n : Is(text, i, "open") =>
           \E j \in i + 1 .. n : Is(text, j, "close")
  BY <1>1, SpeakableProperties
<1>3. whole \in Aggregates(s, r) BY DEF Parse
<1> HIDE DEF n
<1>4. /\ s \in Seq(S) /\ Len(s) = n /\ \A i \in 1 .. n : s[i] = text[i]
      /\ r \in Seq(S) /\ text = s \o r
  BY <1>2, CutText
<1> HIDE DEF s, r, m
<1>5. /\ ToSet(text) = ToSet(s) \union ToSet(r)
      /\ IsInjective(text) => IsInjective(s) /\ IsInjective(r) /\ ToSet(s) \intersect ToSet(r) = {}
  BY <1>4, JoinedTexts
<1>6. \A i \in 1 .. n : Is(s, i, "open") => \E j \in i + 1 .. n : Is(s, j, "close")
  <2> SUFFICES ASSUME NEW i \in 1 .. n, Is(s, i, "open")
               PROVE  \E j \in i + 1 .. n : Is(s, j, "close")
    OBVIOUS
  <2>1. Is(text, i, "open") BY <1>4 DEF Is
  <2>2. PICK j \in i + 1 .. n : Is(text, j, "close") BY <1>2, <2>1
  <2>3. j \in 1 .. n BY <1>1, <1>2
  <2>4. QED BY <1>4, <2>2, <2>3 DEF Is
<1> DEFINE Goal(u, p, gone, behind) ==
      /\ u \in Seq(S) /\ p \in Seq(S)
      /\ ToSet(u) \union ToSet(p) = ToSet(text)
      /\ IsInjective(text) => IsInjective(u) /\ IsInjective(p) /\ ToSet(u) \intersect ToSet(p) = {}
      /\ gone \subseteq ToSet(text) /\ \A q \in gone : sent[q] = "gap"
      /\ behind \subseteq ToSet(text)
      /\ Whole(u)
      /\ Closed(u, p)
      /\ \A L : Ordered(text, L) => Ordered(u \o p, L \union behind)
<1>7. CASE Whole(s)
  <2>1. whole = [text |-> s, rest |-> r, lost |-> {}, swapped |-> {}] BY <1>3, <1>7 DEF Aggregates
  <2>2. Closed(s, r)
    <3> SUFFICES ASSUME NEW i \in 1 .. n, Is(s, i, "open")
                 PROVE  \E j \in i + 1 .. Len(s \o r) : Is(s \o r, j, "close")
      BY <1>4 DEF Closed
    <3>1. PICK j \in i + 1 .. n : Is(s, j, "close") BY <1>6
    <3>2. Len(r) \in Nat /\ j \in 1 .. n BY <1>2, <1>1, <1>4, LenProperties
    <3>3. j \in 1 .. n + Len(r) /\ j <= n /\ Len(s \o r) = n + Len(r) /\ (s \o r)[j] = s[j]
      <4>1. j \in 1 .. n + Len(r) /\ j <= n BY <1>1, <1>2, <3>2
      <4>2. QED BY <1>4, <4>1, ConcatProperties
    <3>4. j \in i + 1 .. n + Len(r) BY <1>1, <1>2, <3>2, <3>3
    <3>5. QED BY <3>1, <3>3, <3>4 DEF Is
  <2>3. \A L : L \union {} = L OBVIOUS
  <2>4. Goal(s, r, {}, {}) BY <1>4, <1>5, <1>7, <2>2, <2>3
  <2>5. /\ whole.text = s /\ whole.rest = r /\ whole.lost = {} /\ whole.swapped = {} BY <2>1
  <2>6. QED BY <2>4, <2>5
<1>8. CASE ~Whole(s)
  <2>1. PICK begins \in SUBSET Begins(s) :
          LET k == Max({1} \union begins) - 1
              y == SubSeq(s, k + 1, Len(s))
              gaps == (Stripped(s) + 1 .. Len(s)) \union UNION {GapBefore(s, i) : i \in begins}
          IN whole = [text |-> SubSeq(s, 1, k), rest |-> r \o y, lost |-> {s[i] : i \in gaps},
                      swapped |-> IF r = <<>> THEN {} ELSE ToSet(y)]
    BY <1>3, <1>8, Zenon DEF Aggregates
  <2> DEFINE b == Max({1} \union begins)
             k == b - 1
             x == SubSeq(s, 1, k)
             y == SubSeq(s, k + 1, Len(s))
             p == r \o y
             gaps == (Stripped(s) + 1 .. Len(s)) \union UNION {GapBefore(s, i) : i \in begins}
             gone == {s[i] : i \in gaps}
             behind == IF r = <<>> THEN {} ELSE ToSet(y)
  <2>2. whole.text = x /\ whole.rest = p /\ whole.lost = gone /\ whole.swapped = behind BY <2>1
  <2>3. n \in Nat /\ DOMAIN s = 1 .. n BY <1>1, <1>2, <1>4, LenProperties
  <2>4. n # 0
    <3> SUFFICES ASSUME n = 0 PROVE FALSE
      OBVIOUS
    <3>1. DOMAIN s = 1 .. 0 BY <2>3
    <3>2. Stripped(s) \in 0 .. 0 BY <3>1, StrippedProperties
    <3>3. QED BY <1>8, <3>2 DEF Whole
  <2>5. \A i \in begins : i \in 1 .. n /\ \E j \in 1 .. i - 1 :
          Is(s, j, "end") /\ \A h \in j + 1 .. i - 1 : Is(s, h, "gap")
    <3> SUFFICES ASSUME NEW i \in begins
                 PROVE  i \in 1 .. n /\ \E j \in 1 .. i - 1 :
                          Is(s, j, "end") /\ \A h \in j + 1 .. i - 1 : Is(s, h, "gap")
      OBVIOUS
    <3>1. i \in Begins(s) OBVIOUS
    <3>2. i \in 1 .. n BY <2>3, <3>1 DEF Begins
    <3>3. PICK j \in 1 .. i - 1 : Is(s, j, "end") /\ j + 1 .. i - 1 \subseteq GapBefore(s, i)
      BY <3>1 DEF Begins
    <3>4. ASSUME NEW h \in j + 1 .. i - 1 PROVE Is(s, h, "gap")
      <4>1. h \in GapBefore(s, i) BY <3>3
      <4>2. h \in h .. i - 1 BY <3>2
      <4>3. QED BY <4>1, <4>2 DEF GapBefore
    <3>5. QED BY <3>2, <3>3, <3>4
  <2>6. b \in {1} \union begins
    <3>1. {1} \union begins \in SUBSET (0 .. n) /\ {1} \union begins # {} BY <2>3, <2>4, <2>5
    <3>2. QED BY <2>3, <3>1, GreatestNumber
  <2> HIDE DEF b
  <2>7. k \in 0 .. n /\ b = k + 1 BY <2>3, <2>4, <2>5, <2>6
  <2> HIDE DEF k
  <2>8. /\ x \in Seq(S) /\ Len(x) = k /\ \A i \in 1 .. k : x[i] = s[i]
        /\ y \in Seq(S) /\ Len(y) = n - k /\ \A i \in 1 .. n - k : y[i] = s[i + k]
        /\ s = x \o y
    BY <1>4, <2>7, CutText
  <2> HIDE DEF x, y
  <2>9. /\ ToSet(s) = ToSet(x) \union ToSet(y)
        /\ IsInjective(s) => IsInjective(x) /\ IsInjective(y) /\ ToSet(x) \intersect ToSet(y) = {}
    BY <2>8, JoinedTexts
  <2>10. /\ p \in Seq(S) /\ ToSet(p) = ToSet(r) \union ToSet(y)
         /\ IsInjective(p) <=>
              IsInjective(r) /\ IsInjective(y) /\ ToSet(r) \intersect ToSet(y) = {}
    BY <1>4, <2>8, JoinedTexts
  <2>11. Whole(x)
    <3>1. DOMAIN x = 1 .. k /\ k \in Nat BY <2>7, <2>8, LenProperties
    <3>2. CASE b \notin begins
      <4>1. k = 0 BY <2>6, <2>7, <3>1, <3>2
      <4>2. Stripped(x) \in 0 .. 0 BY <3>1, <4>1, StrippedProperties
      <4>3. QED BY <4>2 DEF Whole
    <3>3. CASE b \in begins
      <4>1. PICK j \in 1 .. b - 1 : Is(s, j, "end") /\ \A h \in j + 1 .. b - 1 : Is(s, h, "gap")
        BY <2>5, <3>3
      <4>2. j \in 1 .. k /\ b - 1 = k BY <2>7, <3>1
      <4>3. \A h \in j + 1 .. k : Is(x, h, "gap")
        <5> SUFFICES ASSUME NEW h \in j + 1 .. k PROVE Is(x, h, "gap")
          OBVIOUS
        <5>1. h \in 1 .. k BY <3>1, <4>2
        <5>2. QED BY <2>8, <4>1, <4>2, <5>1 DEF Is
      <4>4. Is(x, j, "end") BY <2>8, <4>1, <4>2 DEF Is
      <4>5. Stripped(x) = j BY <3>1, <4>2, <4>3, <4>4, StrippedProperties DEF Is
      <4>6. QED BY <4>4, <4>5 DEF Whole, Is
    <3>4. QED BY <3>2, <3>3
  <2>12. Closed(x, p)
    <3> SUFFICES ASSUME NEW i \in 1 .. k, Is(x, i, "open")
                 PROVE  \E j \in i + 1 .. Len(x \o p) : Is(x \o p, j, "close")
      BY <2>8 DEF Closed
    <3>1. i \in 1 .. n /\ Is(s, i, "open") BY <2>3, <2>7, <2>8 DEF Is
    <3>2. PICK j \in i + 1 .. n : Is(s, j, "close") BY <1>6, <3>1
    <3> DEFINE a == Len(r)
    <3>3. /\ a \in Nat /\ Len(p) = a + (n - k)
          /\ \A h \in 1 .. n - k : p[a + h] = y[h] /\ a + h \in 1 .. Len(p)
      <4>1. a \in Nat /\ n - k \in Nat BY <1>4, <2>3, <2>7, LenProperties
      <4>2. /\ Len(p) = a + (n - k)
            /\ \A h \in 1 .. a + (n - k) : p[h] = IF h <= a THEN r[h] ELSE y[h - a]
        <5>1. r \in Seq(S) /\ y \in Seq(S) BY <1>4, <2>8
        <5>2. /\ Len(p) = a + Len(y)
              /\ \A h \in 1 .. a + Len(y) : p[h] = IF h <= a THEN r[h] ELSE y[h - a]
          BY ONLY <5>1, ConcatProperties
        <5> HIDE DEF a, p
        <5>3. QED BY <2>8, <5>2
      <4> HIDE DEF a, p
      <4>3. ASSUME NEW h \in 1 .. n - k PROVE p[a + h] = y[h] /\ a + h \in 1 .. Len(p)
        <5>1. a + h \in 1 .. a + (n - k) /\ ~(a + h <= a) /\ (a + h) - a = h BY <4>1
        <5>2. QED BY <4>2, <5>1
      <4>4. QED BY <4>1, <4>2, <4>3
    <3> HIDE DEF a, p
    <3>4. /\ Len(x \o p) = k + Len(p)
          /\ \A h \in 1 .. k + Len(p) : (x \o p)[h] = IF h <= k THEN x[h] ELSE p[h - k]
      <4>1. /\ Len(x \o p) = Len(x) + Len(p)
            /\ \A h \in 1 .. Len(x) + Len(p) : (x \o p)[h] = IF h <= Len(x) THEN x[h] ELSE p[h - Len(x)]
        <5>1. x \in Seq(S) /\ p \in Seq(S) BY <2>8, <2>10
        <5>2. QED BY ONLY <5>1, ConcatProperties
      <4>2. QED BY <2>8, <4>1
    <3> DEFINE z == x \o p
    <3> HIDE DEF z
    <3>5. k \in Nat /\ n - k \in Nat /\ Len(p) \in Nat BY <2>3, <2>7, <3>3
    <3>6. CASE j <= k
      <4>1. j \in 1 .. k /\ j \in 1 .. k + Len(p) /\ j \in i + 1 .. k + Len(p) BY <3>5, <3>6
      <4>2. z[j] = s[j] BY <2>8, <3>4, <3>6, <4>1 DEF z
      <4>3. Is(z, j, "close") BY <3>2, <4>2 DEF Is
      <4>4. QED BY <3>4, <4>1, <4>3 DEF z
    <3>7. CASE ~(j <= k)
      <4> DEFINE h == j - k
                 g == k + (a + h)
      <4>1. h \in 1 .. n - k /\ h + k = j BY <2>3, <3>5, <3>7
      <4>2. p[a + h] = s[j] /\ a + h \in 1 .. Len(p) BY <2>8, <3>3, <4>1
      <4>3. g \in 1 .. k + Len(p) /\ ~(g <= k) /\ g - k = a + h /\ g \in i + 1 .. k + Len(p)
        BY <3>3, <3>5, <4>1, <4>2
      <4> HIDE DEF g, h
      <4>4. z[g] = s[j] BY <3>4, <4>2, <4>3 DEF z
      <4>5. Is(z, g, "close") BY <3>2, <4>4 DEF Is
      <4>6. QED BY <3>4, <4>3, <4>5 DEF z
    <3>8. QED BY <3>6, <3>7
  <2>13. gone \subseteq ToSet(text) /\ \A q \in gone : sent[q] = "gap"
    <3>1. ASSUME NEW i \in gaps PROVE i \in 1 .. n /\ Is(s, i, "gap")
      <4>1. CASE i \in Stripped(s) + 1 .. Len(s)
        <5>1. Stripped(s) \in 0 .. n BY <2>3, StrippedProperties
        <5>2. i \in 1 .. n BY <1>4, <4>1, <5>1
        <5>3. QED BY <1>4, <2>3, <4>1, <5>2, StrippedProperties
      <4>2. CASE \E h \in begins : i \in GapBefore(s, h)
        <5>1. PICK h \in begins : i \in GapBefore(s, h) BY <4>2
        <5>2. h \in 1 .. n /\ i \in 1 .. h - 1 BY <2>5, <5>1 DEF GapBefore
        <5>3. i \in 1 .. n /\ i \in i .. h - 1 BY <2>3, <5>2
        <5>4. QED BY <5>1, <5>3 DEF GapBefore
      <4>3. QED BY <4>1, <4>2
    <3> HIDE DEF gaps
    <3>2. ASSUME NEW q \in gone PROVE q \in ToSet(text) /\ sent[q] = "gap"
      <4>1. PICK i \in gaps : q = s[i] OBVIOUS
      <4>2. q \in ToSet(s) BY <2>3, <3>1, <4>1 DEF ToSet
      <4>3. QED BY <1>5, <3>1, <4>1, <4>2 DEF Is
    <3>3. QED BY <3>2
  <2> HIDE DEF gone, gaps
  <2>14. behind \subseteq ToSet(text)
         /\ \A L : Ordered(text, L) => Ordered(x \o p, L \union behind)
    <3>1. behind \subseteq ToSet(text) BY <1>5, <2>9
    <3>2. ASSUME NEW L, Ordered(text, L) PROVE Ordered(x \o p, L \union behind)
      <4> DEFINE M == L \union behind
      <4>1. /\ Ordered(s, L) /\ Ordered(r, L)
            /\ \A a \in ToSet(s), c \in ToSet(r) : a < c \/ c \in L
        BY <1>4, <3>2, JoinedOrder
      <4>2. /\ Ordered(x, L) /\ Ordered(y, L)
            /\ \A a \in ToSet(x), c \in ToSet(y) : a < c \/ c \in L
        BY <2>8, <4>1, JoinedOrder
      <4>3. \A c \in L : c \in M OBVIOUS
      <4>4. r # <<>> => \A c \in ToSet(y) : c \in M OBVIOUS
      <4>5. r = <<>> => ToSet(r) = {} BY DEF ToSet
      <4> HIDE DEF M, behind
      <4>6. Ordered(x, M) /\ Ordered(r, M) /\ Ordered(y, M) BY <4>1, <4>2, <4>3 DEF Ordered
      <4>7. Ordered(p, M)
        <5>1. \A a \in ToSet(r), c \in ToSet(y) : a < c \/ c \in M BY <4>4, <4>5
        <5>2. QED BY <1>4, <2>8, <4>6, <5>1, JoinedOrder
      <4>8. \A a \in ToSet(x), c \in ToSet(p) : a < c \/ c \in M BY <2>9, <2>10, <4>1, <4>2, <4>3
      <4>9. Ordered(x \o p, M) BY <2>8, <2>10, <4>6, <4>7, <4>8, JoinedOrder
      <4>10. QED BY <4>9 DEF M
    <3>3. QED BY <3>1, <3>2
  <2> HIDE DEF p, behind
  <2>15. Goal(x, p, gone, behind) BY <1>5, <2>8, <2>9, <2>10, <2>11, <2>12, <2>13, <2>14
  <2>16. QED BY <2>2, <2>15
<1>9. QED BY <1>7, <1>8

LEMMA SpeechInitial == SpeechInit => SpeechInv
<1> SUFFICES ASSUME SpeechInit PROVE SpeechInv
  OBVIOUS
<1>1. \A S : <<>> \in Seq(S) /\ Len(<<>>) = 0 BY EmptySeq
<1>2. SpeechTypeOK
  <2>1. <<>> \in Text /\ <<>> \in Seq(Token) /\ <<>> \in Seq(Text) BY <1>1 DEF Text
  <2>2. 0 <= MaxTokens /\ 0 <= MaxAudio /\ 0 \in 0 .. MaxTokens BY SpeechAssumption
  <2>3. Len(sent) = 0 /\ Len(outputQueue) = 0 BY <1>1 DEF SpeechInit
  <2>4. QED BY <2>1, <2>2, <2>3 DEF SpeechInit, SpeechTypeOK
<1>3. AllSent = <<>> BY DEF SpeechInit, AllSent
<1>4. IsInjective(AllSent) /\ ToSet(AllSent) = {} BY <1>3 DEF IsInjective, ToSet
<1>5. (cut + 1) .. Len(sent) = {} /\ cut <= Len(sent) BY <1>1 DEF SpeechInit
<1>6. Ordered(AllSent, swapped) BY <1>1, <1>3 DEF Ordered
<1>7. SentSound BY <1>4, <1>5, <1>6 DEF SpeechInit, SentSound
<1>8. HeardSound BY <1>1 DEF SpeechInit, HeardSound
<1>9. QED BY <1>2, <1>7, <1>8 DEF SpeechInit, SpeechInv

(* What SpeechInv says of the parts of the text. *)
LEMMA SpeechParts ==
  ASSUME SpeechTypeOK
  PROVE  LET T == 1 .. MaxTokens
             text == pendingText \o inputQueue
         IN /\ T \subseteq Nat /\ Len(sent) \in Nat /\ cut \in Nat
            /\ spoken \in Seq(T) /\ pendingText \in Seq(T) /\ inputQueue \in Seq(T)
            /\ text \in Seq(T) /\ AllSent \in Seq(T)
            /\ ToSet(AllSent) = ToSet(spoken) \union (ToSet(pendingText) \union ToSet(inputQueue))
            /\ ToSet(text) = ToSet(pendingText) \union ToSet(inputQueue)
            /\ IsInjective(AllSent) <=>
                 IsInjective(spoken) /\ IsInjective(text) /\ ToSet(spoken) \intersect ToSet(text) = {}
            /\ IsInjective(text) <=>
                 /\ IsInjective(pendingText) /\ IsInjective(inputQueue)
                 /\ ToSet(pendingText) \intersect ToSet(inputQueue) = {}
<1> DEFINE T == 1 .. MaxTokens
           text == pendingText \o inputQueue
<1>1. spoken \in Seq(T) /\ pendingText \in Seq(T) /\ inputQueue \in Seq(T) BY DEF SpeechTypeOK, Text
<1>2. T \subseteq Nat /\ Len(sent) \in Nat /\ cut \in Nat
  BY LenProperties, SpeechAssumption DEF SpeechTypeOK
<1> HIDE DEF T
<1>3. /\ text \in Seq(T) /\ ToSet(text) = ToSet(pendingText) \union ToSet(inputQueue)
      /\ IsInjective(text) <=>
           /\ IsInjective(pendingText) /\ IsInjective(inputQueue)
           /\ ToSet(pendingText) \intersect ToSet(inputQueue) = {}
  BY <1>1, JoinedTexts
<1> HIDE DEF text
<1>4. /\ spoken \o text \in Seq(T) /\ ToSet(spoken \o text) = ToSet(spoken) \union ToSet(text)
      /\ IsInjective(spoken \o text) <=>
           IsInjective(spoken) /\ IsInjective(text) /\ ToSet(spoken) \intersect ToSet(text) = {}
  BY <1>1, <1>3, JoinedTexts
<1>5. AllSent = spoken \o text BY DEF AllSent, text
<1>6. QED BY <1>1, <1>2, <1>3, <1>4, <1>5 DEF T, text

(* More text: the tokens that were sent stay what they were. *)
LEMMA SendStep ==
  ASSUME SpeechInv, Send
  PROVE  SpeechInv'
<1> USE DEF SpeechInv, SentSound
<1> DEFINE T == 1 .. MaxTokens
           m == Len(sent)
<1>1. PICK piece \in UNION {[1 .. n -> Token] : n \in 1 .. MaxPiece} :
        /\ m + Len(piece) <= MaxTokens
        /\ sent' = sent \o piece
        /\ inputQueue' = inputQueue \o [i \in DOMAIN piece |-> m + i]
        /\ UNCHANGED <<pendingText, processor, utterance, receiving, leftover, outputQueue,
                       spoken, lost, swapped, cut>>
  BY DEF Send
<1> DEFINE l == Len(piece)
           new == [i \in DOMAIN piece |-> m + i]
<1>2. piece \in Seq(Token) /\ l \in Nat /\ DOMAIN piece = 1 .. l
  <2>1. PICK n \in 1 .. MaxPiece : piece \in [1 .. n -> Token] OBVIOUS
  <2>2. n \in Nat BY SpeechAssumption
  <2>3. QED BY <2>1, <2>2, SeqDef, LenProperties
<1>3. /\ T \subseteq Nat /\ m \in Nat /\ cut \in Nat /\ MaxTokens \in Nat
      /\ spoken \in Seq(T) /\ pendingText \in Seq(T) /\ inputQueue \in Seq(T)
  BY SpeechParts, SpeechAssumption
<1>4. sent \in Seq(Token) BY DEF SpeechTypeOK
<1> HIDE DEF T, m, l
<1>5. /\ sent' \in Seq(Token) /\ Len(sent') = m + l
      /\ \A p \in 1 .. m : sent'[p] = sent[p]
  <2>1. /\ sent \o piece \in Seq(Token) /\ Len(sent \o piece) = Len(sent) + Len(piece)
        /\ \A i \in 1 .. Len(sent) + Len(piece) :
             (sent \o piece)[i] = IF i <= Len(sent) THEN sent[i] ELSE piece[i - Len(sent)]
    BY ONLY <1>2, <1>4, ConcatProperties
  <2> DEFINE w == sent \o piece
  <2> HIDE DEF w
  <2>2. w = sent' BY <1>1 DEF w
  <2>3. /\ w \in Seq(Token) /\ Len(w) = m + l
        /\ \A i \in 1 .. m + l : w[i] = IF i <= m THEN sent[i] ELSE piece[i - m]
    BY <2>1 DEF w, m, l
  <2>4. \A i \in 1 .. m : i \in 1 .. m + l /\ i <= m BY <1>2, <1>3
  <2>5. QED BY <2>2, <2>3, <2>4
<1>6. /\ new \in Seq(T) /\ Len(new) = l /\ \A i \in 1 .. l : new[i] = m + i
  <2>1. \A i \in 1 .. l : m + i \in T BY <1>1, <1>2, <1>3 DEF T, l
  <2>2. new \in [1 .. l -> T] BY <1>2, <2>1
  <2>3. new \in Seq(T) BY <1>2, <2>2, SeqDef
  <2>4. DOMAIN new = 1 .. l /\ \A i \in 1 .. l : new[i] = m + i BY <1>2
  <2> HIDE DEF new
  <2>5. QED BY <1>2, <2>3, <2>4, LenProperties
<1>7. inputQueue' = inputQueue \o new BY <1>1 DEF m
<1> HIDE DEF new
<1>8. IsInjective(new) /\ ToSet(new) = (m + 1) .. (m + l)
  <2>1. DOMAIN new = 1 .. l BY <1>6, LenProperties
  <2>2. IsInjective(new) BY <1>3, <1>6, <2>1 DEF IsInjective
  <2>3. ASSUME NEW p \in ToSet(new) PROVE p \in (m + 1) .. (m + l)
    <3>1. PICK i \in 1 .. l : p = new[i] BY <2>1 DEF ToSet
    <3>2. QED BY <1>2, <1>3, <1>6, <3>1
  <2>4. ASSUME NEW p \in (m + 1) .. (m + l) PROVE p \in ToSet(new)
    <3>1. p - m \in 1 .. l /\ m + (p - m) = p BY <1>2, <1>3
    <3>2. new[p - m] = p BY <1>6, <3>1
    <3>3. QED BY <2>1, <3>1, <3>2 DEF ToSet
  <2>5. QED BY <2>2, <2>3, <2>4
<1>9. /\ inputQueue' \in Seq(T)
      /\ ToSet(inputQueue') = ToSet(inputQueue) \union ToSet(new)
      /\ IsInjective(inputQueue') <=>
           IsInjective(inputQueue) /\ IsInjective(new) /\ ToSet(inputQueue) \intersect ToSet(new) = {}
  BY <1>3, <1>6, <1>7, JoinedTexts
<1>10. SpeechTypeOK'
  <2>1. Len(sent') <= MaxTokens BY <1>1, <1>5 DEF m, l
  <2>2. inputQueue' \in Text BY <1>9 DEF Text, T
  <2>3. QED BY <1>1, <1>5, <2>1, <2>2 DEF SpeechTypeOK
<1> DEFINE old == ToSet(spoken) \union (ToSet(pendingText) \union ToSet(inputQueue))
<1>11. /\ old = (cut + 1) .. m
       /\ IsInjective(spoken) /\ IsInjective(pendingText) /\ IsInjective(inputQueue)
       /\ ToSet(spoken) \intersect (ToSet(pendingText) \union ToSet(inputQueue)) = {}
       /\ ToSet(pendingText) \intersect ToSet(inputQueue) = {}
  BY SpeechParts DEF m
<1>12. old \intersect ToSet(new) = {}
  <2>1. \A p \in (cut + 1) .. m : p \notin (m + 1) .. (m + l) BY <1>3
  <2> HIDE DEF old
  <2>2. QED BY <1>8, <1>11, <2>1
<1>13. /\ ToSet(AllSent') = ToSet(spoken) \union (ToSet(pendingText) \union ToSet(inputQueue'))
       /\ IsInjective(AllSent') <=>
            /\ IsInjective(spoken) /\ IsInjective(pendingText) /\ IsInjective(inputQueue')
            /\ ToSet(spoken) \intersect (ToSet(pendingText) \union ToSet(inputQueue')) = {}
            /\ ToSet(pendingText) \intersect ToSet(inputQueue') = {}
  <2> DEFINE text == pendingText \o inputQueue'
  <2>1. /\ text \in Seq(T) /\ ToSet(text) = ToSet(pendingText) \union ToSet(inputQueue')
        /\ IsInjective(text) <=>
             /\ IsInjective(pendingText) /\ IsInjective(inputQueue')
             /\ ToSet(pendingText) \intersect ToSet(inputQueue') = {}
    BY <1>3, <1>9, JoinedTexts
  <2> HIDE DEF text
  <2>2. /\ ToSet(spoken \o text) = ToSet(spoken) \union ToSet(text)
        /\ IsInjective(spoken \o text) <=>
             IsInjective(spoken) /\ IsInjective(text) /\ ToSet(spoken) \intersect ToSet(text) = {}
    BY <1>3, <2>1, JoinedTexts
  <2>3. AllSent' = spoken \o text BY <1>1 DEF AllSent, text
  <2>4. QED BY <2>1, <2>2, <2>3
<1>14. IsInjective(AllSent') BY <1>8, <1>9, <1>11, <1>12, <1>13
<1>15. ToSet(AllSent') = (cut' + 1) .. Len(sent')
  <2>1. ToSet(AllSent') = old \union ToSet(new) BY <1>9, <1>13
  <2>2. cut <= m BY DEF m
  <2>3. (cut + 1) .. (m + l) = ((cut + 1) .. m) \union ((m + 1) .. (m + l)) BY <1>2, <1>3, <2>2
  <2> HIDE DEF old
  <2>4. QED BY <1>1, <1>5, <1>8, <1>11, <2>1, <2>3
<1>16. ASSUME receiving
       PROVE  /\ Whole(utterance)' /\ Closed(utterance, pendingText)'
              /\ ToSet(utterance) \subseteq (cut' + 1) .. Len(sent')
  <2> DEFINE u == utterance
             z == utterance \o pendingText
  <2>1. u \in Seq(T) /\ ToSet(u) \subseteq (cut + 1) .. m
    BY <1>16 DEF SpeechTypeOK, Text, T, m
  <2>2. ToSet(pendingText) \subseteq (cut + 1) .. m BY <1>11
  <2>3. z \in Seq(T) /\ ToSet(z) = ToSet(u) \union ToSet(pendingText) BY <1>3, <2>1, JoinedTexts
  <2>4. Closed(u, pendingText) /\ Whole(u) BY <1>16
  <2> HIDE DEF u, z
  <2>5. \A i \in 1 .. Len(u) : u[i] \in 1 .. m
    <3> SUFFICES ASSUME NEW i \in 1 .. Len(u) PROVE u[i] \in 1 .. m
      OBVIOUS
    <3>1. u[i] \in ToSet(u) BY <2>1, LenProperties DEF ToSet
    <3>2. QED BY <1>3, <2>1, <3>1
  <2>6. \A i \in 1 .. Len(z) : z[i] \in 1 .. m
    <3> SUFFICES ASSUME NEW i \in 1 .. Len(z) PROVE z[i] \in 1 .. m
      OBVIOUS
    <3>1. z[i] \in ToSet(z) BY <2>3, LenProperties DEF ToSet
    <3>2. QED BY <1>3, <2>1, <2>2, <2>3, <3>1
  <2>7. Whole(u)'
    <3> DEFINE k == Stripped(u)
    <3>1. DOMAIN u = 1 .. Len(u) /\ Len(u) \in Nat BY <2>1, LenProperties
    <3>2. k \in 0 .. Len(u) BY <3>1, StrippedProperties
    <3>3. u' = u BY <1>1 DEF u
    <3>4. Stripped(u)' = k
      <4> DEFINE Solid == {i \in DOMAIN u : ~Is(u, i, "gap")}
                 Solid2 == {i \in DOMAIN u : ~(sent'[u[i]] = "gap")}
      <4>1. Solid2 = Solid BY <1>5, <2>5, <3>1 DEF Is
      <4> HIDE DEF Solid, Solid2
      <4>2. k = Max({0} \union Solid) BY DEF Stripped, Solid
      <4>3. Stripped(u)' = Max({0} \union Solid2) BY <3>3 DEF Stripped, Solid2, Is
      <4>4. QED BY <4>1, <4>2, <4>3
    <3>5. k # 0 => sent'[u[k]] = sent[u[k]] BY <1>5, <2>5, <3>1, <3>2
    <3>6. k = 0 \/ sent[u[k]] \in {"end", "close"} BY <2>4 DEF Whole
    <3> HIDE DEF k
    <3>7. k = 0 \/ sent'[u[k]] \in {"end", "close"} BY <3>5, <3>6
    <3>8. QED BY <3>3, <3>4, <3>7 DEF Whole
  <2>8. Closed(u, pendingText)'
    <3>1. u' = u /\ pendingText' = pendingText /\ z' = z BY <1>1 DEF u, z
    <3>2. ASSUME NEW i \in 1 .. Len(u), sent'[u[i]] = "open"
          PROVE  \E j \in i + 1 .. Len(z) : sent'[z[j]] = "close"
      <4>1. Is(u, i, "open") BY <1>5, <2>5, <3>2 DEF Is
      <4>2. PICK j \in i + 1 .. Len(z) : Is(z, j, "close") BY <2>4, <4>1 DEF Closed, z, u
      <4>3. j \in 1 .. Len(z) BY <2>3, LenProperties
      <4>4. sent'[z[j]] = "close" BY <1>5, <2>6, <4>2, <4>3 DEF Is
      <4>5. QED BY <4>4
    <3>3. z = u \o pendingText BY DEF z, u
    <3>4. QED BY <3>1, <3>2, <3>3 DEF Closed, Is
  <2>9. (cut + 1) .. m \subseteq (cut' + 1) .. Len(sent') BY <1>1, <1>2, <1>3, <1>5
  <2>10. QED BY <1>1, <2>1, <2>7, <2>8, <2>9 DEF u
<1>17. cut' <= Len(sent') BY <1>1, <1>2, <1>3, <1>5 DEF m
<1>18. Ordered(AllSent', swapped')
  <2>1. AllSent \in Seq(T) /\ ToSet(AllSent) = old BY SpeechParts DEF T
  <2>2. AllSent' = AllSent \o new
    <3> DEFINE q == inputQueue \o new
               t == pendingText \o inputQueue
    <3>1. t \in Seq(T) BY <1>3, ConcatProperties
    <3>2. t \o new = pendingText \o q
      <4>1. pendingText \in Seq(T) /\ inputQueue \in Seq(T) /\ new \in Seq(T) BY <1>3, <1>6
      <4>2. QED BY ONLY <4>1, ConcatAssociative
    <3>3. (spoken \o t) \o new = spoken \o (t \o new)
      <4>1. spoken \in Seq(T) /\ new \in Seq(T) BY <1>3, <1>6
      <4> HIDE DEF t
      <4>2. QED BY ONLY <3>1, <4>1, ConcatAssociative
    <3>4. AllSent' = spoken \o (pendingText \o q) BY <1>1, <1>7 DEF AllSent
    <3>5. AllSent = spoken \o t BY DEF AllSent
    <3> HIDE DEF q, t
    <3>6. QED BY <3>2, <3>3, <3>4, <3>5
  <2>3. Ordered(new, swapped) BY <1>2, <1>3, <1>6 DEF Ordered
  <2>4. \A p \in old, q \in ToSet(new) : p < q
    <3> HIDE DEF old
    <3>1. \A p \in (cut + 1) .. m, q \in (m + 1) .. (m + l) : p < q BY <1>3
    <3>2. QED BY <1>8, <1>11, <3>1
  <2> HIDE DEF old
  <2>5. Ordered(AllSent \o new, swapped) BY <1>6, <2>1, <2>3, <2>4, JoinedOrder
  <2>6. QED BY <1>1, <2>2, <2>5
<1>19. lost' \subseteq 1 .. Len(sent') /\ \A p \in lost' : sent'[p] = "gap"
  <2>1. lost \subseteq 1 .. m BY DEF m
  <2>2. \A p \in 1 .. m : p \in 1 .. m + l BY <1>2, <1>3
  <2>3. QED BY <1>1, <1>5, <2>1, <2>2
<1>20. HeardSound' BY <1>1 DEF HeardSound
<1>21. QED BY <1>1, <1>10, <1>14, <1>15, <1>16, <1>17, <1>18, <1>19, <1>20

(* All that is pending and queued is spoken or pending again. *)
LEMMA TakeTextsStep ==
  ASSUME SpeechInv, TakeTexts
  PROVE  SpeechInv'
<1> USE DEF SpeechInv, SentSound
<1> DEFINE T == 1 .. MaxTokens
           text == pendingText \o inputQueue
<1>1. PICK whole \in Aggregates(Parse(text)[1], Parse(text)[2]) :
        /\ pendingText' = whole.rest /\ utterance' = whole.text /\ spoken' = spoken \o whole.text
        /\ lost' = lost \union whole.lost /\ swapped' = swapped \union whole.swapped
        /\ processor' \in {"idle", "sending"} /\ receiving' = (whole.text # <<>>)
        /\ inputQueue' = <<>>
        /\ UNCHANGED <<sent, leftover, outputQueue, cut>>
  BY DEF TakeTexts
<1> DEFINE u == whole.text
           p == whole.rest
           gone == whole.lost
           behind == whole.swapped
<1>2. /\ T \subseteq Nat /\ Len(sent) \in Nat /\ cut \in Nat
      /\ spoken \in Seq(T) /\ text \in Seq(T)
      /\ ToSet(AllSent) = ToSet(spoken) \union ToSet(text)
      /\ IsInjective(spoken) /\ IsInjective(text) /\ ToSet(spoken) \intersect ToSet(text) = {}
  BY SpeechParts
<1>3. AllSent = spoken \o text BY DEF AllSent
<1> HIDE DEF text, T
<1>4. /\ u \in Seq(T) /\ p \in Seq(T)
      /\ ToSet(u) \union ToSet(p) = ToSet(text)
      /\ IsInjective(u) /\ IsInjective(p) /\ ToSet(u) \intersect ToSet(p) = {}
      /\ gone \subseteq ToSet(text) /\ \A q \in gone : sent[q] = "gap"
      /\ behind \subseteq ToSet(text)
      /\ Whole(u)
      /\ Closed(u, p)
      /\ \A L : Ordered(text, L) => Ordered(u \o p, L \union behind)
  BY <1>2, TextCut
<1>5. /\ pendingText' = p /\ utterance' = u /\ spoken' = spoken \o u
      /\ lost' = lost \union gone /\ swapped' = swapped \union behind
      /\ processor' \in {"idle", "sending"} /\ receiving' = (u # <<>>)
      /\ inputQueue' = <<>>
      /\ UNCHANGED <<sent, leftover, outputQueue, cut>>
  BY <1>1
<1> HIDE DEF u, p, gone, behind
<1>6. /\ spoken \o u \in Seq(T) /\ ToSet(spoken \o u) = ToSet(spoken) \union ToSet(u)
      /\ IsInjective(spoken \o u) /\ u \o p \in Seq(T) /\ ToSet(u \o p) = ToSet(u) \union ToSet(p)
  BY <1>2, <1>4, JoinedTexts
<1>7. AllSent' = (spoken \o u) \o p
  <2>1. p \o <<>> = p BY <1>4, ConcatEmptySeq
  <2>2. QED BY <1>5, <2>1 DEF AllSent
<1>8. ToSet(AllSent') = ToSet(AllSent) /\ IsInjective(AllSent')
  <2> DEFINE s == spoken \o u
  <2> HIDE DEF s
  <2>1. s \in Seq(T) /\ ToSet(s) = ToSet(spoken) \union ToSet(u) /\ IsInjective(s) BY <1>6 DEF s
  <2>2. ToSet(s) \intersect ToSet(p) = {} BY <1>2, <1>4, <2>1
  <2>3. ToSet(s \o p) = ToSet(s) \union ToSet(p) /\ IsInjective(s \o p)
    BY <1>4, <2>1, <2>2, JoinedTexts
  <2>4. AllSent' = s \o p BY <1>7 DEF s
  <2>5. QED BY <1>2, <1>4, <2>1, <2>3, <2>4
<1>9. Ordered(AllSent', swapped')
  <2> DEFINE z == u \o p
  <2>1. z \in Seq(T) /\ ToSet(z) = ToSet(text) BY <1>4, <1>6
  <2>2. AllSent' = spoken \o z
    <3>1. spoken \in Seq(T) /\ u \in Seq(T) /\ p \in Seq(T) BY <1>2, <1>4
    <3>2. (spoken \o u) \o p = spoken \o (u \o p) BY ONLY <3>1, ConcatAssociative
    <3>3. QED BY <1>7, <3>2
  <2>3. /\ Ordered(spoken, swapped) /\ Ordered(text, swapped)
        /\ \A a \in ToSet(spoken), c \in ToSet(text) : a < c \/ c \in swapped
    BY <1>2, <1>3, JoinedOrder
  <2>4. Ordered(z, swapped') BY <1>4, <1>5, <2>3
  <2>5. \A c \in swapped : c \in swapped' BY <1>5
  <2> HIDE DEF z
  <2>6. Ordered(spoken, swapped') BY <2>3, <2>5 DEF Ordered
  <2>7. \A a \in ToSet(spoken), c \in ToSet(z) : a < c \/ c \in swapped' BY <2>1, <2>3, <2>5
  <2>8. Ordered(spoken \o z, swapped') BY <1>2, <2>1, <2>4, <2>6, <2>7, JoinedOrder
  <2>9. QED BY <2>2, <2>8
<1>10. ToSet(text) \subseteq 1 .. Len(sent) /\ ToSet(text) \subseteq (cut + 1) .. Len(sent)
  <2>1. ToSet(text) \subseteq (cut + 1) .. Len(sent) BY <1>2
  <2>2. (cut + 1) .. Len(sent) \subseteq 1 .. Len(sent) BY <1>2
  <2>3. QED BY <2>1, <2>2
<1>11. lost' \subseteq 1 .. Len(sent') /\ \A q \in lost' : sent'[q] = "gap"
  BY <1>4, <1>5, <1>10
<1>12. SpeechTypeOK'
  <2>1. spoken' \in Text /\ utterance' \in Text /\ pendingText' \in Text
    BY <1>4, <1>5, <1>6 DEF Text, T
  <2>2. inputQueue' \in Text BY <1>5, EmptySeq DEF Text
  <2>3. ToSet(text) \subseteq 1 .. MaxTokens
    <3>1. Len(sent) <= MaxTokens /\ MaxTokens \in Nat BY SpeechAssumption DEF SpeechTypeOK
    <3>2. QED BY <1>2, <1>10, <3>1
  <2>4. lost' \subseteq 1 .. MaxTokens /\ swapped' \subseteq 1 .. MaxTokens
    BY <1>4, <1>5, <2>3 DEF SpeechTypeOK
  <2>5. QED BY <1>5, <2>1, <2>2, <2>4 DEF SpeechTypeOK
<1>13. receiving' => /\ Whole(utterance)' /\ Closed(utterance, pendingText)'
                     /\ ToSet(utterance') \subseteq (cut' + 1) .. Len(sent')
  <2>1. sent' = sent BY <1>5
  <2>2. Whole(utterance)' BY <1>4, <1>5, <2>1 DEF Whole, Stripped, Is
  <2>3. Closed(utterance, pendingText)'
    <3>1. Closed(u, p) /\ utterance' = u /\ pendingText' = p BY <1>4, <1>5
    <3>2. QED BY ONLY <2>1, <3>1 DEF Closed, Is
  <2>4. QED BY <1>4, <1>5, <1>10, <2>2, <2>3
<1>14. HeardSound'
  <2>1. Len(spoken \o u) = Len(spoken) + Len(u) BY <1>2, <1>4, ConcatProperties
  <2>2. spoken \o u = <<>> => u = <<>> /\ spoken = <<>>
    <3>1. Len(spoken) \in Nat /\ Len(u) \in Nat BY <1>2, <1>4, LenProperties
    <3>2. spoken \o u = <<>> => Len(u) = 0 /\ Len(spoken) = 0 BY <2>1, <3>1, EmptySeq
    <3>3. QED BY <1>2, <1>4, <3>2, EmptySeq
  <2>3. QED BY <1>5, <2>2 DEF HeardSound
<1>15. QED BY <1>5, <1>8, <1>9, <1>11, <1>12, <1>13, <1>14

LEMMA ResetStep ==
  ASSUME SpeechInv, Reset
  PROVE  SpeechInv'
<1> USE DEF SpeechInv, SentSound
<1>1. \A S : <<>> \in Seq(S) /\ Len(<<>>) = 0 BY EmptySeq
<1>2. Len(sent) \in 0 .. MaxTokens BY LenProperties, SpeechAssumption DEF SpeechTypeOK
<1>3. SpeechTypeOK'
  <2>1. <<>> \in Text /\ <<>> \in Seq(Text) BY <1>1 DEF Text
  <2>2. Len(outputQueue') = 0 /\ 0 <= MaxAudio BY <1>1, SpeechAssumption DEF Reset
  <2>3. QED BY <1>2, <2>1, <2>2 DEF Reset, SpeechTypeOK
<1>4. AllSent' = <<>> BY DEF Reset, AllSent
<1>5. IsInjective(AllSent') /\ ToSet(AllSent') = {} BY <1>4 DEF IsInjective, ToSet
<1>6. (cut' + 1) .. Len(sent') = {} BY <1>2 DEF Reset
<1>7. cut' <= Len(sent') BY <1>2 DEF Reset
<1>8. Ordered(AllSent', swapped') BY <1>1, <1>4 DEF Ordered
<1>9. receiving' = FALSE /\ lost' = {} BY DEF Reset
<1>10. HeardSound' BY <1>1 DEF Reset, HeardSound
<1>11. QED BY <1>3, <1>5, <1>6, <1>7, <1>8, <1>9, <1>10

(* What keeps the text keeps what is said of it. *)
LEMMA TextKept ==
  ASSUME SpeechInv, SpeechTypeOK', HeardSound', receiving' => receiving,
         UNCHANGED <<sent, inputQueue, pendingText, utterance, spoken, lost, swapped, cut>>
  PROVE  SpeechInv'
<1>1. AllSent' = AllSent BY DEF AllSent
<1>2. SentSound' BY <1>1 DEF SpeechInv, SentSound
<1>3. receiving' => Whole(utterance)' /\ Closed(utterance, pendingText)'
  BY DEF SpeechInv, Whole, Stripped, Closed, Is
<1>4. QED BY <1>2, <1>3 DEF SpeechInv

(* Audio, and taking it, only move what is received. *)
LEMMA AudioQueued ==
  ASSUME SpeechInv, Audio \/ Recv
  PROVE  SpeechInv'
<1> USE DEF SpeechInv
<1>1. UNCHANGED <<sent, inputQueue, pendingText, utterance, receiving, spoken, lost, swapped, cut>>
  BY DEF Audio, Recv
<1>2. outputQueue \in Seq(Text) /\ utterance \in Text /\ leftover \subseteq Text
      /\ Len(outputQueue) \in Nat
  BY LenProperties DEF SpeechTypeOK
<1> DEFINE Heard(frame) == frame \in leftover \/ \A p \in ToSet(frame) : p > cut
<1>3. \A k \in 1 .. Len(outputQueue) : Heard(outputQueue[k]) BY DEF HeardSound
<1>4. SpeechTypeOK' /\ HeardSound'
  <2>1. CASE outputQueue' = outputQueue /\ Audio
    <3>1. leftover' \in {leftover, leftover \union {utterance}} /\ processor' \in {processor, "idle"}
      BY <2>1 DEF Audio
    <3>2. SpeechTypeOK' BY <1>1, <1>2, <2>1, <3>1 DEF SpeechTypeOK
    <3>3. HeardSound' BY <1>1, <1>3, <2>1, <3>1 DEF HeardSound
    <3>4. QED BY <3>2, <3>3
  <2>2. CASE outputQueue' # outputQueue /\ Audio
    <3>1. PICK frame \in leftover \union {utterance} :
            /\ receiving /\ outputQueue' = Append(outputQueue, frame)
            /\ Len(outputQueue) < MaxAudio
            /\ processor' = processor /\ leftover' = leftover
      BY <2>2 DEF Audio
    <3>2. frame \in Text BY <1>2
    <3>3. /\ outputQueue' \in Seq(Text) /\ Len(outputQueue') = Len(outputQueue) + 1
          /\ \A k \in 1 .. Len(outputQueue) : outputQueue'[k] = outputQueue[k]
          /\ outputQueue'[Len(outputQueue) + 1] = frame
      BY <1>2, <3>1, <3>2, AppendProperties
    <3>4. Len(outputQueue') <= MaxAudio BY <1>2, <3>1, <3>3, SpeechAssumption
    <3>5. Heard(frame)
      <4>1. cut \in Nat /\ Len(sent) \in Nat BY SpeechParts
      <4>2. frame = utterance => \A p \in ToSet(frame) : p > cut BY <3>1, <4>1
      <4>3. QED BY <4>2
    <3> HIDE DEF Heard
    <3>6. ASSUME NEW k \in 1 .. Len(outputQueue') PROVE Heard(outputQueue'[k])
      <4>1. CASE k = Len(outputQueue) + 1 BY <3>3, <3>5, <4>1
      <4>2. CASE k # Len(outputQueue) + 1
        <5>1. k \in 1 .. Len(outputQueue) BY <1>2, <3>3, <4>2
        <5>2. QED BY <1>3, <3>3, <5>1
      <4>3. QED BY <4>1, <4>2
    <3>7. SpeechTypeOK' BY <1>1, <3>1, <3>3, <3>4 DEF SpeechTypeOK
    <3>8. HeardSound' BY <1>1, <3>1, <3>6 DEF HeardSound, Heard
    <3>9. QED BY <3>7, <3>8
  <2>3. CASE Recv
    <3>1. outputQueue # <<>> /\ outputQueue' = Tail(outputQueue) /\ processor' = processor
          /\ leftover' = leftover
      BY <2>3 DEF Recv
    <3>2. /\ outputQueue' \in Seq(Text) /\ Len(outputQueue') = Len(outputQueue) - 1
          /\ \A k \in 1 .. Len(outputQueue') : outputQueue'[k] = outputQueue[k + 1]
      BY <1>2, <3>1, HeadTailProperties
    <3>3. Len(outputQueue') <= MaxAudio
      BY <1>2, <3>2, SpeechAssumption DEF SpeechTypeOK
    <3>4. \A k \in 1 .. Len(outputQueue') : k + 1 \in 1 .. Len(outputQueue) BY <1>2, <3>2
    <3> HIDE DEF Heard
    <3>5. \A k \in 1 .. Len(outputQueue') : Heard(outputQueue'[k]) BY <1>3, <3>2, <3>4
    <3>6. SpeechTypeOK' BY <1>1, <3>1, <3>2, <3>3 DEF SpeechTypeOK
    <3>7. HeardSound' BY <1>1, <3>1, <3>5 DEF HeardSound, Heard
    <3>8. QED BY <3>6, <3>7
  <2>4. QED BY <2>1, <2>2, <2>3
<1>5. QED BY <1>1, <1>4, TextKept

LEMMA SpeechStep == SpeechInv /\ [SpeechNext]_speechVars => SpeechInv'
<1> SUFFICES ASSUME SpeechInv, [SpeechNext]_speechVars PROVE SpeechInv'
  OBVIOUS
<1>1. CASE UtteranceSent \/ StreamEnds \/ CloseSpeech \/ UNCHANGED speechVars
  <2>1. UNCHANGED <<sent, inputQueue, pendingText, utterance, outputQueue, spoken, lost, swapped, cut>>
    BY <1>1 DEF UtteranceSent, StreamEnds, CloseSpeech, speechVars
  <2>2. /\ receiving' = receiving \/ receiving' = FALSE
        /\ leftover' \in {leftover, leftover \union {utterance}}
        /\ processor' \in {processor, "idle", "streaming", "ended"}
    BY <1>1 DEF UtteranceSent, StreamEnds, CloseSpeech, speechVars
  <2>3. SpeechTypeOK'
    <3>1. leftover' \subseteq Text BY <2>2 DEF SpeechInv, SpeechTypeOK
    <3>2. receiving' \in BOOLEAN BY <2>2 DEF SpeechInv, SpeechTypeOK
    <3>3. QED BY <2>1, <2>2, <3>1, <3>2 DEF SpeechInv, SpeechTypeOK
  <2>4. HeardSound' BY <2>1, <2>2 DEF SpeechInv, HeardSound
  <2>5. QED BY <2>1, <2>2, <2>3, <2>4, TextKept
<1>2. QED BY <1>1, SendStep, TakeTextsStep, ResetStep, AudioQueued DEF SpeechNext

LEMMA SoundSpeech == SpeechInv => SpeaksWhole /\ ResetSilences
<1> SUFFICES ASSUME SpeechInv PROVE SpeaksWhole /\ ResetSilences
  OBVIOUS
<1> USE DEF SpeechInv, SentSound, HeardSound
<1>1. /\ spoken \in Text /\ pendingText \in Text /\ inputQueue \in Text /\ utterance \in Text
      /\ outputQueue \in Seq(Text)
  BY DEF SpeechTypeOK
<1>2. AllSent = spoken \o pendingText \o inputQueue
  <2>1. spoken \in Seq(1 .. MaxTokens) /\ pendingText \in Seq(1 .. MaxTokens)
        /\ inputQueue \in Seq(1 .. MaxTokens)
    BY <1>1 DEF Text
  <2>2. (spoken \o pendingText) \o inputQueue = spoken \o (pendingText \o inputQueue)
    BY ONLY <2>1, ConcatAssociative
  <2>3. QED BY <2>2 DEF AllSent
<1>3. DOMAIN utterance = 1 .. Len(utterance) BY <1>1, LenProperties DEF Text
<1>4. \A i, j \in DOMAIN AllSent : i < j => AllSent[i] < AllSent[j] \/ AllSent[j] \in swapped
  <2>1. DOMAIN AllSent = 1 .. Len(AllSent) BY SpeechParts, LenProperties
  <2>2. QED BY <2>1 DEF Ordered
<1>5. SpeaksWhole BY <1>2, <1>3, <1>4 DEF SpeaksWhole, Closed
<1>6. ResetSilences
  <2>1. ASSUME NEW frame \in ToSet(outputQueue) \ leftover, NEW i \in DOMAIN frame PROVE frame[i] > cut
    <3>1. PICK k \in 1 .. Len(outputQueue) : frame = outputQueue[k] BY <1>1, LenProperties DEF ToSet
    <3>2. frame[i] \in ToSet(frame) BY DEF ToSet
    <3>3. QED BY <3>1, <3>2
  <2>2. QED BY <2>1 DEF ResetSilences
<1>7. QED BY <1>5, <1>6

(* Whatever the pieces the text comes in, an utterance ends a sentence or a tag,
   nothing of a tag is spoken before its close has come, every token sent since
   the last reset is spoken, pending or queued, once, none is lost but white
   space, and only an unfinished sentence before a cut tag comes out of its
   order (utils.py:60-112, tts.py:95-116). *)
THEOREM AlwaysSpeaksWhole == SpeechSpec => []SpeaksWhole
  BY SpeechInitial, SpeechStep, SoundSpeech, PTL DEF SpeechSpec

(* After a reset nothing is heard before an utterance of what came after it,
   and then of what came before only audio of a stream that was left, which the
   shared _context_id brings (tts.py:54, 129, 165, 215-224). *)
THEOREM AlwaysResetSilences == SpeechSpec => []ResetSilences
  BY SpeechInitial, SpeechStep, SoundSpeech, PTL DEF SpeechSpec
=============================================================================
