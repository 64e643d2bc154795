--------------------------- MODULE CartesiaSpeech ---------------------------
(***************************************************************************)
(* Cartesia text-to-speech (cartesia/tts.py, utils.py): the text of a      *)
(* language model arrives in pieces, is cut into utterances that end a     *)
(* sentence or a tag, and their audio is queued for the connection.  A     *)
(* reset (an interruption) drops all that was sent before.                 *)
(*                                                                         *)
(* A text is a sequence of positions in `sent`, where each token is a      *)
(* "word", a "gap" of white space, an "end" of a sentence, or the "open"   *)
(* or "close" of a tag.  White space that the code drops keeps its place   *)
(* in the text and is in `lost`.                                           *)
(***************************************************************************)
EXTENDS Naturals, Sequences, SequencesExt

CONSTANTS
  MaxTokens,    \* bound on the tokens sent
  MaxPiece,     \* tokens in one send()
  MaxAudio      \* bound on the output queue

ASSUME SpeechAssumption == MaxTokens \in Nat /\ MaxPiece \in Nat /\ MaxAudio \in Nat

Token == {"word", "gap", "end", "open", "close"}

VARIABLES
  sent,          \* history: every token send() was given
  inputQueue,    \* _input_queue: its texts joined, as they are always taken
  pendingText,   \* _pending_text
  processor,     \* _process_input_queue: "idle", "sending", "streaming", "ended"
  utterance,     \* the text given to the service
  receiving,     \* _receiving
  leftover,      \* utterances whose stream was left, of which audio may still come
  outputQueue,   \* _output_queue: the utterance of each frame of audio
  spoken,        \* history: the utterances since the last reset, joined
  lost,          \* history: the white space dropped since the last reset
  swapped,       \* history: tokens put behind a tag that came after them
  cut            \* history: tokens sent before the last reset

speechVars ==
  <<sent, inputQueue, pendingText, processor, utterance, receiving, leftover, outputQueue,
    spoken, lost, swapped, cut>>

Text == Seq(1 .. MaxTokens)

SpeechTypeOK ==
  /\ sent \in Seq(Token) /\ Len(sent) <= MaxTokens
  /\ inputQueue \in Text /\ pendingText \in Text /\ utterance \in Text
  /\ processor \in {"idle", "sending", "streaming", "ended"}
  /\ receiving \in BOOLEAN
  /\ leftover \subseteq Text
  /\ outputQueue \in Seq(Text) /\ Len(outputQueue) <= MaxAudio
  /\ spoken \in Text
  /\ lost \subseteq 1 .. MaxTokens /\ swapped \subseteq 1 .. MaxTokens
  /\ cut \in 0 .. MaxTokens

SpeechInit ==
  /\ sent = <<>> /\ inputQueue = <<>> /\ pendingText = <<>>
  /\ processor = "idle" /\ utterance = <<>> /\ receiving = FALSE
  /\ leftover = {} /\ outputQueue = <<>>
  /\ spoken = <<>> /\ lost = {} /\ swapped = {} /\ cut = 0

-----------------------------------------------------------------------------
(* utils.py                                                                *)

Is(text, i, kind) == sent[text[i]] = kind

\* The length of the text before the first tag that is not closed: the search
\* goes on behind the first close after an open, and so ends at the first open
\* that no close follows.
Speakable(text) ==
  LET unclosed == {i \in DOMAIN text :
                     /\ Is(text, i, "open")
                     /\ \A j \in i + 1 .. Len(text) : ~Is(text, j, "close")}
  IN IF unclosed = {} THEN Len(text) ELSE Min(unclosed) - 1

\* Mutant: the whole text is spoken, whatever tag is open.
ParseNothing(text) == <<text, <<>>>>

\* parse_speakeable_text: what can be spoken and an incomplete tag.
Parse(text) ==
  LET n == Speakable(text) IN <<SubSeq(text, 1, n), SubSeq(text, n + 1, Len(text))>>

\* The length of the text without the white space at its end.
Stripped(text) == Max({0} \union {i \in DOMAIN text : ~Is(text, i, "gap")})

\* The text has no sentences, or its last one has its end.
Whole(text) == Stripped(text) = 0 \/ sent[text[Stripped(text)]] \in {"end", "close"}

\* The places from which white space alone leads to place i.
GapBefore(text, i) == {j \in 1 .. i - 1 : \A k \in j .. i - 1 : Is(text, k, "gap")}

\* sent_tokenize: where a sentence may begin, behind an end and the white space
\* that follows it.  Which of these ends are ends to it depends on its words.
Begins(text) ==
  {i \in DOMAIN text :
     /\ ~Is(text, i, "gap")
     /\ \E j \in 1 .. i - 1 : Is(text, j, "end") /\ j + 1 .. i - 1 \subseteq GapBefore(text, i)}

\* aggreagate_sentences: a last sentence without its end goes behind the
\* incomplete tag that followed it.  White space between the sentences and at
\* the end is dropped then.
Aggregates(speakable, incomplete) ==
  IF Whole(speakable)
  THEN {[text |-> speakable, rest |-> incomplete, lost |-> {}, swapped |-> {}]}
  ELSE {LET n == Max({1} \union begins) - 1
            last == SubSeq(speakable, n + 1, Len(speakable))
            gaps == (Stripped(speakable) + 1 .. Len(speakable))
                      \union UNION {GapBefore(speakable, i) : i \in begins}
        IN [text |-> SubSeq(speakable, 1, n),
            rest |-> incomplete \o last,
            lost |-> {speakable[i] : i \in gaps},
            swapped |-> IF incomplete = <<>> THEN {} ELSE ToSet(last)] :
        begins \in SUBSET Begins(speakable)}

-----------------------------------------------------------------------------
(* tts.py                                                                  *)

Send ==
  \E piece \in UNION {[1 .. n -> Token] : n \in 1 .. MaxPiece} :
    /\ Len(sent) + Len(piece) <= MaxTokens
    /\ sent' = sent \o piece
    /\ inputQueue' = inputQueue \o [i \in DOMAIN piece |-> Len(sent) + i]
    /\ UNCHANGED <<pendingText, processor, utterance, receiving, leftover, outputQueue,
                 spoken, lost, swapped, cut>>

\* The processor takes all texts there are.
TakeTexts ==
  /\ processor = "idle" /\ inputQueue # <<>>
  /\ LET parsed == Parse(pendingText \o inputQueue) IN
     \E whole \in Aggregates(parsed[1], parsed[2]) :
       /\ pendingText' = whole.rest
       /\ utterance' = whole.text
       /\ spoken' = spoken \o whole.text
       /\ lost' = lost \union whole.lost
       /\ swapped' = swapped \union whole.swapped
       /\ processor' = IF whole.text = <<>> THEN "idle" ELSE "sending"
       /\ receiving' = (whole.text # <<>>)
  /\ inputQueue' = <<>>
  /\ UNCHANGED <<sent, leftover, outputQueue, cut>>

\* The context took the utterance.
UtteranceSent ==
  /\ processor = "sending"
  /\ processor' = "streaming"
  /\ UNCHANGED <<sent, inputQueue, pendingText, utterance, receiving, leftover, outputQueue,
                 spoken, lost, swapped, cut>>

\* Audio comes: after a reset it is the last that is looked at.  All utterances
\* have the same _context_id, so that what the service still sends of one that
\* was left comes in the stream of a later one.
Audio ==
  /\ processor = "streaming" /\ Len(outputQueue) < MaxAudio
  /\ IF receiving
     THEN /\ \E heard \in leftover \union {utterance} : outputQueue' = Append(outputQueue, heard)
          /\ UNCHANGED <<processor, leftover>>
     ELSE /\ processor' = "idle"
          /\ leftover' = leftover \union {utterance}
          /\ UNCHANGED outputQueue
  /\ UNCHANGED <<sent, inputQueue, pendingText, utterance, receiving, spoken, lost, swapped, cut>>

\* The stream ended, or failed: the utterance is over, for the service perhaps
\* not yet.
StreamEnds ==
  /\ processor \in {"sending", "streaming"}
  /\ processor' = "idle" /\ receiving' = FALSE
  /\ leftover' \in {leftover, leftover \union {utterance}}
  /\ UNCHANGED <<sent, inputQueue, pendingText, utterance, outputQueue, spoken, lost, swapped, cut>>

\* recv() yields a frame to the connection.
Recv ==
  /\ processor # "ended" /\ outputQueue # <<>>
  /\ outputQueue' = Tail(outputQueue)
  /\ UNCHANGED <<sent, inputQueue, pendingText, processor, utterance, receiving, leftover,
                 spoken, lost, swapped, cut>>

\* Mutant: the stream of the utterance goes on.
ResetKeepsStream ==
  /\ pendingText' = <<>> /\ inputQueue' = <<>> /\ outputQueue' = <<>>
  /\ spoken' = <<>> /\ lost' = {} /\ swapped' = {} /\ cut' = Len(sent)
  /\ UNCHANGED <<sent, processor, utterance, receiving, leftover>>

Reset ==
  /\ receiving' = FALSE
  /\ pendingText' = <<>> /\ inputQueue' = <<>> /\ outputQueue' = <<>>
  /\ spoken' = <<>> /\ lost' = {} /\ swapped' = {} /\ cut' = Len(sent)
  /\ UNCHANGED <<sent, processor, utterance, leftover>>

\* close() cancels the processor, in its stream or not.
CloseSpeech ==
  /\ processor # "ended"
  /\ processor' = "ended"
  /\ receiving' = FALSE
  /\ UNCHANGED <<sent, inputQueue, pendingText, utterance, leftover, outputQueue,
                 spoken, lost, swapped, cut>>

SpeechNext ==
  \/ Send \/ TakeTexts \/ UtteranceSent \/ Audio \/ StreamEnds
  \/ Recv \/ Reset \/ CloseSpeech

SpeechSpec == SpeechInit /\ [][SpeechNext]_speechVars

-----------------------------------------------------------------------------
\* Whatever the pieces the text comes in, an utterance ends a sentence or a
\* tag, nothing of a tag is spoken before its close has come (one with the end
\* of a sentence in it is spoken in two parts), and every token sent since the
\* last reset is spoken, pending or queued, once.  Nothing is lost but white
\* space, and only the words of an unfinished sentence before a tag that was
\* cut come out of their order: they end up inside the tag (utils.py:60-112,
\* tts.py:95-116).
SpeaksWhole ==
  /\ SpeechTypeOK
  /\ receiving =>
       /\ Whole(utterance)
       /\ \A i \in DOMAIN utterance : Is(utterance, i, "open") =>
            LET text == utterance \o pendingText IN
            \E j \in i + 1 .. Len(text) : Is(text, j, "close")
  /\ LET all == spoken \o pendingText \o inputQueue IN
       /\ IsInjective(all) /\ ToSet(all) = (cut + 1) .. Len(sent)
       /\ \A i, j \in DOMAIN all : i < j => all[i] < all[j] \/ all[j] \in swapped
  /\ \A token \in lost : sent[token] = "gap"

\* After a reset nothing is heard before an utterance of what was sent after it,
\* although the service may be streaming an earlier one, and then of those sent
\* before it only one whose stream was left while it lasted: its audio comes
\* under the _context_id they share (tts.py:54, 129, 165, 215-224).
ResetSilences ==
  /\ spoken = <<>> => outputQueue = <<>>
  /\ \A frame \in ToSet(outputQueue) \ leftover : \A i \in DOMAIN frame : frame[i] > cut
=============================================================================
