---------------------------- MODULE MediaSession ----------------------------
(***************************************************************************)
(* One session of a framed transport: WebTransport, raw QUIC or WebSocket  *)
(* (run_media_session and FrameDecoder of interfaces/webtransport/, the    *)
(* handlers of interfaces/websocket/server.py), with the peer connection   *)
(* object it feeds and the connection that object belongs to.              *)
(*                                                                         *)
(* The client's stream is a sequence of frames, cut into chunks anywhere:  *)
(* a frame is two units, its length prefix and its body.  The session task *)
(* suspends only when no chunk is queued or while the connection's models  *)
(* connect; until then nothing else runs on the event loop.                *)
(***************************************************************************)
EXTENDS Naturals, Sequences, FiniteSets

CONSTANTS
  Stream,    \* the streams a client may send
  ChunkMax   \* bound on the units of a chunk

(***************************************************************************)
(*  "json"     a control frame that holds JSON                             *)
(*  "text"     a control frame that does not                               *)
(*  "audio", "video"                                                       *)
(*  "garbled"  a video frame whose image cannot be decoded                 *)
(*  "short"    a body too short for its header                             *)
(***************************************************************************)
FrameTypes == {"json", "text", "audio", "video", "garbled", "short"}
Control == {"json", "text"}

ASSUME MediaAssumption ==
  /\ \A s \in Stream : s \in Seq(FrameTypes)
  /\ ChunkMax \in Nat \ {0}

Eof == 0   \* recv_chunk() returns b"" or None

VARIABLES
  stream,    \* what this client sends
  arrived,   \* units that have arrived
  finished,  \* the end of the client's stream: "no", "reported" or "silent"
  chunks,    \* chunks not yet taken: the stream position after each, or Eof
  task,      \* run_media_session: "waiting" (pc is None), "starting" (in
             \* on_session), "feeding", "ended", "dead" (an exception)
  holding,   \* the task has not suspended since it last ran
  fed,       \* units given to the decoder
  parsed,    \* frames it has taken out of its buffer
  buffer,    \* units left in its buffer
  opening,   \* index of the init frame, 0 before
  given,     \* frames passed to pc.handle_frame, in order
  made,      \* what pc has created: its tracks and its channel
  heard,     \* those whose event had a listener
  conn,      \* the connection: "none", "preparing", "spawned", "running",
             \* "closed", "failed"
  listening, \* _run has registered its callbacks on pc
  pcOpen,    \* not pc._closed
  early      \* ghost: a frame behind the init frame arrived before _run ran

clientVars == <<stream, arrived, finished>>
decoderVars == <<fed, parsed, buffer, opening>>
pcVars == <<given, made, heard>>
connVars == <<conn, listening, pcOpen>>
mediaVars == <<clientVars, chunks, task, holding, decoderVars, pcVars, connVars, early>>

Sources == {"audio", "video", "channel"}

MediaTypeOK ==
  /\ stream \in Stream
  /\ arrived \in 0 .. 2 * Len(stream)
  /\ finished \in {"no", "reported", "silent"} /\ holding \in BOOLEAN
  /\ chunks \in Seq(0 .. 2 * Len(stream))
  /\ task \in {"waiting", "starting", "feeding", "ended", "dead"}
  /\ fed \in 0 .. arrived
  /\ opening \in 0 .. parsed /\ parsed \in 0 .. Len(stream) /\ buffer \in 0 .. 1
  /\ given \in Seq(1 .. Len(stream))
  /\ made \subseteq Sources /\ heard \subseteq made
  /\ conn \in {"none", "preparing", "spawned", "running", "closed", "failed"}
  /\ listening \in BOOLEAN /\ pcOpen \in BOOLEAN /\ early \in BOOLEAN

MediaInit ==
  /\ stream \in Stream
  /\ arrived = 0 /\ finished = "no"
  /\ chunks = <<>>
  /\ task = "waiting" /\ holding = FALSE
  /\ fed = 0 /\ parsed = 0 /\ buffer = 0 /\ opening = 0
  /\ given = <<>> /\ made = {} /\ heard = {}
  /\ conn = "none" /\ listening = FALSE /\ pcOpen = FALSE
  /\ early = FALSE

-----------------------------------------------------------------------------
(* The client and the network                                              *)

\* The next n units arrive.
Deliver(n) ==
  LET to == arrived + n IN
  /\ ~holding /\ finished = "no"
  /\ to <= 2 * Len(stream)
  /\ arrived' = to
  /\ chunks' = Append(chunks, to)
  /\ early' = (early \/ (opening # 0 /\ to >= 2 * opening + 2 /\ ~listening))
  /\ UNCHANGED <<stream, finished, task, holding, decoderVars, pcVars, connVars>>

\* The stream ends, or the connection that carries it is lost.  The reader of
\* raw QUIC or of a WebSocket is told; WebTransport's handler only of an end
\* that comes without data: it does not look at stream_ended, nor at the loss
\* of the connection.
Finish ==
  /\ ~holding /\ finished = "no"
  /\ finished' \in {"reported", "silent"}
  /\ chunks' = IF finished' = "reported" THEN Append(chunks, Eof) ELSE chunks
  /\ UNCHANGED <<stream, arrived, task, holding, decoderVars, pcVars, connVars, early>>

-----------------------------------------------------------------------------
(* FrameDecoder                                                            *)

\* feed() of n units: as long as the buffer holds a length prefix and the body
\* it announces, a frame is taken out of it.
Decoded(n) == parsed + 1 .. parsed + (buffer + n) \div 2

\* Mutant: the bytes of an unfinished frame are dropped with their chunk.
KeptNothing(n) == 0

\* What is left of an unfinished frame stays in the buffer.
Kept(n) == (buffer + n) % 2

\* A body that cannot be parsed raises, and the frames decoded with it are lost.
Unparsable(frames) == \E i \in frames : stream[i] = "short"

-----------------------------------------------------------------------------
(* The peer connection object                                              *)

SourceOf(f) ==
  CASE f \in Control -> "channel" [] f = "audio" -> "audio" [] OTHER -> "video"

\* handle_frame(i) raises: the image cannot be decoded, or the listener of a
\* first audio frame adds a track to a connection that has lost its pc.
Raises(i) ==
  \/ stream[i] = "garbled"
  \/ stream[i] = "audio" /\ listening /\ conn = "closed" /\ "audio" \notin made

\* The frames of a set in the order of the stream.
InOrder(frames) ==
  [n \in 1 .. Cardinality(frames) |->
     CHOOSE i \in frames : Cardinality({j \in frames : j <= i}) = n]

\* Mutant: a track is created without its event.
HandleSilently(frames) ==
  LET new == {SourceOf(stream[i]) : i \in frames} IN
  /\ given' = given \o InOrder(frames)
  /\ made' = made \union new
  /\ UNCHANGED heard
  /\ task' = "feeding"

\* The frames are handled in turn, up to one that raises.  The first frame of
\* a kind creates its track (or the channel) and emits the event, which is
\* lost when nobody has registered for it.
Handle(frames) ==
  LET bad == {i \in frames : Raises(i)}
      tried == {i \in frames : \A b \in bad : i <= b}
      new == {SourceOf(stream[i]) : i \in tried} IN
  /\ given' = given \o InOrder(tried \ bad)
  /\ made' = made \union new
  /\ heard' = IF listening THEN heard \union (new \ made) ELSE heard
  /\ task' = IF bad = {} THEN "feeding" ELSE "dead"

-----------------------------------------------------------------------------
(* run_media_session                                                       *)

\* Whether the task goes on without suspending.
Holds == holding' = (chunks' # <<>> /\ task' \in {"waiting", "feeding"})

Dies ==
  /\ task' = "dead" /\ holding' = FALSE
  /\ UNCHANGED <<opening, pcVars, connVars>>

\* A chunk before the init frame: frames up to the first control frame are
\* skipped.  Its parameters open the session, and on_session is called: it
\* may or may not suspend.
Open(frames) ==
  LET controls == {i \in frames : stream[i] \in Control}
      first == CHOOSE i \in controls : \A j \in controls : i <= j IN
  IF controls = {}
  THEN task' = "waiting" /\ Holds /\ UNCHANGED <<opening, pcVars, connVars, early>>
  ELSE IF stream[first] = "text"
  THEN /\ task' = "ended" /\ holding' = FALSE
       /\ UNCHANGED <<opening, pcVars, connVars, early>>
  ELSE /\ task' = "starting" /\ holding' \in BOOLEAN
       /\ opening' = first
       /\ conn' = "preparing" /\ pcOpen' = TRUE
       /\ early' = (arrived >= 2 * first + 2)
       /\ UNCHANGED <<pcVars, listening>>

\* The next chunk is decoded and its frames are handled.
Feed ==
  /\ task \in {"waiting", "feeding"}
  /\ chunks # <<>> /\ Head(chunks) # Eof
  /\ chunks' = Tail(chunks)
  /\ fed' = Head(chunks)
  /\ LET units == fed' - fed
         frames == Decoded(units) IN
     /\ parsed' = parsed + Cardinality(frames)
     /\ buffer' = Kept(units)
     /\ IF Unparsable(frames)
       THEN Dies /\ UNCHANGED early
       ELSE IF task = "waiting"
       THEN Open(frames)
       ELSE /\ Handle(frames) /\ Holds
            /\ UNCHANGED <<opening, connVars, early>>
  /\ UNCHANGED clientVars

\* on_session has returned: _run is spawned and the rest of the init chunk is
\* handled before it can begin.
SessionReady ==
  /\ task = "starting"
  /\ UNCHANGED <<clientVars, chunks, decoderVars, listening, pcOpen, early>>
  /\ conn' = "spawned"
  /\ Handle(opening + 1 .. parsed)
  /\ Holds

\* on_session raises (a model does not connect, or the parameters are no
\* object): the connection is removed and the session task ends.
SessionFails ==
  /\ task = "starting"
  /\ conn' = "failed"
  /\ task' = "dead" /\ holding' = FALSE
  /\ UNCHANGED <<clientVars, chunks, decoderVars, pcVars, listening, pcOpen, early>>

\* Mutant: the loop is left without closing the peer connection.
EndLeavesOpen ==
  /\ task \in {"waiting", "feeding"}
  /\ chunks # <<>> /\ Head(chunks) = Eof
  /\ chunks' = Tail(chunks)
  /\ task' = "ended" /\ holding' = FALSE
  /\ UNCHANGED <<clientVars, decoderVars, pcVars, connVars, early>>

\* The end of the stream closes the peer connection.
End ==
  /\ task \in {"waiting", "feeding"}
  /\ chunks # <<>> /\ Head(chunks) = Eof
  /\ chunks' = Tail(chunks)
  /\ task' = "ended" /\ holding' = FALSE
  /\ pcOpen' = FALSE
  /\ UNCHANGED <<clientVars, decoderVars, pcVars, conn, listening, early>>

-----------------------------------------------------------------------------
(* The connection                                                          *)

\* The first step of _run registers the callbacks.
MediaRuns ==
  /\ ~holding
  /\ conn = "spawned"
  /\ conn' = "running" /\ listening' = TRUE
  /\ UNCHANGED <<clientVars, chunks, task, holding, decoderVars, pcVars, pcOpen, early>>

\* It is closed: by _run when its pc is closed, or by a DELETE, a script or
\* the timeout.  The session task is not told.
ConnectionCloses ==
  /\ ~holding
  /\ conn = "running"
  /\ conn' = "closed" /\ pcOpen' = FALSE
  /\ UNCHANGED <<clientVars, chunks, task, holding, decoderVars, pcVars, listening, early>>

MediaNext ==
  \/ \E n \in 1 .. ChunkMax : Deliver(n)
  \/ Finish
  \/ Feed \/ SessionReady \/ SessionFails \/ End
  \/ MediaRuns \/ ConnectionCloses

MediaSpec == MediaInit /\ [][MediaNext]_mediaVars

\* The timeout will close a connection that gets nothing more: the session
\* task is dead, or waits for chunks that will not come.
Silent == task = "dead" \/ (finished = "silent" /\ chunks = <<>>)

\* The event loop runs what is ready, on_session returns or raises, and a
\* running connection sees that its peer connection is closed or times out.
MediaFairness ==
  /\ WF_mediaVars(Feed)
  /\ WF_mediaVars(SessionReady \/ SessionFails)
  /\ WF_mediaVars(End)
  /\ WF_mediaVars(MediaRuns)
  /\ WF_mediaVars(~pcOpen /\ ConnectionCloses)
  /\ WF_mediaVars(Silent /\ ConnectionCloses)

MediaLiveSpec == MediaSpec /\ MediaFairness

-----------------------------------------------------------------------------
\* Whatever way the stream is cut into chunks, and whenever the models were
\* connected, the peer connection gets every frame behind the init frame once
\* and in order; and between two chunks it has all that arrived
\* (webtransport/server.py:35-59, protocol.py:58-71).
FedExactly ==
  /\ MediaTypeOK
  /\ \A i \in 1 .. Len(given) : given[i] = opening + i
  /\ task = "feeding" => Len(given) = fed \div 2 - opening

\* A client that sends nothing behind its init frame until the connection
\* runs has its tracks and its channel accepted, however its frames are cut
\* and the connection closes (webtransport/session.py:96-137,
\* connection.py:795-856).
QuietStartHeard ==
  ~early /\ conn \in {"running", "closed"} => made = heard

\* However its stream ends, the connection of a session is closed; an end that
\* the reader is told of also ends the session task, and closes the connection
\* without the timeout (webtransport/server.py:61-62, 93-112, connection.py:990-999).
EofReleases ==
  /\ finished # "no" ~> \/ conn \in {"closed", "failed"}
                        \/ conn = "none" /\ (chunks = <<>> \/ task \in {"ended", "dead"})
  /\ finished = "reported" ~> task \in {"ended", "dead"}

\* "then keep feeding frames" (webtransport/server.py:31): the connection of a
\* session that is being fed has accepted each track and the channel the
\* client opened.
TracksHeard ==
  task = "feeding" /\ conn = "running" => made \subseteq heard
=============================================================================
