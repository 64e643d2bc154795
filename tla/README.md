# live-proxy: a TLA+ verification development

live-proxy bridges audio and video transports (WebRTC, SIP, RTMP, WebTransport, raw QUIC,
WebSocket) to AI models. It is one Python process with one asyncio event loop; slow work (model
builds, inference) goes to an executor thread. Nothing is persisted. Its hazards are therefore
those of cooperative concurrency: **what runs between two `await`s is atomic, everything else
interleaves**. That is the granularity of every module here: an action is what one task does
from one `await` that can suspend it to the next.

Contents: [inventory](#1-inventory), [modules and their correspondence to the code](#2-modules),
[runs](#3-runs), [fairness](#4-fairness), [proofs](#5-proofs),
[disagreements with the documentation](#6-findings), [what is left out](#7-not-modelled),
[plan](#8-plan).

Check a run with `tlc -config MCSip.cfg SipServer`, a proof with `tlapm VisionModel_proofs.tla`.

## 1 Inventory

| part | state | operations | talks to | what is hard | what makes it correct |
|---|---|---|---|---|---|
| Session registry (`session.py`) | `SessionManager.sessions`, `Session.connections`, `Connection.session` | attach, detach, publish, create, destroy | connections, HTTP handlers | members leave by three paths; a handler keeps a session over an `await` | both ends of the link agree; a session goes with its last member and only then |
| Connection lifecycle (`connection.py`, `proxy.py`) | the tasks of a connection, `pc`, `models`, `_closing`, the manager's dictionary, the gauge | create, join, prepare, negotiate, `_run`, timeout, close, remove | everything | six parties ask for `close()`, also in the middle of a start; models and negotiations fail | one effective close; nothing left in manager, session or gauge; models released; always somebody who will end it |
| Media and message routing (`connection.py`) | queues of the tracks, data channels | broadcast, interrupt, receive, pace | models, session, scripts | full queues, slow readers, several models | order; bounded queues that keep the newest; every member hears every message once |
| Vision providers (`vision_model.py`, `yolo`, `sam3`, `model.py`) | `_processing`, `_pending_frame`, output queue, detections, the class's semaphore | connect, load, send, recv, inference, close | executor, connection | frames arrive in mid-inference; inputs are switched; one model for all connections | one frame in flight, the newest pending, no change of detections swallowed |
| Shared model setup (`sam3`, `ocr`, `yolo`) | class attributes | setup, load, close | executor | no lock, several variants | a provider runs the model it asked for |
| UDP port range (`port_range.py`) | the loop's `create_datagram_endpoint` | enter, bind, leave | aioice | the patched object is shared by all negotiations | sockets in the range, the loop restored |
| SIP server (`interfaces/sip/`) | `sessions`, a task per TCP connection | INVITE, ACK, BYE | callback service, connection | repeated INVITEs, lost peers, failing callbacks | an INVITE is answered, a BYE ends its own call and only that |
| WebTransport, QUIC, WebSocket (`interfaces/webtransport/`, `interfaces/websocket/`) | decoder buffer, chunk queue, the peer connection object | deliver, decode, open, feed, end | connection | chunks cut frames anywhere; models connect late; streams end early | each frame fed once and in order; tracks accepted; end of stream releases the connection |
| RTMP server (`interfaces/rtmp/`) | chunk streams, the publishing session | handshake, chunks, commands | connection | interleaved chunks, second publish, ping | messages reassembled; one session per publish |
| Gemini live (`providers/gemini/llm_live.py`) | session context, event task, `is_closing`, `reconnect_attempts` | connect, send, recv, add_tool, reconnect, close | Gemini service | add_tool and a drop reconnect at once; close in a reconnect | one open session, none after close |
| Gemini Robotics live (`providers/gemini_robotics/robotics_live.py`) | turn future, receive loop, session | load, run a turn, reconnect, close | Gemini service | a late answer to a timed-out turn; a session replaced under a turn | an answer stays in its session, late by no more than the turns that timed out; nothing open after close |
| Text to speech (`cartesia`) | text and audio queues, the pending text | speak, reset, receive | service | text cut anywhere; interruption between text and audio | every token spoken once; no audio of an interrupted utterance |
| Text to video (`minimax`) | the class's pipe and lock, the clip's task and thread | load, generate, stream, close | executor | a load, a thread and a close that overtake each other | the right model; nothing after close |
| Local language model (`local_llm`) | the model, one flag for all generations | send, clear, close | threads | a flag reset while an interrupted generation still reads it | no answer of an interrupted generation |
| Other turn-based language models | history, current task | send, interrupt, recv | services | interruption in mid-answer | history consistent |
| Scripts (`script_manager.py`) | loaded scripts, JS contexts | setup, teardown, event handlers | connection | callbacks into the connection that runs them | teardown once, setup first |
| Recorder (`recorder.py`) | container, writers | add, write, close | connection | frames shared with others have their pts changed | no frame altered under its consumers |
| Cosmos | the window of frames, the inference in flight | sample, dispatch, clear, close | shared model | the window is cleared while an inference is in flight | windows of the promised length and stride |
| MuJoCo | the simulation, its thread, the held keys | step, render, keys, close | executor of one thread | keys and resets applied while a step runs | stopped once, by its own thread; frames in order; a reset homes |
| Simli, external websocket | per provider | send, recv | service | as above | as above |
| Registration, metrics, logging, helpers, demo | little or none | | | | |

The inner loop of every connection: a transport creates a `Connection` in a session and starts
it; `_prepare` connects the models one after the other and spawns a receiver task for each;
`_run` moves media until the peer connection is gone; `close()` may come from `DELETE`, a
script, the timeout monitor, a state change, SIP BYE or `_run` itself, and `_run`'s last act is
the callback that takes the connection out of the manager and posts `session_closed`.

## 2 Modules

| module | models | composed with |
|---|---|---|
| `SessionRegistry` | `session.py`: membership | abstract view of the lifecycle's sessions |
| `ConnectionLifecycle` | `connection.py` start/run/close, `ConnectionManager`, handlers of `proxy.py` | EXTENDS `SessionRegistry`, whose steps are parts of its own |
| `MediaSession` | `run_media_session`, `FrameDecoder`, `WebTransportPeerConnection`, the start of `_run` | a coarse view of the connection |
| `RtmpServer` | `RTMPClientHandler`'s commands, `RTMPPeerConnection`, the connections its publishers start | a coarse view of the connection |
| `RtmpChunks` | `_read_chunk` against a publisher | |
| `MCConnectionEnds` | one connection, and the stream transports: how each begins and ends | `ConnectionLifecycle`, `RtmpServer`, `RtmpChunks`, `MediaSession` |
| `SipServer` | `process_message` and the handler tasks | a coarse view of the connection |
| `SessionBroadcast` | what `Session.publish` and the queues behind it promise | abstract |
| `SessionMembers` | the members `publish()` delivers to, and a bounded queue that loses its oldest frame | shared by the three below |
| `AudioRouting` | microphones, answers, `output_audio_queue`, `run_send_audio_track`, the track, `_on_interrupted` | implements `SessionBroadcast` |
| `VideoRouting` | cameras, models' frames and overlays, `_stamp_session_video_frame`, the recorder's and the track's pts | EXTENDS `SessionMembers` |
| `MessageRouting` | data channels, `on_message`, `_broadcast_to_channels`, `handle_session_event`, reports | the same |
| `MCRouting` | what two connections of one session pass to each other | EXTENDS the three |
| `LatestFrame` | the promise of `VisionModel`'s docstring | abstract |
| `VisionModel` | `vision_model.py`, `run_shared_inference`, `notify_detections` | implements `LatestFrame` once per provider |
| `SharedModel` | `setup()`/`load()` on class attributes | `MCProviders` |
| `PortRange` | `restrict_ice_gathering_port_range`, `bind_udp_socket_in_range` | `MCProviders` |
| `ScriptHost` | `script_manager.py`, `Model.on/off/_emit` | `MCProviders` |
| `CartesiaSpeech` | `cartesia/tts.py` and `utils.py` | `MCProviders` |
| `MinimaxClips` | `minimax/minimax.py` | `MCProviders` |
| `LocalGeneration` | `local_llm/local_llm.py` | `MCProviders` |
| `CosmosWindow` | `cosmos/cosmos.py` | `MCProviders` |
| `MujocoSim` | `mujoco/visual.py` | `MCProviders` |
| `GeminiLive` | the sessions of `providers/gemini/llm_live.py` | `MCLiveModels` |
| `RoboticsLive` | `gemini_robotics/robotics_live.py` | `MCLiveModels` |
| `ConnectionLifecycle_proofs` | theorems of `SessionRegistry` and `ConnectionLifecycle` | |
| `VisionModel_proofs` | theorems of `VisionModel` | |
| `Transports_proofs` | theorems of `SipServer`, `RtmpServer`, `RtmpChunks`, `MediaSession` | |
| `Providers_proofs` | theorems of `SharedModel`, `PortRange`, `MinimaxClips`, `LocalGeneration`, `MujocoSim`, `CosmosWindow`, `ScriptHost`, `CartesiaSpeech` | |
| `LiveModels_proofs` | theorems of `GeminiLive`, `RoboticsLive` | |
| `AudioRouting_proofs`, `VideoRouting_proofs`, `MessageRouting_proofs` | theorems of the module of that name | |

The four modules `MCConnectionEnds`, `MCRouting`, `MCProviders` and `MCLiveModels` put components
that do not meet into one run: a variable chosen in the initial state (`part`, `plane`,
`provider`) says which of them a behaviour follows, and the others stay in their initial states.
Components that do meet are composed in their steps: the lifecycle with the registry, the three
planes with the session's members, the handlers with their connections.

**ConnectionLifecycle.** `con[c]` is a record with one field per piece of state of a connection
and its tasks; the comment above `ConnState` maps fields to code. Handlers: `CreateConnection`
(`create_connection` to the first suspending `connect()`), `JoinRequest`/`JoinAttach` (the body
is awaited in between), `ModelConnected`/`ModelConnectFails` (`_prepare`'s loop, with `Launched`
for what follows the last one up to the next await), `Negotiated`/`NegotiateFails`. Closing:
`Close` is the guard and everything to the first await, `PcClosed`, `ModelClosed`,
`ModelCloseFails` the rest. `_run`: `RunStarts`, `RunExits`, `RunClosed`. Those who ask:
`Delete`, `ScriptCloses`, `TimeoutFires`, `TimerStops`, `CloseTask`, `OnStateChange`; the peer:
`PeerConnects`, `PeerFails`, `PeerCloses`. Decisions: JS setup and teardown scripts are
synchronous, and `connection.close()` in a script is `create_task`; a state-change event is
emitted only if `_run` has registered the callback, and never by the framed transports; stream
transports' peers are connected before their connection is created; awaiting cancelled
receivers is folded into the last `ModelClosed`. `Faults` selects which failures an instance
has. Code that cannot run is left out (`if self.connected` at `connection.py:957`).

**VisionModel.** A frame is its `frame_count`. `Send` is the whole of `send()`: sampling,
`Pick` or `Forget`, and `Forward` to the output queue. `jobs[p]` are the `_run_process_frame`
tasks, `line` the semaphore `run_shared_inference` waits on, first in line being the one in the
executor. `Inferred(L)` is the executor's return and all that follows up to the end of the task:
overlay, `notify_detections`, and the `finally` clause (`Finish`).

**SharedModel.** With `Swallow = FALSE` this is SAM's `setup()` (a failed build raises), with
`TRUE` OCR's (it is logged). YOLO has a single variant.

**PortRange.** `installed` is the function on the loop, `found[n]` the one context `n` will put
back, `crossed` a history variable: two contexts have been open at the same time. aioice catches
the `OSError` of an exhausted range and goes on without the candidate.

**SipServer.** `handler[t]` is the await the task of a TCP connection is suspended in;
`process_message` is cut at its awaits. Which headers a message has is an input. A callback
that answers with nothing counts as a refusal (503), as in the code. A connection is how far its
`start()` (`stage`), its `close()` (`closer`), its `pc` (`hasPc`) and its `_run` (`runner`) are:
a `DELETE` or a timeout may close it at any point of its start, and a BYE right behind the INVITE
before the first step of `_run`, which then dies. `hasty` is a history variable: the connections
closed before they had a `pc`.

**MediaSession.** A frame of the client's stream is two units, its length prefix and its body, so
chunks end inside prefixes, bodies and between frames. `asyncio.Queue.get`, `StreamReader.read`
and `websocket.recv` do not suspend when data is there: `holding` keeps everything else off the
loop until the session task really waits. `on_session` may or may not suspend. `_run` is only
spawned by it, so its first step (`MediaRuns`) comes after the rest of the init chunk, and after
whatever is queued. A stream's end is `"reported"` to the session task or `"silent"`: the
WebTransport handler looks neither at `stream_ended`, so that an end that comes with data gives
no `b""`, nor at the loss of the connection (`server.py:93-112`). The peer connection of a silent
end is closed by the timeout, and the session task waits for ever.

**RtmpServer.** `pc[i]` is the peer connection of the i-th publish command that got past its
callback and `connection[i]` the `Connection` behind it; `current` is the handler's `self.pc`.
`rtmpHandler` is the await its task is suspended in. `replaced` is a history variable: which peer
connections a second publish took the place of. The decoders are left out: `Media` is the first
frame they give, which makes the track and, from then on, keeps the timeout away.

**RtmpChunks.** `cs` is `_chunk_streams`; the publisher (`sender`) is external, after the RTMP
specification: it may leave out of a header whatever repeats, also behind a full header, whose
timestamp then counts as the delta, and it may abort a message it has begun. Where the handler does
not follow, the history says by how much: `missed` is what it did not add to a timestamp, `rest` the
bytes it kept of an aborted message, `mixed` that another began behind them. As TCP keeps the order
and the handler reads one chunk after the other, sending and reading a chunk is one step. A
payload's bytes carry the number of their message, so a byte of the wrong message shows; `aligned`
says that no chunk was read too far or too short.

**AudioRouting, VideoRouting, MessageRouting.** A frame is its position in the history of frames
made. `PutDroppingOldest` of `SessionMembers` is `_put_nowait_dropping_oldest`. In audio, `Piece`
units of sound are a piece of `AUDIO_PTIME`; `SendPiece` is one whole round of
`run_send_audio_track` (take a frame if there is less than a piece, cut a piece or send silence). In
video a frame's pts belongs to the frame, which recorder, connection and tracks share; `complete`
are the frames that have a time base. The frames of a framed transport's camera (`Framed`) come
without one, so that the first track to send one overwrites its pts with the track's own clock, and
a vision model's overlay of one is stamped with the session's. In messages a connection has models
that take them, and `Simli` says whether it has one of Simli's, which takes none but counts as a
model of the sender's. Each model a message is handed to is a task of its own, except for the
connection's own client, whose handler awaits one model after the other (`relaying`).

**ScriptHost.** A script's code runs synchronously in the event loop; `stage` says what runs. An
event in progress is an index into the *live* list of handlers, as in `_emit`.

**CartesiaSpeech.** Text is a sequence of positions in what was sent; each token is a word, white
space, the end of a sentence, or the opening or closing of a tag, so that `aggreagate_sentences` and
`parse_speakeable_text` can be modelled by what they do to them. Where `sent_tokenize` (external)
cuts depends on words and abbreviations: `Aggregates` has one outcome for every set of places behind
an end. The join drops the white space between sentences and at the end (`lost`), and an unfinished
sentence goes behind the incomplete tag (`swapped`). All utterances go to the service under one
context id: `leftover` are those whose stream was left, and `Audio` may be theirs. The input queue
is its texts joined, since the task that takes one takes all there are. The recursion of
`parse_speakeable_text` over closed tags is stated by what it finds: the first tag that opens and
that nothing closes.

**MinimaxClips, LocalGeneration, CosmosWindow, MujocoSim.** A connection that ends while it prepares
its models closes some before it connects them, so `connect()` may follow `close()`. Threads of the
executor are steps of their own, which go on when the task that awaits them is cancelled. In
`MujocoSim` a physics step reads the target, stores it, writes it to `qpos` and is over in four
steps (`inStep`, `value`); the keys of the event loop's thread come in between, and so do the two
halves of a reset, `ResetKey` (the data) and `ResetCopies` (the target), whose lock the thread takes
only to read the keys. The event loop is blocked from one half to the other (`resetting`). `raced`
and `overrun` are history variables. `CosmosWindow` has a clock; everything in it is measured in
ticks.

**GeminiLive.** A context is one object of `live.connect()`, with its `state`; `at[t]` is the await
task `t` is suspended in and `on[t]` the context it works with there. `Connect` is `connect()` up
to its first await, `Reconnect`, `Entered` and `EnterFails` the rest, for the start, the event
task and the tasks of `add_tool` alike; `Breaks`, `Retry`, `Try` and `GiveUp` are the event
task's `except` clause. `disconnect_session` exits a context and swallows what that raises:
`__aexit__` on a generator that is running raises at once, so `Exitable` says when it suspends.
`self.session` is read again at each use, as in the code: the session a task fails on and the
one it then replaces or kills may differ. There is no bound of the model here: `connect()` can
run once for the start, three times for the event task and once for each added tool. `close()`
may come at any time, also before the start's `connect()`, when a connection ends while an earlier
model is being connected. `tries`, `lost`, `crossed` (the tasks a close met in, or still before, a
`connect()`) and `orphan` (the context it forgot in one) are history variables.

**RoboticsLive.** `ws[s]` is one websocket session, `held` the provider's `session` and
`session_context`, which differ while one is entered. `turn` is the turn of `_run_turn`,
`pending` its future; `unanswered[s]` are the turns session `s` has yet to answer, in order, also
those that timed out. `askedOn`, `givenUp`, `result` and `raced` are history variables.

Bounds are CONSTANTS: `NumModels`, `MaxFrames`, `QueueMax` and `MaxQueue` (10 in the code), `Hosts`,
`MaxConn`, `ChunkMax`, `Stream`, `MaxPublish`, `Lengths`, `MaxMessages`, `MaxTokens`, `MaxPiece`,
`MaxAudio`, `MaxVideo`, `MaxChannels`, `MaxClock`, `MaxTime`, `MaxRendered`, `MaxGenerations`,
`MaxResponse`, `MaxHandlers`, `MaxTurns`, `MaxSessions`, and the sets of connections, sessions,
providers, calls, peers, tools and senders. They only stop actions that would make something new.

## 3 Runs

| run | instance | question |
|---|---|---|
| `lifecycle_safety` | 2 connections (WebRTC, WebTransport, joined), 2 sessions, up to 1 model, four kinds of faults | do manager, gauge, sessions and notifications stay right under every interleaving of two connections? Is each session with members one the manager lists, unless a join came too late for it? |
| `connection_ends` | 1 connection (WebRTC, WebTransport, RTMP) with up to 2 models and failing connects, negotiations, loops and scripts; all media streams of up to 3 frames, and those of 4 that begin with an init frame, in chunks of 1 to 3 units; 3 publish commands; 2 chunk streams with 3 messages; fair scheduling | does a lost peer, a close, a failed start, the end of a stream or the loss of a publisher end with everything released? Is each media frame fed and each RTMP message assembled as it was sent? |
| `vision` | 2 providers of a class, one sampling every frame and one every other, 3 frames each, queue 2, fair scheduling | single flight behind the shared model; the newest is pending and is taken up; the output is the newest frames in order; no change of detections swallowed; `LatestFrame` implemented |
| `sip` | 2 TCP connections, 1 call, messages with and without Call-ID, 2 connections that may be closed at any point of their start, fair scheduling | a session names its own started connection; a BYE closes it and takes it out of the manager, or says why not; INVITE is answered |
| `live_models` | Gemini with 1 added tool and 1 sender; Gemini Robotics with 3 turns and 5 sessions; fair scheduling | one session at a time; none after a close; a drop ends in an open session or the end of the call; an answer goes to a turn of its own session, a broken session tells the turn that waits |
| `routing` | 2 connections, one with an avatar, queues of 2; 3 audio frames of one and a half pieces; 3 video frames, a recorder, a camera with and one without a time base, a clock of 2 ticks; 2 messages, 2 channels of which 1 is accepted, Simli's model and 2 or no others at one, none or 1 at the other | are the newest frames kept? How much is heard after an interruption? Is there one timeline? Does each member hear each message once, and nobody himself? |
| `providers` | 3 providers of 2 variants; 3 negotiations, 2 ports; texts of 4 tokens in pieces of 1 or 2, 2 frames of audio; windows of 3 ticks overlapping by 1, 8 ticks; 2 clips of 2 frames; a joint with 3 positions, 2 steps per frame, 3 frames, queue 2; 3 generations; 2 scripts, 3 handlers | the right model for each; ports in range and the loop restored; what a reset or an interruption silences; windows, clips, simulation and scripts as promised |
| `torn_down`, `ports_escape`, `sip_duplicate`, `tracks_lost`, `gemini_attempts` | the smallest instances | violated: see 6 |

Why the bounds suffice. Connections meet only in the registry, the manager's set and the gauge, so
two show every pair of steps, including the last and the last but one member of a session; two
models give a first, a last, and one after a failure; with one model each, two connections keep the
run small, and one connection with two models is in the second run. Media: an init frame and three
more reach a first and a second frame of each kind, with garbled and short ones among them; three
units span two frames. RTMP: three publishes replace a replaced one; lengths 0, 1 and 3 at chunk
sizes 1 and 2 give messages of no, one, two and three chunks, the last one full or not, and a size
changed in the middle; a timestamp of 3 is the first that needs the extended field. Vision: a frame
in flight, one pending and one replacing it need three frames; two providers are enough to contend
for one semaphore, and a queue of two is full at the third frame and shows which it keeps and in
which order; the queues of two providers do not meet, and the second one's output is off before its
first frame (`SharedSpec`) (the theorems cover every sampling rate, length and queue). SIP: two
tasks give every pair of messages on two TCP connections, also of an INVITE and its own repetition
or BYE; a message without Call-ID is a second call that no session is entered for (the theorem
covers any number of calls). Gemini: one tool task and one sender meet the start, the event task and
the closer in every order, and the attempts are the code's three. Robotics: a turn that times out,
one that gets its answer, and one that gets that one's; five sessions are the first and one more
than the three reconnections that are counted. Routing: queues of two overflow at the third frame;
frames of one and a half pieces leave a rest in the buffer; one sender and one other member show who
hears what, and a third member would be a second listener like the first. Providers: two variants
and three providers give a build overtaken by two others; three contexts overlap in every order, and
two ports make the third exhaust the range; four tokens hold an unfinished sentence and a tag cut
behind it, or two sentences with white space between them; two frames of audio are of two
utterances; eight ticks hold three windows. Runs set `CHECK_DEADLOCK FALSE` because each of these
systems can come to rest: all connections closed, all frames sent, the client gone. Symmetry is used
in runs that check safety only; that of `routing` permutes channels, which its abstract
specification does not mention.

## 4 Fairness

Fairness is weak, with one exception, and only given where the program is the one to move:

* the event loop runs every ready task (`RunStarts`, `RunClosed`, `CloseTask`, `OnStateChange`,
  `Begin`, `Feed`, `End`, ...);
* what is awaited returns or raises: `connect()`, `close()` of a model, the peer connection's
  negotiation, an executor call, a response written, the callback (five-second timeout);
* `PeerSeenGone`: `_run`'s audio loop polls its peer connection at every frame time, also when
  no track delivers, so it notices a closed one. That a frame *raises* in it is possible and
  never owed: the fairness condition excludes it;
* `Gone` in `GeminiLive`, the only strong fairness: a session that is gone has finitely many turns
  in its buffer, so `receive()` on it raises in the end, though each turn received in between
  takes the event task through its loop again;
* `SilentTimeout`: with a peer that is not connected nothing refreshes `last_message_time`, so
  the monitor's condition becomes true and stays true. A connected peer may send for ever, and
  the timeout is not fair then.

* `Silent /\ ConnectionCloses` in `MediaSession`: likewise, when the session task is dead or waits
  for chunks that will not come;
* `PublisherTimesOut` in `RtmpServer`: nothing comes any more on a peer connection that the
  handler has replaced or that never had a track, and the monitor closes its connection.

In the composed runs each condition is that of the module, for the behaviours that follow it:
`WF_vars(InLifecycle(A))` with `InLifecycle(A) == part = "lifecycle" /\ A`. Without the guard
an action of a component that is not followed would be enabled for ever and never taken, and the
condition would exclude those behaviours.

Clients, callers, scripts and networks owe nothing. Nor is a fault ever fair by itself: it
appears only in a disjunction with the success it replaces.

## 5 Proofs

Every safety property that a passing run checks, invariant, action property or refinement, is a
theorem: it holds for every value of the constants that the named assumption of its module
allows (`LifecycleAssumption`, `VisionAssumption`, `MediaAssumption`, ...). The assumptions give
constants their types and say that a queue, a clip or a window is not empty. They bound nothing:
`MaxFrames`, `MaxConn` and the like are any natural numbers, and the sets of connections,
sessions and providers need not be finite (those of the tools added to a Gemini call are, as each
needs a context). Few of the properties are inductive; for each, what follows names
the inductive invariant and what it adds.

**`ConnectionLifecycle_proofs`.** `RegistryCorrect` and `DestroyedEmpty` are about the abstract
registry. `RegistryInv` joins the type invariant, `MutualAttachment` and `NoEmptySession`: that a
destroyed session was empty follows only if both ends of the membership agree.
`LifecycleCorrect` gives the run's invariants (`RegistryAgrees`, made of `AlwaysAttached`,
`AlwaysDetached`, `AlwaysCounted` and `NotifiedLast`; `CloseReleases`, `AlwaysWatched`), the
action property `ClosesOnce`, and `AlwaysListed`: a session that has a member is one the
manager knows, unless a join attached to it after its last member had left. It needs
`LifecycleSessionsSound`, which takes the registry's invariant over to the lifecycle, and `Rooted`:
a member that did not join opened its session, which is therefore listed. `LifecycleInv`
adds `Sound` (what a connection's record satisfies by itself: a runner exists only behind a
prepared connection, how far `close()` is tells what is released) and `Placed` (how that decides
its place in manager and registry). The argument: every action leaves one connection's record
sound, and touches the shared state in one of four ways (`QuietStep`, `LeftStep`, `RemovedStep`,
`EnteredStep`), each of which keeps the invariant if the new record agrees with its new place.
The finiteness of `conns`, and so the gauge, is part of the invariant; the set of connections
may be infinite.

**`VisionModel_proofs`.** `VisionCorrect` and from it `AlwaysFlightSound` (with its parts
`AlwaysSingleFlight`, `AlwaysNewestPending`, `AlwaysRecentQueue`), and the refinement
`VisionImplementsLatest`. `VisionInv` adds that entries of the semaphore's line are frames in flight
and that a provider has one entry at most; `QueueInv` what a queue has lost: only frames older than
all it holds, and only if it is full. `AlwaysHeard` proves `HeardIsLast`, which is inductive once
the types are known; `DetectionStep` is the one step in which the detections change.

**`Transports_proofs`.**
* SIP, `AlwaysCallsConsistent`: `CallsInv` is made of `HandlersInv` and `PcInv`. The second says at
  which points of `start()` and `close()` a connection has a `pc`; the first that a handler that
  starts a connection works for the call that connection was made for, and that one that ends one
  names a connection at all. The argument rests on `OwnFacts`: whose start it is decides whose entry
  in `sessions` it may become.
* RTMP, `AlwaysPublishEnds`: `PublishInv` adds that a handler that is starting a session has a peer
  connection. `AlwaysAssembledAsSent`: `ChunksInv` says that publisher and reader agree (`Agrees`)
  on each chunk stream, on what the last headers said, less what the reader did not add, and on how
  much of its message has passed, the rest of an aborted one included.
* Media, `AlwaysFedExactly` and `AlwaysQuietStartHeard`: `MediaInv` is made of `MediaTypeOK`,
  `ChunksOrdered` (what is queued lies behind what was fed, in order, and the end is last),
  `TaskInv` (what the session task has fed, and where it stands with the connection) and
  `HeardInv` (until the connection listens, a quiet client has sent nothing that makes a track).

**`Providers_proofs`.**
* `AlwaysRightModel`, under the hypothesis that `setup()` raises (`~Swallow`; otherwise it is
  false, see 6). `SharedInv` needs `RecordMatches`: what the class says is loaded is what it has.
* `AlwaysRangeSound`: `PortInv` adds that as long as contexts do not overlap, the one that is open,
  if any, is installed and found the loop's own function. `ChainEnds` is inductive because a
  context that enters is found by none.
* `AlwaysOwnClip`: `ClipInv` relates the task of a clip to its thread and to the load: a thread
  without its task is of a provider that was closed.
* `AlwaysInterruptedSilent`: `TextInv` adds that the flag stays set until a message revives what
  was interrupted, and that what was answered is over.
* `AlwaysSimSound`: `SimInv`, whose `PlaceInv` says where in a step the simulation's thread can be;
  what a step that raced with no reset has read or written is the home moved since.
* `AlwaysWindowsSound`: `CosmosInv`; the least number of a set of times comes from the
  well-foundedness of the natural numbers.
* `AlwaysTornDown` and `AlwaysFewSkipped`: `ScriptInv` is made of `ScriptTypeOK`, `CodeInv` (which
  script's code runs, and why), `ListsInv` (no handler is registered twice, and each is accounted
  for), `CallbacksInv` (a script takes away its own handlers only) and `WalkInv` (how far an event
  in progress has come in a list that shrinks under it).
* `AlwaysSpeaksWhole` and `AlwaysResetSilences`: `SpeechInv` says that every token since the last
  reset is spoken, pending, queued or lost white space, in one of them and once, that what is out
  of order was put behind a tag, and that an utterance whose audio is received ends whole, has its
  closing tags or awaits them, and is newer than that reset.

**`LiveModels_proofs`.**
* `AlwaysOneCall`: `GeminiInv` adds to the types `Staged` (the awaits each kind of task can be
  suspended in), `Owned` (one task enters or leaves a context), `Budgeted` (a context is left for every
  `connect()` that can still run) and, for a call without tools, `Quiet` and `Attended`.
* `AlwaysOwnAnswer`, `AlwaysWaitsOnSession`, `AlwaysRoboticsClosed`: in `RoboticsInv`, `Doors` says
  which session can be open, `OneTurn` that one turn at most waits, `InOrder` and `InTime` count
  answers taken and turns that timed out, which bounds how late an answer can be.

**Routing.**
* `AudioRouting_proofs`: `AlwaysNewestKept` and the refinement `AudioImplementsBroadcast` from
  `AudioInv`, whose `Line` says that what is in a queue, buffer or track is addressed to that
  connection and not newer than what is behind it, and whose `Kept` says what a queue has lost.
  `AlwaysInterruptedSoon` adds `HandInv`: a loop has less than a piece and a frame in its buffer,
  and its track and buffer together hold less than that of what came before the last interruption.
  Units left after an interruption are counted with an injective map from those after a step to
  those before it.
* `VideoRouting_proofs`, `AlwaysOneTimeline`: `VideoInv` is made of `VideoTypes`, `ClocksSound`,
  `PtsSound`, `LinesSound` and `SentSound`: the pts of a complete frame is the time it was made, moved
  by what its clock began with, unless it came from a camera without a time base.
* `MessageRouting_proofs`, `AlwaysHeardOnce`: `MessageInv` is made of `MessageTypes`,
  `ChannelsSound`, `ShownSound`, `GivenSound`, `RelaysSound` and `TasksSound`: a task has a message
  in hand only for a model it is meant for and that does not have it, and no two have the same.

Only model-checked are the liveness properties: `EndsDepart`, `FailedStartReleased`,
`EofReleases`, `PublisherLeaves`, `PendingTaken`, `InviteAnswered`, `ByeReleases` and
`DropAnswered`. They rest on fairness and on `ENABLED`, which the prover does not reason about.
The five violations of section 6 are counterexamples of their instances and need no proof.

## 6 Findings

Five runs end in a violation, each of something the repository says:

1. `torn_down`: `DELETE` while `_prepare` awaits a model closes the models known so far, and
   `_prepare` connects the others and nobody closes them (`connection.py:355`).
2. `ports_escape`: the first of two overlapping negotiations to finish restores the loop's
   function while the other gathers: its sockets leave the configured range (`port_range.py:84`).
3. `sip_duplicate`: an INVITE repeated on a second TCP connection while the first is being set up
   starts a second connection (`sip/server.py:403`).
4. `tracks_lost`: frames that were there when `on_session` returned are handled before `_run`
   registers its callbacks: the track is created, nobody hears of it, and its kind stays dead
   for the whole session (`webtransport/server.py:55`).
5. `gemini_attempts`: `reconnect_attempts` counts the reconnections of the whole call, so after
   three successful ones the next drop ends the call without an attempt, although the log says
   "after 3 attempts" (`llm_live.py:438`, `llm_live.py:452`).

Seen while modelling, without a run of their own, since no document claims otherwise or the module's
other properties already rest on it: with `Swallow = TRUE` (OCR) `RightModel` fails, as a failed
build leaves the provider with the reader of other languages; overlapping contexts that end in the
order they began leave a patch on the loop for good; the timeout's close does nothing when an
earlier close overtook the start; a connection closed before `_run`'s first step, as by a BYE that
comes right behind its INVITE, leaves `_run` without a `pc` (`connection.py:795`) and stays in the
manager and the gauge, and so does a SIP call whose start fails before `_run` is spawned; a
`close()` that comes before `start()` has made the `pc` leaves a call that a BYE can no longer
close; a garbled frame ends the session task with the peer connection open, until the timeout; a
join whose body arrives after the session's last member left attaches to a session the manager has
forgotten (`proxy.py:206`). Of `GeminiLive`, whose properties except these cases by name: a tool
added in mid-call closes the session under the event task, which ends because `is_closing` is set,
and the call goes on with a model nobody listens to, or it reconnects too and two sessions are open;
a `close()` during a `connect()` forgets the session that is being entered and leaves it open; one
that comes before it (`connection.py:355`, `1036`) is undone, as `connect()` resets `is_closing`
(`llm_live.py:100`) and opens a session; a `send()` that fails late drops the session that has
replaced its own, and one that fails while a turn ends leaves the call without an event task.

Of the parts added last:

* `connection.py:713` looks the avatar up among the *other* models, so the branch of line 726 for
  the avatar's own audio never runs: its frames take the branch below, are queued in
  `output_audio_queue`, and `run_send_audio_track` drops what it cuts of them (line 947), as the
  connection has an avatar. The connection's own peer hears nothing of it (`Answer`, `SendPiece`).
* `_emit` walks the live list (`model.py:251`): a handler that removes itself makes it skip the
  next one. `FewSkipped` bounds the damage.
* A script whose top level raises has no context that teardown could clean, and its handlers
  stay; so do those that its tools register after teardown. `ScriptsTornDown` excepts both.
* `aggreagate_sentences` puts the incomplete text *before* the last sentence (`utils.py:70`); its
  docstring (line 62) says "append it to the last sentence". When an unfinished sentence and an
  incomplete tag meet, its words end up inside the tag ("Hello <break" is kept as "<breakHello").
  The join of the same line drops the white space between sentences, as the tests expect
  ("First sentence.Second sentence."), and what is at the end. `SpeaksWhole` says that nothing else
  is lost and nothing else moves.
* Audio the service still sends of an utterance whose stream was left comes under the same
  `_context_id` in the stream of the next (`tts.py:54`, `129`, `165`): after a reset, some of what
  was interrupted may be heard in front of the new answer. `ResetSilences` excepts these utterances by
  name (`leftover`).
* The `r` key resets the data (`visual.py:284`) and then copies the positions into the targets
  (line 289). The lock it holds covers the keys and not a step of the thread (lines 190-201): one
  that writes `qpos` in between makes the target what it was, and the reset is lost; one that read
  the target before stores it after. `ResetHomes` excepts both by the history variable `overrun`.
* A frame of a WebTransport, QUIC or WebSocket camera has a pts and no time base
  (`webtransport/session.py:136`), so the first track that sends it gives it that track's clock
  (`connection.py:258`): two viewers' tracks mix their clocks in one stream of frames, whose pts may go
  back, although `connection.py:567-577` speaks of "one consistent timeline". `OneTimeline` asks of
  these frames only that all tracks send the same pts, in the order of making.
* A message of an RTMP publisher that begins without a header behind a full one takes the full
  one's timestamp as its delta in the specification, and 0 here (`rtmp/server.py:131`, `153`): the
  timestamps lag from there on. An abort message is ignored (line 182), and the next message on that
  chunk stream begins with the rest of the aborted one.
* A WebTransport stream whose end comes with data, or whose connection is lost, leaves its session
  task waiting for ever (`webtransport/server.py:93-112`); the timeout closes the connection.
* A clip that `close()` cancels releases the class's semaphore while its thread is still
  generating (`model.py:291`, `minimax.py:228`), and another connection's may start beside it.
* A message sent after an interruption resets the flag the interrupted generation has yet to read
  (`local_llm.py:59`): that answer is given after all. If `generate()` raises, its thread only
  logs it (line 97), and the reader waits for a token in a thread of the default executor for ever.
* A turn of Gemini Robotics that timed out is still answered, and its answer becomes the next
  turn's (`robotics_live.py:126`): `OwnAnswer` bounds the lag. A `close()` before `load()` is over
  is not final: the session is opened after it, and nobody closes it.
* A second publish on one RTMP connection leaves the first peer connection to its timeout.

## 7 Not modelled

Of the modelled parts: `close_all` at process exit; models added by a script in mid-call; the
greeting; the resampling of audio and which models are switched on for audio or video; what an
avatar does with the audio it is sent; the container and the audio of the recorder, also the one in
MCAP; the clips of MiniMax in `VideoRouting`; SIP message parsing and `SimplePeerConnection`'s RTP;
two streams of one WebTransport session (they share a decoder); the send direction of the framed
transports; RTMP's handshake, AMF, acknowledgements, outgoing chunks and decoders. The face
landmarker and OCR override `process_frame`; only what they inherit is modelled. Scripts: the
conversion of values between JavaScript and Python, and `fetch`. MuJoCo: locomotion, the camera and
the scenes. The parsing of answers (boxes, JSON, clock times) is left out everywhere.

Whole parts not modelled: the language models that are clients of a service (OpenAI, Bedrock,
Inception, Gemini's and Gemini Robotics' request variants, text sentiment), as their only state
of their own is the history of messages; the thin relays to external services (Simli, external
websocket); registration, logging, header extensions, certificates, the demo pages and the
deployment (no state, or pure I/O).

## 8 Plan

Done: the modules of section 2, their runs, and a proof of every safety property these check.

Left, most important first:

1. The facts about single steps that the liveness arguments rest on: which step lets a waiting
   caller, publisher or frame advance, and that no other takes its chance away.
2. Models added by a script in mid-call, and `close_all`, in `ConnectionLifecycle`.
3. The history of the turn-based language models, which an interruption cuts.
4. The face landmarker's and OCR's own `process_frame` over `VisionModel`.
