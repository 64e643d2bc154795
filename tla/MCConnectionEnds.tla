-------------------------- MODULE MCConnectionEnds --------------------------
(***************************************************************************)
(* Instances for TLC of one connection under fair scheduling, and of the   *)
(* transports whose streams the server reads itself and that start and end *)
(* connections of their own: the publishers of RTMP with their chunk       *)
(* streams, and the frames of a WebTransport, QUIC or WebSocket stream.    *)
(* Each behaviour follows one of them, chosen in the initial state.        *)
(***************************************************************************)
EXTENDS ConnectionLifecycle, RtmpServer, RtmpChunks, MediaSession

VARIABLE part

\* All streams of up to three frames, and those of four that begin with the
\* init frame and hold only what can be decoded.
Streams ==
  UNION {[1 .. n -> FrameTypes] : n \in 0 .. 3}
    \union {s \in [1 .. 4 -> {"json", "audio", "video"}] : s[1] = "json"}

EndsInit ==
  /\ part \in {"lifecycle", "rtmp", "chunks", "media"}
  /\ Init /\ RtmpInit /\ ChunksInit /\ MediaInit
  /\ part # "media" => stream = <<>>

EndsNext ==
  /\ UNCHANGED part
  /\ IF part = "lifecycle" THEN Next ELSE UNCHANGED vars
  /\ IF part = "rtmp" THEN RtmpNext ELSE UNCHANGED rtmpVars
  /\ IF part = "chunks" THEN ChunksNext ELSE UNCHANGED chunkVars
  /\ IF part = "media" THEN MediaNext ELSE UNCHANGED mediaVars

\* The Fairness of each component, in the behaviours that follow it.
InLifecycle(A) == part = "lifecycle" /\ A
InRtmp(A) == part = "rtmp" /\ A
InMedia(A) == part = "media" /\ A

EndsFairness ==
  /\ \A c \in Conn :
       /\ WF_vars(InLifecycle(ModelConnected(c) \/ ModelConnectFails(c)))
       /\ WF_vars(InLifecycle(Negotiated(c) \/ NegotiateFails(c)))
       /\ WF_vars(InLifecycle(RunStarts(c)))
       /\ WF_vars(InLifecycle(PeerSeenGone(c)))
       /\ WF_vars(InLifecycle(RunClosed(c)))
       /\ WF_vars(InLifecycle(PcClosed(c)))
       /\ WF_vars(InLifecycle(ModelClosed(c) \/ ModelCloseFails(c)))
       /\ WF_vars(InLifecycle(CloseTask(c)))
       /\ WF_vars(InLifecycle(OnStateChange(c)))
       /\ WF_vars(InLifecycle(SilentTimeout(c)))
  /\ WF_rtmpVars(InRtmp(StartSession \/ CallbackFails))
  /\ WF_rtmpVars(InRtmp(Publishing \/ PublishFails))
  /\ WF_rtmpVars(InRtmp(HandlerCloses))
  /\ \A i \in Pc :
       /\ WF_rtmpVars(InRtmp(PublisherRuns(i)))
       /\ WF_rtmpVars(InRtmp(PublisherTimesOut(i)))
       /\ WF_rtmpVars(InRtmp(PublisherRunEnds(i)))
  /\ WF_mediaVars(InMedia(Feed))
  /\ WF_mediaVars(InMedia(SessionReady \/ SessionFails))
  /\ WF_mediaVars(InMedia(End))
  /\ WF_mediaVars(InMedia(MediaRuns))
  /\ WF_mediaVars(InMedia(~pcOpen /\ ConnectionCloses))
  /\ WF_mediaVars(InMedia(Silent /\ ConnectionCloses))

EndsSpec ==
  /\ EndsInit
  /\ [][EndsNext]_<<part, vars, rtmpVars, chunkVars, mediaVars>>
  /\ EndsFairness
=============================================================================
