---------------------------- MODULE VideoRouting ----------------------------
(***************************************************************************)
(* The video of the connections of one session (connection.py, session.py, *)
(* recorder.py): cameras and models publish frames to the sending tracks   *)
(* of the members.  The frame is one object that all of them share, and    *)
(* its pts is set in place: by the recorder of its camera's connection,    *)
(* by the connection whose model made it, and by the first track that      *)
(* sends it if it is not yet complete.  It is complete with a time base,   *)
(* which the frames of a WebTransport, QUIC or WebSocket camera come       *)
(* without.  The clips of MiniMax, whose pts count from zero on a time     *)
(* base of their own, are left out.                                        *)
(***************************************************************************)
EXTENDS SessionMembers, Integers

CONSTANTS
  Watching,    \* those with a send_video_track
  Recording,   \* those with a FileRecorder
  Framed,      \* those whose camera's frames have a pts and no time base
  Offset,      \* what the pts of a camera begins with
  MaxVideo,    \* bound on the frames made
  MaxTime      \* bound on the clock

\* A camera's pts does not begin below zero.
ASSUME VideoAssumption == Offset \in Nat

NoPts == -1      \* None, for _video_first_pts
NoTime == -1

VARIABLES
  now,         \* time.time()
  frames,      \* the frames made so far: by whom, of what kind, and when
  pts,         \* the pts of each frame
  complete,    \* the frames that have a time base
  sessionPts,  \* _session_video_pts and _session_video_last_time
  trackPts,    \* _video_pts and _video_last_time of each sending track
  videoQueue,  \* send_video_track.queue
  firstPts,    \* _video_first_pts of each recorder
  announced,   \* connections that sent video_started
  sent         \* history: the frames each track sent, with the pts they had

videoVars ==
  <<attached, now, frames, pts, complete, sessionPts, trackPts, videoQueue, firstPts, announced, sent>>

VideoInit ==
  /\ attached = Conn
  /\ now = 0
  /\ frames = <<>> /\ pts = <<>> /\ complete = {}
  /\ sessionPts = [c \in Conn |-> [pts |-> 0, last |-> NoTime]]
  /\ trackPts = [c \in Conn |-> [pts |-> 0, last |-> NoTime]]
  /\ videoQueue = [c \in Conn |-> <<>>]
  /\ firstPts = [c \in Conn |-> NoPts]
  /\ announced = {}
  /\ sent = [c \in Conn |-> <<>>]

\* A clock of pts advanced to now.
Advanced(clock) ==
  [pts |-> IF clock.last = NoTime THEN clock.pts ELSE clock.pts + (now - clock.last),
   last |-> now]

QueuedAt(f, to) ==
  videoQueue' = [c \in Conn |-> IF c \in to \intersect Watching
                                THEN PutDroppingOldest(videoQueue[c], f)
                                ELSE videoQueue[c]]

\* The next frame has a time base, or has none.
Complete == complete' = complete \union {Len(frames) + 1}
Incomplete == UNCHANGED complete

\* _stamp_session_video_frame: a frame that is not complete gets the time since
\* the first such one of its connection.
Stamped(c) ==
  /\ Complete
  /\ pts' = Append(pts, Advanced(sessionPts[c]).pts)
  /\ sessionPts' = [sessionPts EXCEPT ![c] = Advanced(@)]

\* Mutant: the recorder counts from its first frame again and again.
RecordedRestarting(c, stamp) ==
  /\ firstPts' = [firstPts EXCEPT ![c] = stamp]
  /\ pts' = Append(pts, 0)

\* add_video_frame subtracts in place what the first frame had.
Recorded(c, stamp) ==
  LET first == IF firstPts[c] = NoPts THEN stamp ELSE firstPts[c] IN
  /\ firstPts' = [firstPts EXCEPT ![c] = first]
  /\ pts' = Append(pts, stamp - first)

-----------------------------------------------------------------------------
\* A frame of the camera, which has the camera's pts, is recorded and then
\* published; the connection's own peer does not see it.
CameraFrame(c) ==
  /\ Len(frames) < MaxVideo
  /\ frames' = Append(frames, [from |-> c, kind |-> "camera", at |-> now])
  /\ IF c \in Recording THEN Recorded(c, Offset + now)
     ELSE pts' = Append(pts, Offset + now) /\ UNCHANGED firstPts
  /\ IF c \in Framed THEN Incomplete ELSE Complete
  /\ QueuedAt(Len(frames) + 1, Listeners(c))
  /\ UNCHANGED <<attached, now, sessionPts, trackPts, announced, sent>>

\* A frame of a model is published and shown to the own peer, which is told
\* when the first one comes.
Produced(c, kind, at) ==
  /\ Len(frames) < MaxVideo
  /\ frames' = Append(frames, [from |-> c, kind |-> kind, at |-> at])
  /\ QueuedAt(Len(frames) + 1, Listeners(c) \union {c})
  /\ announced' = announced \union ({c} \intersect Watching)
  /\ UNCHANGED <<attached, now, trackPts, firstPts, sent>>

\* One the model made is stamped.
ModelFrame(c) == Produced(c, "model", now) /\ Stamped(c)

\* A vision model's is made from a frame of the camera, with what that one had
\* when it was published: its pts, or, without a time base, a stamp after all.
OverlayFrame(c) ==
  \E g \in DOMAIN frames :
    /\ frames[g].from = c /\ frames[g].kind = "camera"
    /\ IF c \in Framed THEN ModelFrame(c)
       ELSE /\ Produced(c, "overlay", frames[g].at)
            /\ Complete
            /\ pts' = Append(pts, pts[g])
            /\ UNCHANGED sessionPts

\* SendingTrack.recv: the peer connection takes a frame; one that is not
\* complete gets the track's time instead of its pts.
TrackSends(c) ==
  LET f == Head(videoQueue[c])
      stamp == IF f \in complete THEN pts[f] ELSE Advanced(trackPts[c]).pts
  IN /\ videoQueue[c] # <<>>
     /\ videoQueue' = [videoQueue EXCEPT ![c] = Tail(@)]
     /\ pts' = [pts EXCEPT ![f] = stamp]
     /\ complete' = complete \union {f}
     /\ trackPts' = IF f \in complete THEN trackPts ELSE [trackPts EXCEPT ![c] = Advanced(@)]
     /\ sent' = [sent EXCEPT ![c] = Append(@, [frame |-> f, pts |-> stamp])]
     /\ UNCHANGED <<attached, now, frames, sessionPts, firstPts, announced>>

\* _on_interrupted empties the track's queue.
VideoInterrupted(c) ==
  /\ videoQueue[c] # <<>>
  /\ videoQueue' = [videoQueue EXCEPT ![c] = <<>>]
  /\ UNCHANGED <<attached, now, frames, pts, complete, sessionPts, trackPts, firstPts, announced, sent>>

VideoLeave(c) ==
  /\ c \in attached
  /\ attached' = attached \ {c}
  /\ UNCHANGED <<now, frames, pts, complete, sessionPts, trackPts, videoQueue, firstPts, announced, sent>>

Passes ==
  /\ now < MaxTime
  /\ now' = now + 1
  /\ UNCHANGED <<attached, frames, pts, complete, sessionPts, trackPts, videoQueue, firstPts, announced, sent>>

VideoNext ==
  \/ \E c \in Conn :
       \/ CameraFrame(c) \/ ModelFrame(c) \/ OverlayFrame(c) \/ TrackSends(c)
       \/ VideoInterrupted(c) \/ VideoLeave(c)
  \/ Passes

VideoSpec == VideoInit /\ [][VideoNext]_videoVars

-----------------------------------------------------------------------------
\* Frames whose pts come from one clock: of one camera, with the overlays on
\* them, or of the models of one connection.  The frames of a camera without
\* time base have none: each gets the time of the track that sends it first.
SameClock(f, g) ==
  /\ frames[f].from = frames[g].from
  /\ (frames[f].kind = "model") <=> (frames[g].kind = "model")
  /\ frames[f].kind # "model" => frames[f].from \notin Framed

\* "every subscribed connection shares one consistent timeline"
\* (connection.py:567-577): all tracks send a frame with the same pts, each
\* track in the order they were made, and the frames of one clock as far apart
\* as they were made, although the recorder, the connection and the tracks all
\* write the shared frame's pts and a track may lose frames.
OneTimeline ==
  \A c, d \in Conn : \A i \in DOMAIN sent[c], j \in DOMAIN sent[d] :
    LET a == sent[c][i]
        b == sent[d][j]
    IN /\ a.frame = b.frame => a.pts = b.pts
       /\ SameClock(a.frame, b.frame) =>
            b.pts - a.pts = frames[b.frame].at - frames[a.frame].at
       /\ c = d /\ i < j => a.frame < b.frame
=============================================================================
