--------------------------- MODULE MCMediaSession ---------------------------
(* Instances of MediaSession for TLC: all streams of up to three frames,   *)
(* and those of four that begin with the init frame.                       *)
EXTENDS MediaSession

Streams ==
  UNION {[1 .. n -> FrameTypes] : n \in 0 .. 3}
    \union {s \in [1 .. 4 -> FrameTypes \ {"text"}] : s[1] = "json"}
=============================================================================
