CONSTANTS
  Stream <- Streams
  ChunkMax = 3
SPECIFICATION MediaSpec
INVARIANT TracksHeard
CHECK_DEADLOCK FALSE
