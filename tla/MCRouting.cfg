CONSTANTS
  c1 = c1
  c2 = c2
  Conn = {c1, c2}
  Avatar = {c2}
  Sending = {c1, c2}
  MaxQueue = 2
  Piece = 2
  Lengths = {3}
  MaxFrames = 3
  MaxVideo = 3
  Counts <- ModelCounts
  Simli = {c1}
  Watching = {c1, c2}
  Recording = {c1}
  Framed = {c2}
  Offset = 5
  MaxTime = 2
  Channel = {h1, h2}
  MaxChannels = 1
  MaxMessages = 2
SPECIFICATION RoutingSpec
SYMMETRY Symmetry
INVARIANTS
  NewestKept
  InterruptedSoon
  OneTimeline
  HeardOnce
PROPERTY ImplementsBroadcast
CHECK_DEADLOCK FALSE
