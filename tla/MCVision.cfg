CONSTANTS
  p1 = p1
  p2 = p2
  Provider = {p1, p2}
  Sampling <- Rates
  QueueMax = 2
  MaxFrames = 3
  Labels = {"cat"}
SPECIFICATION SharedSpec
INVARIANTS
  FlightSound
  HeardIsLast
PROPERTIES
  PendingTaken
  ImplementsLatest
CHECK_DEADLOCK FALSE
