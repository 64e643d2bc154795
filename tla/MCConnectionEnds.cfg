CONSTANTS
  Conn = {c1}
  Sess = {s1}
  NoSession = NoSession
  NumModels = 2
  Kinds = {"http", "webtransport", "rtmp"}
  Faults = {"negotiateFails", "script", "loopFails", "connectFails"}
  MaxPublish = 3
  Csid = {1, 2}
  Lengths = {0, 1, 3}
  Sizes = {1, 2}
  FirstSize = 2
  Steps = {0, 1, 3}
  Extended = 3
  MaxMessages = 3
  Stream <- Streams
  ChunkMax = 3
SPECIFICATION EndsSpec
INVARIANTS
  ClosedReleasesModels
  FedExactly
  QuietStartHeard
  PublishEnds
  AssembledAsSent
PROPERTIES
  EndsDepart
  FailedStartReleased
  EofReleases
  PublisherLeaves
CHECK_DEADLOCK FALSE
