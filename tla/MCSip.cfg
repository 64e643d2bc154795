CONSTANTS
  Peer = {t1, t2}
  Call = {k1}
  NoCall = NoCall
  MaxConn = 2
SPECIFICATION LiveSpec
INVARIANTS
  CallsConsistent
PROPERTIES
  InviteAnswered
  ByeReleases
CHECK_DEADLOCK FALSE
