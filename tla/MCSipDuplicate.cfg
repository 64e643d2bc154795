CONSTANTS
  Peer = {t1, t2}
  Call = {k1}
  NoCall = NoCall
  MaxConn = 2
SPECIFICATION Spec
INVARIANT DuplicatesIgnored
CHECK_DEADLOCK FALSE
