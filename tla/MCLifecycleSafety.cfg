CONSTANTS
  Conn = {c1, c2}
  Sess = {s1, s2}
  NoSession = NoSession
  NumModels = 1
  Kinds = {"http", "webtransport", "join"}
  Faults = {"connectFails", "negotiateFails", "closeFails", "script"}
SPECIFICATION Spec
SYMMETRY Symmetry
INVARIANTS
  RegistryConsistent
  Watched
  
PROPERTIES
  CloseOnce
CHECK_DEADLOCK FALSE
