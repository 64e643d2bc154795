CONSTANTS
  Conn = {c1}
  Sess = {s1}
  NoSession = NoSession
  NumModels = 2
  Kinds = {"http"}
  Faults = {}
SPECIFICATION Spec
INVARIANT TornDown
CHECK_DEADLOCK FALSE
