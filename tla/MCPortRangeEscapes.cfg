CONSTANTS
  Negotiation = {n1, n2}
  MinPort = 10
  MaxPort = 12
  Hosts = 1
SPECIFICATION PortSpec
INVARIANT CandidatesInRange
CHECK_DEADLOCK FALSE
