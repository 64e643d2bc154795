CONSTANTS
  Tool = {t1}
  Sender = {s1}
  MaxTurns = 3
  MaxSessions = 5
SPECIFICATION LiveModelsSpec
INVARIANTS
  OneCall
  RoboticsClosed
  OwnAnswer
  WaitsOnSession
PROPERTY DropAnswered
CHECK_DEADLOCK FALSE
