CONSTANTS
  Tool = {}
  Sender = {}
SPECIFICATION Spec
INVARIANT GivesUpAfterThree
CHECK_DEADLOCK FALSE
