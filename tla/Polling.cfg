SPECIFICATION Spec
CONSTANTS
  Limit = 3
  MaxCall = 4
  Pause = 1
  Slack = 1
  MaxChanges = 3
INVARIANTS
  PassedWasSeen
  LateMeansLate
  WaitIsBounded
  CancelEndsSoon
PROPERTIES
  Terminates
CHECK_DEADLOCK FALSE
