SPECIFICATION Spec
CONSTANTS
  Writers = {w1, w2, w3}
  Rounds = 2
  Load = 3
  HistoryMessages = 3
  HistoryComments = 3
  Every = 2
  MaxFaults = 2
INVARIANTS
  BlameHasCause
  ErrorsComplete
  CountIsExact
PROPERTIES
  Terminates
CHECK_DEADLOCK FALSE
