SPECIFICATION Spec
CONSTANTS
  x = x
  y = y
  z = z
  NoId = NoId
  Malformed = Malformed
  Ids = {x, y, z}
  MaxOps = 3
  Batches <- Requests
INVARIANTS
  DependenciesFirst
  NothingTwice
  OrderKept
  Verdict
PROPERTIES
  Terminates
CHECK_DEADLOCK FALSE
