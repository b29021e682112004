SPECIFICATION Spec
CONSTANTS
  Settings <- Reliability
  Sizes = {5}
  Deltas <- MCDeltas
  Latencies = {100}
  MaxResources = 5
INVARIANTS
  StdoutMatchesFile
CHECK_DEADLOCK FALSE
