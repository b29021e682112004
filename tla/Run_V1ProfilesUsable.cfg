SPECIFICATION Spec
CONSTANTS
  Settings <- Load
  Sizes = {5}
  Deltas <- MCDeltas
  Latencies = {100}
  MaxResources = 5
INVARIANTS
  V1ProfilesUsable
CHECK_DEADLOCK FALSE
