SPECIFICATION Spec
CONSTANTS
  Settings <- MCSettings
  Sizes = {5}
  Deltas <- MCDeltas
  Latencies = {100}
  MaxResources = 2
INVARIANTS
  OperationsAttributed
  CategoriesMatchScenarios
  FileIsComplete
  JobsFollowScenarios
  ScoreNeedsGates
  FixturesReady
PROPERTIES
  CollectorUsedAsSpecified
  PublishesVerdict
  Terminates
CHECK_DEADLOCK FALSE
