SPECIFICATION BoundedSpec
CONSTANTS
  JobNames = {"bootstrap"}
  ScenarioNames = {"s1"}
  CategoryNames = {"core"}
  Sizes = {6}
  Deltas = {1}
  MaxJobs = 2
  MaxScenarios = 2
  MaxOperations = 2
  MaxMessages = 2
  MaxInvalid = 1
  MaxResources = 0
  MaxRecords = 4
INVARIANTS
  JobAccounting
  JobsWithinRun
PROPERTIES
  EndedJobFrozen
  VerdictNeverRecovers
CHECK_DEADLOCK FALSE
