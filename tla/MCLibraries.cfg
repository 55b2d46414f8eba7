CONSTANTS
  BInstance = {"i1", "i2"}
  BExecutor = {"e1", "e2", "e3"}
  BInstanceOf <- ExecutorInstance
  BKey = {"k1"}
  BPrograms <- Programs
  BMaxCrashes = 1
  DInstance = {"i1", "i2"}
  DExecutor = {"e1", "e2", "e3"}
  DScenarios <- Scenarios
  MaxRow = 3
  Program <- InitPrograms
  Unnamed <- Nop
  Strangers <- MissingRows
  MaxRefusals = 1
SPECIFICATION LibrariesSpec
INVARIANTS
  BokiSessionOrder
  BokiOneOutcome
  DaalOnce
  DaalKeepsValue
  DaalExclusion
  CleanLeavesNothing
  RequestsFindRows
PROPERTIES
  CreateEnds
CHECK_DEADLOCK FALSE
