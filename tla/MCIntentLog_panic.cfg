\* The handler goes on after a lost step, as those of singleop and rw do.
CONSTANTS
  i1 = i1
  Instance = {i1}
  Executor = {e1, e2}
  InstanceOf <- OneInstance
  Data = {d1, d2}
  None = None
  NumSteps = 3
  CallSeqNum = 0
  ChecksExit = FALSE
  MaxCrashes = 1
SPECIFICATION Spec
INVARIANT StepNumberMonotonic
