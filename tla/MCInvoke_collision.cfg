CONSTANTS
  i1 = i1  e1 = e1  e2 = e2  c1 = c1  c2 = c2  c3 = c3
  Instance = {i1}
  Executor = {e1}
  InstanceOf <- OneInstance
  Data <- InvokeData
  None = None
  NumSteps = 1
  CallSeqNum = 1
  ChecksExit = FALSE
  MaxCrashes = 1
  CalleeId = {c1}
  Output = {o1}
  NoCaller = NoCaller
  Program <- OneCall
SPECIFICATION InvokeSpec
INVARIANT NoHashCollision
