\* One instance: several writes of one key, and a dependent write.
CONSTANTS
  i1 = i1  i2 = i2  e1 = e1  e2 = e2  e3 = e3
  k1 = k1  k2 = k2  v0 = v0  v1 = v1  v2 = v2  v3 = v3
  Instance = {i1}
  Executor = {e1, e2}
  InstanceOf <- OneInstance
  Data <- LogData
  None = None
  NumSteps = 6
  CallSeqNum = 1
  ChecksExit = TRUE
  MaxCrashes = 1
  Key = {k1, k2}
  Val = {v0, v1, v2, v3}
  InitVal = v0
  Program <- OwnWrites
  Mode = "WRITELOG"
SPECIFICATION RWSpec
INVARIANT AckedWritesPublished
