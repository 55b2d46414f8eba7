\* LoggingMode read: logged reads, log-free writes.
CONSTANTS
  i1 = i1  i2 = i2  e1 = e1  e2 = e2  e3 = e3
  k1 = k1  k2 = k2  v0 = v0  v1 = v1  v2 = v2  v3 = v3
  Instance = {i1, i2}
  Executor = {e1, e2, e3}
  InstanceOf <- TwoInstances
  Data <- LogData
  None = None
  NumSteps = 2
  CallSeqNum = 1
  ChecksExit = TRUE
  MaxCrashes = 1
  Key = {k1, k2}
  Val = {v0, v1, v2, v3}
  InitVal = v0
  Program <- ReadLogProgram
  Mode = "READLOG"
SYMMETRY Symmetry
SPECIFICATION RWSpec
INVARIANTS
  ReadYourWrites
  LastCursorWins
