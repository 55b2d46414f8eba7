CONSTANTS
  p1 = p1  p2 = p2  p3 = p3  n1 = n1  t1 = t1  t2 = t2
  LockId = {l1}
  Process = {p1, p2, p3}
  Node = {n1}
  NodeOf <- Nodes
  Txn = {t1, t2}
  TxnOf <- Txns
  NoTxn = NoTxn
  MaxSeq = 3
  TxnId = {"t1", "t2"}
  Participants <- HotelFlight
  MaxFaults = 1
  XTxn = {"x1", "x2"}
  XParticipants <- HotelFlight
  XMaxFaults = 2
SPECIFICATION LayersSpec
INVARIANTS
  NoInvalidOp
  GrantedIsHeld
  ReplicasAgree
  AtomicCommit
  LocksReleased
  BeldiAtomic
PROPERTIES
  ImplementsLockService
  NoLostUpdate
  TxnsEnd
