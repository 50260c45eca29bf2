SPECIFICATION MCSpec
CONSTANTS
  b1 = b1
  b2 = b2
  b3 = b3
  p1 = p1
  v1 = v1
  v2 = v2
  c1 = c1
  c2 = c2
  t1 = t1
  t2 = t2
  Clients = {c1, c2}
  MemberOf <- MCMemberOf
  Txids = {t1, t2}
  MaxParts = 2
  MaxRecords = 1
  MaxSessions = 2
  MaxResets = 0
  Brokers = {b1, b2, b3}
  Producers = {p1}
  Bodies = {v1, v2}
  MaxHist = 3
  MaxSeq = 2
  MaxPid = 1
  MaxEpoch = 1
  MaxLate = 1
  MaxFloor = 1
  MaxAborts = 1
  MaxCrashes = 1
  NoBatch = NoBatch
  NoTx = NoTx
SYMMETRY Symmetry
CHECK_DEADLOCK FALSE
INVARIANTS
  LogsKept
  ExactlyOnceInOrder
  DeliveredOnce
PROPERTIES
  QueueSteps
