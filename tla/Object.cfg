SPECIFICATION MCSpec
CONSTANTS
  n1 = n1
  n2 = n2
  n3 = n3
  q1 = q1
  q2 = q2
  x = x
  y = y
  mp = mp
  mq = mq
  c1 = c1
  k1 = k1
  k2 = k2
  ku = ku
  big = big
  None = None
  Chunks = {x, y}
  Nodes = {n1, n2, n3}
  Quorum = 2
  Requests = {q1, q2}
  Deletes = {}
  Uploads = {mp, mq}
  UploadKey <- MCUploadKey
  Declared <- MCDeclared
  Clients = {c1}
  MaxLate = 1
  MaxLost = 0
  MaxCrashes = 0
  Hashes = {q1, q2, big}
  Small = {q1, q2}
  Packs = {1, 2, 3}
  MaxRecords = 4
  MaxFaults = 2
SYMMETRY Symmetry
CHECK_DEADLOCK FALSE
INVARIANTS
  ReferencedKept
  PublicationsSound
PROPERTIES
  NodeRefines
