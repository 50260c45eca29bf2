SPECIFICATION LiveSpec
CONSTANTS
  alice = alice
  bob = bob
  n1 = n1
  n2 = n2
  n3 = n3
  k1 = k1
  k2 = k2
  None = None
  h1 = h1
  h2 = h2
  Engines = {"primary", "backup"}
  First = "primary"
  Clients = {"client"}
  Retention = 1
  Window = 1
  MaxLog = 3
  MaxEpoch = 2
  MaxCrashes = 1
  Keys = {k1, k2}
  Threshold = 2
  Torn = Torn
  Nodes = {n1, n2, n3}
  Order <- Preference
  N = 2
  W = 1
  R = 2
  MaxEntries = 1
  Coordinators = {n1, n3}
  Repairing = FALSE
  MaxVersions = 2
  MaxReads = 0
  MaxOutages = 2
  MaxWrites = 3
  MaxFaults = 2
CHECK_DEADLOCK FALSE
PROPERTIES
  ReplicasCatchUp
