SPECIFICATION MCSpec
CONSTANTS
  a1 = a1
  b1 = b1
  b2 = b2
  s1 = s1
  s2 = s2
  r1 = r1
  r2 = r2
  r3 = r3
  e1 = e1
  Accounts <- MCAccounts
  Shards = {s1, s2}
  ShardFor <- MCShardFor
  Opening <- MCOpening
  Intents <- MCIntents
  ShardOrder <- MCOrder
  Txns = {t1, t2}
  NoTxn = NoTxn
  MaxTransfers = 2
  DeadAfter = 2
  MaxEpoch = 2
  MaxCrashes = 2
  MaxRetries = 1
  Replicas = {r1, r2, r3}
  Quorum = 2
  Events = {e1, e2}
  NoRow = NoRow
  MaxLog = 2
  MaxJournalEpoch = 2
  MaxJournalCrashes = 2
SYMMETRY Symmetry
CHECK_DEADLOCK FALSE
INVARIANTS
  AllOrNothing
  BooksBalance
  NoInternalError
PROPERTIES
  StepsFinal
  JournalRefines
