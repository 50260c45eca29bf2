SPECIFICATION LiveSpec
CONSTANTS
  b1 = b1
  b2 = b2
  d1 = d1
  d2 = d2
  w1 = w1
  w2 = w2
  o1 = o1
  o2 = o2
  a1 = a1
  a2 = a2
  a3 = a3
  s1 = s1
  s2 = s2
  t1 = t1
  t2 = t2
  NoTxn = NoTxn
  Bookings = {b1, b2}
  Days = {d1, d2}
  NightsOf <- MCNightsOf
  Quantity <- MCQuantity
  Declined = {b2}
  Limits = {1, 2}
  MaxFaults = 2
  Ops = {o1, o2}
  Workers = {w1, w2}
  MaxFailures = 2
  MaxRunFaults = 2
  MaxRetries = 1
CHECK_DEADLOCK FALSE
PROPERTIES
  TransfersSettle
  PaymentsSettle
