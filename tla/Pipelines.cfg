SPECIFICATION MCSpec
CONSTANTS
  v1 = v1
  v2 = v2
  x = x
  y = y
  w1 = w1
  w2 = w2
  h1 = h1
  h2 = h2
  r1 = r1
  r2 = r2
  s1 = s1
  s2 = s2
  f1 = f1
  f2 = f2
  c1 = c1
  c2 = c2
  a1 = a1
  a2 = a2
  e1 = e1
  e2 = e2
  t1 = t1
  t2 = t2
  d1 = d1
  d2 = d2
  x1 = x1
  l1 = l1
  l2 = l2
  l3 = l3
  q1 = q1
  u1 = u1
  u2 = u2
  k1 = k1
CHECK_DEADLOCK FALSE
INVARIANTS
  
  
  MetricsHold
  ClicksHold
  
  ScaleHolds
