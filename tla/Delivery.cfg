SPECIFICATION MCSpec
CONSTANTS
  al = al
  bo = bo
  d1 = d1
  d2 = d2
  i1 = i1
  i2 = i2
  i3 = i3
  k1 = k1
  k2 = k2
  m1 = m1
  m2 = m2
  p1 = p1
  p2 = p2
  c1 = c1
  c2 = c2
  r1 = r1
  r2 = r2
  s1 = s1
  s2 = s2
  w1 = w1
  w2 = w2
  t1 = t1
  t2 = t2
  g1 = g1
  g2 = g2
  x = x
  y = y
  ev = ev
CHECK_DEADLOCK FALSE
INVARIANTS
  ChatHolds
  LeaderboardHolds
  NotificationsHold
  
  MailHolds
  LinksHold
