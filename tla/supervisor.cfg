SPECIFICATION Spec
CONSTANTS
  p1 = p1
  p2 = p2
  t1 = t1
  t2 = t2
  t3 = t3
  m1 = m1
  m2 = m2
  None = None
  Hosts = {p1, p2}
  Tasks = {t1, t2, t3}
  Lanes = {m1, m2}
  MaxOpens = 3
  MaxKills = 1
  MaxStops = 1
  MaxLapses = 0
CHECK_DEADLOCK FALSE
SYMMETRY AnyOne
INVARIANT OneWriter
INVARIANT RefsAreCounted
PROPERTY CleanExit
