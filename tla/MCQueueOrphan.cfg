SPECIFICATION Spec
CONSTANTS
  t1 = t1
  t2 = t2
  t3 = t3
  p1 = p1
  p2 = p2
  w1 = w1
  m1 = m1
  None = None
  Tasks = {t1, t2, t3}
  Pollers = {p1, p2}
  Keys = {w1, m1}
  NodeKeys = {w1}
  Probes = {t2}
  KeyOf <- MCKeyOf
  Scan <- MCScan
CONSTRAINT MCBound
INVARIANT AnnouncedVisible
