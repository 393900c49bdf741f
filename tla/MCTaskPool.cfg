SPECIFICATION FairSpec
CONSTANTS
  j1 = j1
  j2 = j2
  j3 = j3
  j4 = j4
  a = a
  b = b
  c = c
  d = d
  None = None
  Jobs = {j1, j2, j3, j4}
  Workers = {a, b, c, d}
  Core = 2
INVARIANTS TypeOK JobInOnePlace NoStrandedJob
PROPERTY JobsRun
