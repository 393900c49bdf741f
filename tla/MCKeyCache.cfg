SPECIFICATION Spec
CONSTANTS
  t1 = t1
  t2 = t2
  t3 = t3
  admin = admin
  client = client
  n1 = n1
  n2 = n2
  llama = llama
  None = None
  Threads = {t1, t2, t3}
  Keys = {admin, client}
  Admins = {admin}
  FirstKey = admin
  Names = {n1, n2}
  RuleLists <- MCRuleLists
  MaxFaults = 1
  MaxCrashes = 1
SYMMETRY Symmetry
INVARIANTS TypeOK StaleIsExplained
PROPERTIES AcceptsLive RefusesDead
