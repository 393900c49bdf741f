SPECIFICATION FairSpec
CONSTANTS
  t1 = t1
  t2 = t2
  t3 = t3
  w = w
  n1 = n1
  n2 = n2
  Threads = {t1, t2, t3}
  Names = {w}
  Nonces = {n1, n2}
  NameOf <- MCNameOf
  NonceOf <- MCNonceOf
INVARIANTS OneLife IndexNamesOne AliasNeedsEviction GhostsFromErrors
PROPERTIES SparesTheFresh GhostsLeave
CHECK_DEADLOCK FALSE
