SPECIFICATION FairSpec
CONSTANTS
  r1 = r1
  r2 = r2
  r3 = r3
  k1 = k1
  k2 = k2
  w1 = w1
  w2 = w2
  n1 = n1
  n2 = n2
  n3 = n3
  None = None
  Anonymous = Anonymous
  Requests = {r1, r2, r3}
  Keys = {k1, k2}
  Workers = {w1, w2}
  Names = {n1, n2, n3}
  Batch = 2
  MaxFaults = 1
  MaxCrashes = 1
  KeyOf <- MCKeyOf
  WorkerOf <- MCWorkerOf
INVARIANTS TypeOK EachCountedOnce
PROPERTY SentIsRecorded
