SPECIFICATION FairSpec
CONSTANTS
  e1 = e1
  e2 = e2
  e3 = e3
  k1 = k1
  k2 = k2
  None = None
  Newline = Newline
  Events = {e1, e2, e3}
  KeyOf <- MCKeyOf
  LastDay = 2
  MaxFaults = 1
  MaxCrashes = 1
CHECK_DEADLOCK FALSE
INVARIANTS TypeOK Kept OneSpoiltPerFault
PROPERTY EndedDayCompressed
