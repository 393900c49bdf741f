SPECIFICATION Spec
CONSTANTS
  r1 = r1
  r2 = r2
  r3 = r3
  k1 = k1
  min = min
  hour = hour
  None = None
  Requests = {r1, r2, r3}
  ApiKeys = {k1}
  Discovery = {r3}
  Windows = {min, hour}
  MaxTime = 3
  KeyOf <- MCKeyOf
  MaxConcurrent <- MCMaxConcurrent
  Length <- MCLength
  Limit <- MCLimit
INVARIANT CountsInFlight
