SPECIFICATION Spec
CONSTANTS
  None = None
  NoUsage = NoUsage
  r1 = r1
  r2 = r2
  w1 = w1
  w2 = w2
  Requests = {r1, r2}
  Workers = {w1, w2}
  client = client
  admin = admin
  Keys = {client, admin}
  KeyRecord <- MCKeyRecord
  Asks <- MCFirstAny
  Profiles <- MCProfiles
  Replies <- MCReplies
  UserAuthentication = FALSE
CONSTRAINT MCBound
INVARIANTS TypeOK WithinPolicy ListsFaithful
PROPERTIES RightWorker RecordedOnce TokensAsRelayed
CHECK_DEADLOCK FALSE
