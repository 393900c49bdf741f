SPECIFICATION FairSpec
CONSTANTS
  None = None
  NoUsage = NoUsage
  r1 = r1
  r2 = r2
  w1 = w1
  w2 = w2
  Requests = {r1}
  Workers = {w1, w2}
  client = client
  admin = admin
  Keys = {client, admin}
  KeyRecord <- MCKeyRecord
  Asks <- MCFirstTypical
  Profiles <- MCProfiles
  Replies <- MCReplies
  UserAuthentication = FALSE
PROPERTY EveryRequestEnds
CHECK_DEADLOCK FALSE
