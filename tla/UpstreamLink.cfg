\* Links, attempts, promotions, and what main does when the gateway gives up.
SPECIFICATION FairSpec
CONSTANTS
  w1 = w1
  w2 = w2
  r1 = r1
  Creds = {w1, w2}
  Requests = {r1}
  Versions = {1, 2}
  None = None
  Backend <- MCBackend
  FailureLimit = 3
  MaxEvents = 2
  MaxGeneration = 1
  MaxRestarts = 1
  MaxErrors = 1
INVARIANTS
  TypeOK
  ExpectedDisconnection
  StatusFollowsLink
PROPERTIES
  ClearsRefusedOnly
  PromotesConnectedOnly
  RecoveryHandled
