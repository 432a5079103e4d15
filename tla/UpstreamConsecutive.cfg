\* Credential failures with another failure between them.
SPECIFICATION Spec
CONSTANTS
  w1 = w1
  w2 = w2
  r1 = r1
  Creds = {w1, w2}
  Requests = {r1}
  Versions = {1, 2}
  None = None
  Backend <- MCBackend
  FailureLimit = 3
  MaxEvents = 2
  MaxGeneration = 2
  MaxRestarts = 0
  MaxErrors = 0
PROPERTIES
  ClearsAfterConsecutive
