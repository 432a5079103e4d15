\* An MQTT connection made before the slots were switched.
SPECIFICATION Spec
CONSTANTS
  w1 = w1
  w2 = w2
  r1 = r1
  Creds = {w1, w2}
  Requests = {r1}
  Versions = {1, 2}
  None = None
  Backend <- MCBackend
  FailureLimit = 3
  MaxEvents = 2
  MaxGeneration = 3
  MaxRestarts = 0
  MaxErrors = 0
PROPERTIES
  PromotesAfterReconnect
