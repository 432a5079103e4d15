\* A promotion interrupted between two NVS writes.
SPECIFICATION Spec
CONSTANTS
  Creds = {w1, w2}
  Requests = {r1, r2}
  Versions = {1, 2, 3}
  None = None
  Transactional = FALSE
  RetryLimit = 1
  MaxRestarts = 2
  MaxFailures = 2
PROPERTIES
  PromotionAtomic
