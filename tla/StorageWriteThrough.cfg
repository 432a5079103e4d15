\* NVS writes that take effect one by one, calls that fail, restarts.
SPECIFICATION Spec
CONSTANTS
  Creds = {w1, w2}
  Requests = {r1, r2}
  Versions = {1, 2, 3}
  None = None
  Transactional = FALSE
  RetryLimit = 1
  MaxRestarts = 2
  MaxFailures = 2
SYMMETRY Symmetry
INVARIANTS
  AcceptedSurvives
PROPERTIES
  NoVersionRollback
