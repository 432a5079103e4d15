\* NVS commits that are atomic: the keys implement the two slots.
SPECIFICATION Spec
CONSTANTS
  Creds = {w1, w2}
  Requests = {r1, r2}
  Versions = {1, 2, 3}
  None = None
  Transactional = TRUE
  RetryLimit = 1
  MaxRestarts = 2
  MaxFailures = 2
SYMMETRY Symmetry
INVARIANTS
  TypeOK
  SlotsWhole
PROPERTIES
  ImplementsSlots
