\* Stations coming and going, client_access_start and address recovery.
SPECIFICATION Spec
CONSTANTS
  Clients = {c1, c2, c3}
  Addrs = {a1, a2}
  Sessions = {}
  Ttls = {}
  MaxConn = 2
  Stations = 1
  TickMod = 4
  Attempts = 1
  UplinkMayDrop = FALSE
  MaxClock = 0
  MaxEvents = 3
  MaxRemovals = 2
  None = None
SYMMETRY Symmetry
INVARIANTS
  TypeOK
  NoDuplicateMac
  NoClientMissed
  PhantomOnlyFromBoot
  AddressesSettle
PROPERTIES
  TurnedAwayByPhantoms
