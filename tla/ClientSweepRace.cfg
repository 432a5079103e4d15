\* An ALLOW between the sweep's clock reading and its critical section: one client, a tick counter that wraps.
SPECIFICATION FairSpec
CONSTANTS
  Clients = {c1}
  Addrs = {a1}
  Sessions = {1, 2}
  Ttls = {2}
  MaxConn = 1
  Stations = 1
  TickMod = 3
  Attempts = 1
  UplinkMayDrop = FALSE
  MaxClock = 4
  MaxEvents = 1
  MaxRemovals = 1
  None = None
PROPERTIES
  SweepDemotesExpiredOnly
