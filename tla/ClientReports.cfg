\* Disconnect reports: a queue that fills, retries, and no addresses.
SPECIFICATION FairSpec
CONSTANTS
  Clients = {c1}
  Addrs = {}
  Sessions = {1, 2}
  Ttls = {1}
  MaxConn = 1
  Stations = 1
  TickMod = 2
  Attempts = 3
  UplinkMayDrop = FALSE
  MaxClock = 0
  MaxEvents = 2
  MaxRemovals = 3
  None = None
INVARIANTS
  ReportsAccounted
PROPERTIES
  SessionEndReported
  ReportLostOnlyAtLimits
  ReportsDrain
