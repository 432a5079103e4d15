SPECIFICATION Spec
CONSTANTS
  None = None
  la = la
  LA = LA
  lb = lb
  com = com
  hyphen = hyphen
  empty = empty
  k1 = k1
  k2 = k2
  ip1 = ip1
  ip2 = ip2
  ip3 = ip3
  gateway = gateway
  host = host
  sub = sub
  other = other
  upper = upper
  odd = odd
  Conns <- MCConns
  Server <- MCServer
  ISN <- MCISN
  Ips <- MCIps
  Refused <- MCRefused
  Spellings = {host, upper, sub, other, odd}
  LabelsOf <- MCLabelsOf
  Lower <- MCLower
  EmptyLabel = empty
  Hosts <- MCHosts
  Spelled <- MCSpelled
  Ech = 40
  Malformed = 41
  MaxHello = 4
  Streams <- MCStreams
  Cuts <- MCCuts
  Hello <- MCHello
  Commands <- MCCommands
  IpCapacity = 2
  HostCapacity = 2
  FlowCapacity = 1
  InspectTimeout = 1
  DecisionTimeout = 2
  StreamLimit = 7
  ChunkSize = 2
  ClockMod = 8
  SeqNumMod = 16
  BootClock = 6
  MaxClock = 8
INVARIANTS
  TypeOK
  SegmentationInvisible
PROPERTIES
  BlockedHelloIncomplete
  PermittedNotBlocked
  ExpiryExact
  RefusedOnlyWhenFull
CHECK_DEADLOCK FALSE
