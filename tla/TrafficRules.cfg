SPECIFICATION Spec
CONSTANTS
  None = None
  la = la
  LA = LA
  lb = lb
  com = com
  hyphen = hyphen
  empty = empty
  NoMessage = NoMessage
  ip1 = ip1
  ip2 = ip2
  ip3 = ip3
  zero = zero
  t1 = t1
  t2 = t2
  t3 = t3
  host = host
  upper = upper
  other = other
  portal = portal
  odd = odd
  req = req
  long = long
  blank = blank
  Ips = {ip1, ip2, ip3, zero}
  Refused = {zero}
  Spellings <- MCSpellings
  LabelsOf <- MCLabelsOf
  Lower <- MCLower
  EmptyLabel = empty
  IpCapacity = 2
  HostCapacity = 2
  PortalSpellings = {portal}
  Queries <- MCQueries
  Messages <- MCMessages
  TopicSize = 128
  PayloadSize = 4
  Texts <- MCTexts
  TextLength <- MCLength
  Blank = blank
  MaxVersion = 3
  Address <- MCAddress
INVARIANTS
  TypeOK
  RulesAsReported
PROPERTIES
  HandledExactly
  FailsForCause
  ResolvedOnlyIfPermitted
  RefusedOnlyIfBlocked
