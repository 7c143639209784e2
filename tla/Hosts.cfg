SPECIFICATION HostsSpec
CONSTANTS
  Address = {"near", "far"}
  Channel = {"shell", "forward"}
  Weekday = 2
  DayLength = 4
  DefaultValidity = 2
  PolicyPool <- Pool
  MaxPolicies = 2
  Base = 8
  Text <- Texts
  Number <- Numbers
  FromHex <- Hexed
  Allowlist <- Declared
  Grants <- AskedGrants
  Login = {l1, l2}
  Call = {k1, k2}
  Endpoints = 2
  CertLifetime = 1
  MaxRows = 1
  MaxNow = 1
  MaxMints = 2
  MaxIn = 1
  MaxOut = 2
INVARIANTS
  HostsTypeOK
  TheSumOfThePolicies
  HoursAreTheirSpan
  CertsAreReadAsWritten
  AuthorizedForAReason
  DisallowedDiesOut
  ReturnTellsTheTruth
  StdinInOrder
PROPERTIES
  ClientReturns
CHECK_DEADLOCK FALSE
