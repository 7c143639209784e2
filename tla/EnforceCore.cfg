SPECIFICATION FairSpec
CONSTANTS
  Principal = {p1}
  Conn = {c1, c2}
  UserMint = u
  BypassMint = b
  Issuer = {u, b}
  UserSerial = {1, 2}
  BypassSerial = {}
  FetchLimit = 1
  StrictThreshold = 1
  PerConnection = FALSE
  Faults = {}
  MaxUserSeq = 2
  MaxBypassSeq = 0
  MaxSeq <- MCMaxSeq
  None = None
INVARIANTS
  TypeOK
  NotAheadOfCA
PROPERTIES
  AppliedMeansDropped
  TargetReached
