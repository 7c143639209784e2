SPECIFICATION FairSpec
CONSTANTS
  Principal = {p1}
  Conn = {c1}
  UserMint = u
  BypassMint = b
  Issuer = {u, b}
  UserSerial = {1}
  BypassSerial = {}
  FetchLimit = 1
  StrictThreshold = 1
  PerConnection = FALSE
  Faults = {"net", "lossy", "reset", "crash"}
  MaxUserSeq = 3
  MaxBypassSeq = 0
  MaxSeq <- MCMaxSeq
  None = None
PROPERTIES DurableSeqsOnlyFallWithCache SyncTerminates
