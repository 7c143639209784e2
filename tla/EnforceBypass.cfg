SPECIFICATION Spec
CONSTANTS
  Principal = {p1, p2}
  Conn = {c1}
  UserMint = u
  BypassMint = b
  Issuer = {u, b}
  UserSerial = {1}
  BypassSerial = {1}
  FetchLimit = 2
  StrictThreshold = 1
  PerConnection = TRUE
  Faults = {"crash", "disk"}
  MaxUserSeq = 2
  MaxBypassSeq = 1
  MaxSeq <- MCMaxSeq
  None = None
PROPERTIES
  DurableAppliedMeansDropped
SYMMETRY MCSymmetry
