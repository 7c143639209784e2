SPECIFICATION CrlSpec
CONSTANTS
  Revocable = {s1}
  FetchLimit = 2
  CrlFaults = {"crash", "torn", "short", "error"}
  MaxLines = 4
INVARIANTS
  CrlTypeOK
  InOrder
