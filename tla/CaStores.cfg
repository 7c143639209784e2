SPECIFICATION CaStoresSpec
SYMMETRY Interchangeable
CONSTANTS
  web = web
  ops = ops
  alice = alice
  chief = chief
  clerk = clerk
  Server = {web}
  Group = {ops}
  Key = {k}
  User = {alice}
  Admin = {chief, clerk}
  Tool = {t}
  FirstStore <- First
  Handler = {h1, h2}
  StoreFaults = {"save", "audit"}
  MaxChanges = 2
  MaxBoots = 1
  Interface = {wg0}
  Peer = {p1, p2}
  Network <- Networks
  Thread = {t1, t2}
  MaxKeypairs = 5
  AppendFaults = {"error", "crash"}
  MaxEntries = 5
  Intermediate = {user_mint}
  External = {x}
  Root = {r2}
  Worker = {w1, w2}
  CrashTears = TRUE
  MaxCaKeys = 3
  MaxSeconds = 1
  Revocable = {s1, s2}
  FetchLimit = 2
  CrlFaults = {"crash"}
  MaxLines = 4
  CertHandler = {c1, c2}
  Lifetime = 3
  Threshold = 1
  RenewalWindow = 2
  GracePeriod = 1
  RenewalFaults = {"crash", "reload", "append"}
  MaxMissed = 1
  MaxCerts = 3
  MaxDays = 4
INVARIANTS
  CaStoresTypeOK
  SuperuserRemains
  StoresConsistent
  AddressesUnique
  ReadsAgree
  VerifierTellsTheTruth
  KeyFilesSound
  HostKeepsItsCredential
  RevokedIsNotRenewed
PROPERTIES
  PolicyIdsNotReused
  FeedSpec
CHECK_DEADLOCK FALSE
