SPECIFICATION FairSpec
CONSTANTS
  Session = {s1, s2, s3}
  Port = {a, b, c}
  Sample = 2
  Cap = 2
  Faults = {"raise", "die", "crash", "foreign"}
  None = None
INVARIANTS TypeOK OnePortEach NothingLeftBehind OwnSshd
PROPERTIES AcquireEnds
