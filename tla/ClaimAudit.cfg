SPECIFICATION AuditSpec
CONSTANTS
  AppendFaults = {"error", "crash"}
  MaxEntries = 5
INVARIANT RestIsMarkedToo
CHECK_DEADLOCK FALSE
