SPECIFICATION SessionSpec
CONSTANTS
  MaxIn = 1
  MaxOut = 1
INVARIANT SignalIsTold
CHECK_DEADLOCK FALSE
