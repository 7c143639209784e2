SPECIFICATION SessionSpec
CONSTANTS
  MaxIn = 1
  MaxOut = 1
INVARIANT ZeroIsTheCommands
CHECK_DEADLOCK FALSE
