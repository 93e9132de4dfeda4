SPECIFICATION Spec
CONSTANTS
  Capacity = 4
  MaxWrite = 3
  MaxCells = 9
  Faults <- NoFaults
INVARIANTS TypeOK NothingLost OnlyLongLinesDisable
PROPERTIES ImplementsLineLog
CHECK_DEADLOCK FALSE
