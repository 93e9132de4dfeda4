SPECIFICATION Spec
CONSTANTS
  Capacity = 4
  MaxWrite = 2
  MaxCells = 7
  Faults <- LateOnly
INVARIANTS AlwaysWholeLines
CHECK_DEADLOCK FALSE
