SPECIFICATION FairSpec
CONSTANTS
  Capacity = 3
  MaxWrite = 2
  MaxCells = 6
  Faults <- AllFaults
INVARIANTS IInv InOrder WholeLines
PROPERTIES ShutdownHalts
CHECK_DEADLOCK FALSE
