SPECIFICATION FairSpec
CONSTANTS
  Capacity = 6
  MaxWrite = 1
  MaxCells = 8
  Faults <- NoFaults
PROPERTIES URLAfterProgramEnds
CHECK_DEADLOCK FALSE
