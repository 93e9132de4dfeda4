SPECIFICATION Spec
CONSTANTS
  t1 = t1
  t2 = t2
  x1 = x1
  Threads <- TwoThreads
  Objects <- OneObject
  MaxLines = 2
  MaxNesting = 2
  Faults <- OpenOnly
INVARIANTS ProgramUnaffected
