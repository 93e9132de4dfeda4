SPECIFICATION Spec
CONSTANTS
  f = f
  g = g
  filtered = filtered
  builtin = builtin
  hidden = hidden
  Methods <- Mixed
  KindOf <- MixedKinds
  Handlers <- HandlerKinds
  MaxDepth = 3
  MaxSteps = 3
  MaxThrows = 1
SYMMETRY Symmetry
INVARIANTS TypeOK NeverTooLow StepOverIsNext StepBackIsPrevious StepOutIsCaller FramesAreTheStack
CHECK_DEADLOCK FALSE
