SPECIFICATION Spec
CONSTANTS
  f = f
  g = g
  filtered = filtered
  builtin = builtin
  hidden = hidden
  Methods <- OnHidden
  KindOf <- OnHiddenKinds
  Handlers <- HandlerKinds
  MaxDepth = 3
  MaxSteps = 4
  MaxThrows = 1
INVARIANTS FramesLikeADebugger
CHECK_DEADLOCK FALSE
