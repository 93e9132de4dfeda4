CONSTANTS
  Nodes <- MCNodes
  Pages <- MCPages
  Body = 1
  Root = 2
  White = {2}
  MaxRanges = 2
SPECIFICATION Spec
INVARIANTS RangesHold SelectionIsExact HighlightsCover TextIsKept
CHECK_DEADLOCK FALSE
