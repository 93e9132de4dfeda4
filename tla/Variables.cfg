SPECIFICATION Spec
CONSTANTS
  f = f
  g = g
  Classes = {f, g}
  Main = f
  Programs <- AllPrograms
  Indices = {0, 1}
  Names = {"x", "y", "p", "this"}
  MaxClock = 5
INVARIANTS ReadsHaveValues NamesAreClasses OwnVariables
PROPERTIES LinesAreTrue LineHasAssignments WatchesAreCurrent
CHECK_DEADLOCK FALSE
