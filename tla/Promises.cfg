CONSTANTS
  plain = plain
  Plain = {plain}
  Error = plain
  Array = plain
  Callbacks = {{"fulfilled"}, {"rejected"}}
  MaxPromises = 3
  MaxCalls = 2
  MaxInputs = 2
SPECIFICATION FairSpec
INVARIANTS ToldSo AllAgrees
PROPERTIES Implementation SettledInTurn
CHECK_DEADLOCK FALSE
