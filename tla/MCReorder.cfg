SPECIFICATION Spec
CONSTANTS
  InitSize = 11
  Limit = 0
  MaxIncrease = 4
  MaxRef = 5
  FirstVars = 2
  MaxVars = 3
  LowChildren = {0, 4}
  MaxHandles = 2
  MaxExchanges = 2
  MaxReorders = 2
  MaxCalls = 4
INVARIANTS TableSound FunctionsKept OrderedUnlessLost Canonical
CHECK_DEADLOCK FALSE
