SPECIFICATION Spec
CONSTANTS
  InitSize = 11
  Limit = 0
  MaxIncrease = 4
  MaxRef = 5
  FirstVars = 2
  MaxVars = 3
  LowChildren = {0, 4}
  MaxHandles = 2
  MaxExchanges = 2
  MaxReorders = 1
  MaxCalls = 5
INVARIANT Ordered
CHECK_DEADLOCK FALSE
