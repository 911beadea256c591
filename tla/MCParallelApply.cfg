SPECIFICATION ParallelSpec
CONSTANTS
  InitSize = 11
  MaxRef = 3
  MinFree = 20
  MaxIncrease = 4
  Limits = {12, 13}
  MaxVars = 3
  VarNums = {}
  ReorderCalls = {}
  MaxNext = 40
  LowChildren = {}
  MaxHandles = 2
  MaxHeld = 1
  MaxStack = 0
  CacheSize = 3
  Script <- MCScript
INVARIANT ResultRight
CHECK_DEADLOCK FALSE
