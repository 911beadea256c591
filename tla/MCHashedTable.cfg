SPECIFICATION Spec
CONSTANTS
  InitSize = 7
  MaxRef = 2
  MinFree = 20
  MaxIncrease = 4
  Limits = {12}
  MaxVars = 3
  VarNums = {3}
  ReorderCalls <- MCReorderCalls
  LowChildren = {0}
  MaxHandles = 1
  MaxHeld = 1
  MaxStack = 1
  MaxNext = 12
INVARIANT ChainsExact
PROPERTY ImplementsNodeTable
