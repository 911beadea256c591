SPECIFICATION Spec
CONSTANTS
  InitSize = 7
  MaxRef = 3
  MinFree = 20
  MaxIncrease = 4
  Limits = {8, 11}
  MaxVars = 3
  VarNums = {2, 3}
  ReorderCalls <- MCReorderCalls
  LowChildren = {0}
  MaxHandles = 2
  MaxHeld = 2
  MaxStack = 1
  MaxNext = 12
INVARIANTS TypeOK Canonical NoDanglingChild Ordered FreeListExact HeldNodesLive CountsExact VariablesPinned
PROPERTIES ProtectedGraphKept ErrorOnlyWhenFull
