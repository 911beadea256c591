CONSTANTS
  MaxVars   = 3
  Handles   = {1, 2}
  PairIdMax = 16
  SetIdMax  = 64
  Programs <- MCAppUni
SPECIFICATION Spec
CHECK_DEADLOCK FALSE
INVARIANT AppUniAsIfFresh
