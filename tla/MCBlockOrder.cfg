SPECIFICATION Spec
CONSTANTS
  N = 4
  Handlers <- MCHandlers
  Default = "rugged"
  Immortals <- MCImmortals
  SizeOf <- MCSizeOf
  Caps <- MCCaps
  Requests <- MCRequests
  Gaps = FALSE
  MaxCalls = 4
  MaxReorders = 1
  AutoMethods = {"sift"}
  MaxTimes = 1
INVARIANTS BlocksTogether BlocksKept NeverWorse FixedKept OrdersAsAsked TimesRespected
PROPERTY Terminates
CHECK_DEADLOCK FALSE
