SPECIFICATION Spec
CONSTANTS
  N = 4
  Handlers <- MCHandlers
  Default = "rugged"
  Immortals <- MCImmortals
  SizeOf <- MCSizeOf
  Caps <- MCCaps
  Requests <- MCGapRequests
  Gaps = TRUE
  MaxCalls = 3
  MaxReorders = 1
  AutoMethods = {"sift"}
  MaxTimes = 1
INVARIANT KeptTogether
CHECK_DEADLOCK FALSE
