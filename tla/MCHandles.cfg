SPECIFICATION Spec
CONSTANTS
  MaxVars = 3
  FirstSlot = 10
  Objects <- MCObjects
  Vectors <- MCVectors
  Programs <- MCPrograms
INVARIANTS HeldAlive CountsAreHolders LoadRestores
CHECK_DEADLOCK FALSE
