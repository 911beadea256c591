CONSTANTS
  MaxVars    = 4
  MaxBlocks  = 4
  MaxVectors = 4
  MaxBits    = 6
  Programs <- MCPrograms
SPECIFICATION Spec
CHECK_DEADLOCK FALSE
INVARIANTS VectorsRight CountsMatch DomainsRight BlocksApart
