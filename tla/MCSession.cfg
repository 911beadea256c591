CONSTANTS
  MaxVars   = 3
  Handles   = {1, 2}
  PairIdMax = 4
  SetIdMax  = 5
  Programs <- MCPrograms
SPECIFICATION Spec
CHECK_DEADLOCK FALSE
INVARIANTS
  AnswersAsIfFresh OperationsRight CountsRight WitnessesRight NodesOrdered TablesSound
