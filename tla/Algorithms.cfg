CONSTANTS
  Polynomials <- MCPolynomials
  Factors <- MCFactors
  DigitInputs <- MCDigits
  Numbers <- MCNumbers
  Lengths <- MCLengths
  Chains <- MCChains
  Tables <- MCTables
  Windows <- MCWindows
  Graphs <- MCGraphs
  Queries <- MCQueries
  Groups <- MCGroups
  Signatures <- MCSignatures
  M = 16
  StepSet <- MCSteps
  KeyIds = {0, 1}
  MaxS = 2
  Careful = TRUE
SPECIFICATION MCSpec
INVARIANTS
  HandlesTrue RotationsAddUp
  EvaluationRight DigitsRight ComparisonRight ChainRight SizesReached
  MatchingsRight QueriesAnswered SlotsRight
CHECK_DEADLOCK FALSE
