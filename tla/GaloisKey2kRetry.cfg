CONSTANTS
  M = 16
  StepSet <- MCSteps
  KeyIds = {0, 1}
  MaxS = 2
  Careful = FALSE
SPECIFICATION Spec
INVARIANT RotatedIsRight
