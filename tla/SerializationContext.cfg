CONSTANTS
  Base = 4
  BIT64 = 4
  BIT32 = 2
  PhiM = 2
  MaxObjects = 1
  MaxBytes = 40
  Objects <- MCContexts
SPECIFICATION Spec
INVARIANT ClosedFormsReadBack
