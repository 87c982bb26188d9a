CONSTANTS
  Base = 4
  BIT64 = 4
  BIT32 = 2
  PhiM = 2
  MaxObjects = 2
  MaxBytes = 60
  Objects <- MCObjects
SPECIFICATION Spec
INVARIANTS OpenFormsFramed NothingTornReturned
