CONSTANTS
  M = 3
  MaxKeys = 2
  MaxMatrices = 1
  MaxDegree = 1
  XPowers = {1, 2}
  SmallPrimes = {0}
  CtxtPrimes = {1, 2}
  SpecialPrimes = {3}
  Ctxts = {a, b}
  Operands = {b}
  a = a
  b = b
  MaxS = 1
SPECIFICATION Spec
INVARIANTS PartsOverPrimeSet PrimeSetValid NoAssertionFails
PROPERTIES RelinearizedIsCanonical
