CONSTANTS
  M = 5
  MaxKeys = 1
  MaxMatrices = 2
  MaxDegree = 1
  XPowers = {2, 3}
  SmallPrimes = {}
  CtxtPrimes = {1}
  SpecialPrimes = {2}
  Ctxts = {a, b}
  Operands = {b}
  a = a
  b = b
  MaxS = 2
SPECIFICATION FairSpec
INVARIANTS OneComesFirst
PROPERTIES AutomorphApplied CallsReturn
