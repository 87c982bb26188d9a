CONSTANTS
  M = 5
  PhimX <- MCPhimX
  Prime <- MCPrime
  Root <- MCRoot
  CtxtPrimes = {0, 1}
  SpecialPrimes = {2}
  Digits <- MCDigits
  a = a
  b = b
  Objs = {a, b}
  Operands = {b}
  First <- MCFirst
  FirstSets <- MCFirstSets
  PrimeSets <- MCPrimeSets
  Polys <- MCPolys
  Nums <- MCNums
  Exps = {0, 2}
  Automorphisms = {2, 4, 5}
  PtxtSpaces = {1, 2, 3}
  Streams <- MCStreams
  MaxCalls = 2
SPECIFICATION Spec
INVARIANTS DigitsRight
PROPERTIES ImplementsRing
CHECK_DEADLOCK FALSE
