CONSTANTS
  M = 4
  PhimX <- MCPhimX
  Prime <- MCPrime
  Root <- MCRoot
  CtxtPrimes = {0, 1, 2}
  SpecialPrimes = {3}
  Digits <- MCDigits
  Ctxts = {a, b}
  Operands = {b}
  a = a
  b = b
  PtxtSpace = 3
  Messages <- MCMessages
  KeySamples <- MCKeys
  SmallSamples <- MCSmall
  SmallBound = 2
  ErrorSamples <- MCErrors
  ErrorBound = 1
  SystemStreams <- MCSystem
  Stream <- MCStreams
  Seeds = 8
  MaxKeys = 2
  MaxDegKswitch = 2
  MaxMatrices = 1
  XPowers = {3}
  MaxCalls = 4
SPECIFICATION Spec
INVARIANTS MatricesRight DecryptsRight
