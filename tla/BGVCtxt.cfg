SPECIFICATION Spec
CONSTANTS
  Ctxts <- MCCtxts
  Params <- MCParams
  CtxtPrimes = {3}
  OtherPrimes = {7}
  Product <- MCProduct
  Messages = {1, 2}
  ErrorBound = 0
  SecondParts = {0, 1, 3}
  Factors = {3, 6}
  Summands <- MinusOne
  Scalars = {1}
  MaxNoise <- MCMaxNoise
CHECK_DEADLOCK FALSE
INVARIANTS
    EncryptsPtxt
  NoiseBounded
  DecryptsRight
  NothingFails
  HarmonyIsBest
