CONSTANT MaxIndex = 3
SPECIFICATION FairSpec
INVARIANTS TypeOK CachesCorrect LoopsRight ObserversCorrect
PROPERTIES IsASet Returns
