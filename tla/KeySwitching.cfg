CONSTANTS
  M = 9
  MaxKeys = 2
  MaxMatrices = 2
  MaxDegree = 2
  XPowers = {1, 2, 5}
SPECIFICATION FairSpec
INVARIANTS TypeOK MapLeadsHome NoDuplicates LookupCorrect MapRight
PROPERTY CallsReturn
