CONSTANTS
  c1 = c1
  c2 = c2
  Callers <- TwoCallers
  N = 3
  ResetAt = 5
SPECIFICATION FairSpec
INVARIANTS
  TypeOK
  NoConfigTwice
  UndisturbedNoneMeansAllCooling
PROPERTY CallsEnd
