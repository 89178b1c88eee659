SPECIFICATION FairSpec
CONSTANTS
  NItems = 4
  Workers = 2
  MaxSubmit = 3
INVARIANTS
  TypeOK
  SuccessMeansNoFailure
  SuccessMeansAllDone
  OutputsAreTheirOwn
CONSTRAINT TwoMishaps
PROPERTIES NodeEnds ImplementsItemsRun
CHECK_DEADLOCK FALSE
