CONSTANTS
  c1 = c1
  c2 = c2
  Callers <- TwoCallers
  Ops <- AllOps
  Workers = 2
  NParts = 2
  MaxRequests = 3
  Crashes = TRUE
SPECIFICATION Spec
CONSTRAINT Bounded
SYMMETRY Symmetry
INVARIANTS
  TypeOK
  CompletedMeansIndexed
  NothingLeftOfDeleted
  AtRestMeansSettled
PROPERTY CompletedStays
CHECK_DEADLOCK FALSE
