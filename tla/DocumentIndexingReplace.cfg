CONSTANTS
  c1 = c1
  c2 = c2
  Callers <- TwoCallers
  Ops <- ReplaceOps
  Workers = 1
  NParts = 1
  MaxRequests = 5
  Crashes = FALSE
SPECIFICATION Spec
CONSTRAINT OnlyOrphans
SYMMETRY Symmetry
INVARIANT ReplacedIsCleaned
CHECK_DEADLOCK FALSE
