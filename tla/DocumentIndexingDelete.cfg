CONSTANTS
  c1 = c1
  c2 = c2
  Callers <- OneCaller
  Ops <- DeleteOnly
  Workers = 2
  NParts = 2
  MaxRequests = 1
  Crashes = FALSE
SPECIFICATION Spec
INVARIANT DeletedLeavesNothing
CHECK_DEADLOCK FALSE
