SPECIFICATION FairSpec
CONSTANTS
  s = s  a = a  b = b  c = c  d = d  e = e  j = j  P = P  Q = Q  R = R
  Nodes <- NestedNodes
  Root = s
  None = None
  Alternatives <- TwoNestsAlternatives
  ParallelOf <- TwoNestsParallelOf
  EndTo <- TwoNestsEndTo
  Workers = 2
  MaxSubmit = 6
  MaxSteps = 7
PROPERTY TimeLimitEndsRun
CHECK_DEADLOCK FALSE
