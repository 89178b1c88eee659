SPECIFICATION FairSpec
CONSTANTS
  s = s  a = a  b = b  c = c  d = d  e = e  j = j  P = P  Q = Q  R = R
  Nodes <- NestedNodes
  Root = s
  None = None
  Alternatives <- NestedAlternatives
  ParallelOf <- NestedParallelOf
  EndTo <- NestedEndTo
  Workers = 2
  MaxSubmit = 3
  MaxSteps = 4
INVARIANTS TypeOK SubmitCountAccounts JoinWaitsForBranches SuccessMeansSuccess
  NodesRunOnce StepsOvershoot UpstreamIsDone
PROPERTIES RunEnds ImplementsGraphRun
CONSTRAINT TwoMishaps
CHECK_DEADLOCK FALSE
