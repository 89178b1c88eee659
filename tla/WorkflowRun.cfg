SPECIFICATION FairSpec
CONSTANTS
  n1 = n1
  n2 = n2
  Nodes <- TwoNodes
  NoNode = NoNode
  MaxNotices = 1
CONSTRAINTS Listening OneOrder FewNotices
VIEW View
INVARIANTS TypeOK EndedRunIsTerminal EndedRunIsSettled RaisesOnlyBeforeStart
PROPERTIES TerminalIsFinal ImplementsLifecycle PipelineEnds
CHECK_DEADLOCK FALSE
