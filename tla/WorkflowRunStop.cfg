SPECIFICATION Spec
CONSTANTS
  n1 = n1
  n2 = n2
  Nodes <- OneNode
  NoNode = NoNode
  MaxNotices = 0
PROPERTY StopEndsListening
CHECK_DEADLOCK FALSE
