CONSTANTS
  c1 = c1
  c2 = c2
  s1 = s1
  s2 = s2
  Document = Document
  Callers <- TwoCallers
  Segments <- TwoSegments
  Workers = 2
  MaxRequests = 5
SPECIFICATION Spec
CONSTRAINT Bounded
SYMMETRY Symmetry
INVARIANTS
  TypeOK
  OneTaskAtATime
  Retrievable
  KeysReleased
PROPERTY StaysRetrievable
CHECK_DEADLOCK FALSE
