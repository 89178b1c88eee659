SPECIFICATION Spec
CONSTANTS
  Requests = {r1, r2}
  Updaters = {u1}
  Workers = {w1, w2}
  Limits = {0, 1}
  Default = 1
  Unset = Unset
  Alive = 1
  Interval = 0
  Day = 2
  MaxTime = 3
CONSTRAINT UpdatedEarly
SYMMETRY Symmetry
INVARIANTS TypeOK DeadRequestsExpire SlotsAreOwned
PROPERTY SlotsLast
\* Every request is answered and the clock is bounded: the system stops.
CHECK_DEADLOCK FALSE
