SPECIFICATION Spec
CONSTANTS
  Requests = {r1, r2}
  Updaters = {}
  Workers = {w1, w2}
  Limits = {1}
  Default = 1
  Unset = Unset
  Alive = 1
  Interval = 1
  Day = 2
  MaxTime = 1
INVARIANT LimitRespected
CHECK_DEADLOCK FALSE
