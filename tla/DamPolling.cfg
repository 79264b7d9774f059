SPECIFICATION Spec
CONSTANTS
  Source = {s1, s2}
  Event = {e1, e2}
  Live = {s1}
  None = None
  Overlap = 3
  FirstWindow = 1
  Limit = 1
  Interval = 3
  Slow = 1
  Delay = 1
  MaxTime = 4
INVARIANTS GapsOnlyFromQueries AtMostThrice
SYMMETRY Names
CHECK_DEADLOCK FALSE
