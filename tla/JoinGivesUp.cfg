\* One document, one start: a job longer than the join.
CONSTANTS
  d1 = d1
  d2 = d2
  d3 = d3
  Documents = {d1}
  Stop = Stop
  Nothing = Nothing
  Backends = {"memory", "redis"}
  Workers = 1
  MaxStarts = 1
SPECIFICATION Spec
INVARIANT AlwaysStoppedBeforeClosed
CHECK_DEADLOCK FALSE
