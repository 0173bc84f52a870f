CONSTANTS
  Workers = {w1}
  Requests = {q1, q2}
  Target <- MCTarget
  First = w1
  MaxQueue = 1
  None = None
SPECIFICATION Spec
PROPERTIES StopReturns
CHECK_DEADLOCK FALSE
