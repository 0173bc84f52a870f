CONSTANTS
  Workers = {w1, w2}
  Requests = {q1, q2, q3, q4}
  Target <- MCTarget
  First = w1
  MaxQueue = 2
  None = None
SPECIFICATION Spec
INVARIANTS JobsExact
PROPERTIES AcceptedIsAnswered
CHECK_DEADLOCK FALSE
