CONSTANTS
  Requests = {q1, q2, q3, bad}
  Invalid = {bad}
  Timeout <- MixedTimeouts
  MaxBatch = 2
  WaitUs = 1
  Capacity = 2
  MaxTime = 2
  None = None
SPECIFICATION Spec
INVARIANTS RequestsExact
PROPERTIES CircuitStaysOpen Completes
CHECK_DEADLOCK FALSE
