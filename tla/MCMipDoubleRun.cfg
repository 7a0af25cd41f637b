\* Two polls of one job, no fault.
SPECIFICATION Spec
CONSTANTS
  Polls = {p1, p2}
  Inputs = {i1, i2}
  None = None
  MAX_FAULTS = 0
INVARIANTS
  OneRunAtATime
CHECK_DEADLOCK FALSE
