\* Three callers, a limit of two sends in a window of one tick.
SPECIFICATION Spec
CONSTANTS
  Callers = {c1, c2, c3}
  MAX_ATTEMPTS = 2
  WINDOW = 1
  MAX_RETRIES = 2
  MAX_TIME = 2
  None = None
SYMMETRY Symmetry
INVARIANTS
  CounterBounded
  CountedSendsHappened
  ExhaustedNeedsResets
