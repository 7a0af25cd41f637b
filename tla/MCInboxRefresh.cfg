\* Two owners list their inbox agents, whose requests meet no fault.
SPECIFICATION FairSpec
CONSTANTS
  p1 = p1
  p2 = p2
  p3 = p3
  u1 = u1
  u2 = u2
  None = None
  Posts = {p1, p2}
  Users = {u1, u2}
  Managers = {m1, m2}
  Author <- TwoAuthors
  INITIAL_CREDIT_GRANT = 1
  MAX_FAULTS = 0
PROPERTIES
  PendingRowsSettle
CHECK_DEADLOCK FALSE
