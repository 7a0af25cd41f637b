\* A second poll registers the agent again.
SPECIFICATION Spec
CONSTANTS
  Polls = {p1, p2}
  Managers = {m1}
  None = None
  TX_TIMEOUT = 5
  REGISTER_AGENT_HTTP_TIMEOUT = 60
INVARIANTS
  RegisteredOnce
CHECK_DEADLOCK FALSE
