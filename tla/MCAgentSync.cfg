\* Two polls and one request, or one poll and two requests that keep coming.
\* The transaction of a poll may end at any time, also after its race is lost.
SPECIFICATION MCSpec
CONSTANTS
  p1 = p1
  p2 = p2
  m2 = m2
  Polls = {p1, p2}
  Managers = {m1, m2}
  None = None
  TX_TIMEOUT = 90
  REGISTER_AGENT_HTTP_TIMEOUT = 60
INVARIANTS
  AgentInvariant
PROPERTIES
  ExternalIdWrittenOnce
  EntryGoesFirst
  AgentSettles
CHECK_DEADLOCK FALSE
