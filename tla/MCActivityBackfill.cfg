\* One agent. Two feeds in two processes and one change;
\* a feed and a badge of one process, two changes and a fault.
SPECIFICATION MCSpec
CONSTANTS
  f1 = f1
  f2 = f2
  s1 = s1
  Agents = {a1}
  Feeds = {f1, f2}
  Polls = {}
  Servers = {s1, s2}
  None = None
  OldStates = {"RegistrationRequested", "RegistrationConfirmed"}
  MaxChanges = 1
  MaxFaults = 0
INVARIANTS
  BackfillsOnce
  VerifiedEventsTrue
PROPERTIES
  EventsShown
CHECK_DEADLOCK FALSE
