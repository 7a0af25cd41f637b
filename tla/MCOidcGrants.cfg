\* A webapp and a device, two token requests; an admin, a revocation, a fault.
\* Two authorisations of the webapp. Two refreshes at once, of two logins; an
\* error and a death.
SPECIFICATION MCSpec
CONSTANTS
  f1 = f1
  f2 = f2
  s1 = s1
  s2 = s2
  s3 = s3
  None = None
  Scopes = {s1, s2, s3}
  Allowed = {s1, s2}
  Requests <- MoreScopes
  Flows = {f1, f2}
  Kind <- BothFlows
  Approvals = {p1}
  Exchanges = {e1, e2}
  MaxAdmin = 1
  MaxRevokes = 1
  MaxFaults = 1
  Refreshes = {r1, r2}
  MaxRows = 5
  MaxLogins = 2
  MaxErrors = 1
  MaxDeaths = 1
INVARIANTS
  OneTokenPerCode
  ConsentsAreHonoured
  RefreshInvariant
PROPERTIES
  AcceptedGetsItsToken
CHECK_DEADLOCK FALSE
