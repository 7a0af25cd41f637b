\* Three requests of two users for one slug, an owner who refreshes,
\* deregisters and deletes, and one fault.
SPECIFICATION Spec
CONSTANTS
  p1 = p1
  p2 = p2
  p3 = p3
  u1 = u1
  u2 = u2
  None = None
  Posts = {p1, p2, p3}
  Users = {u1, u2}
  Managers = {m1}
  Author <- ThreeAuthors
  INITIAL_CREDIT_GRANT = 1
  MAX_FAULTS = 1
INVARIANTS
  SlugInvariant
  ChargeMatchesOutcome
  NoUnnoticedOrphan
PROPERTIES
  OwnerNeverChanges
CHECK_DEADLOCK FALSE
