\* One tab: two users with an agent each, who come, go and replace each other;
\* one user with two agents, who stays, a reload and a call that is lost or
\* throws. A badge with two payments, one of another agent and a purchase,
\* answers of two rows and a failed poll. A feed of six items, two of them
\* late, and a failed request.
SPECIFICATION MCSpec
CONSTANTS
  u1 = u1
  u2 = u2
  a1 = a1
  a2 = a2
  b1 = b1
  None = None
  Agents = {a1, a2, b1}
  Feeds = {}
  Polls = {}
  Servers = {}
  OldStates = {"RegistrationConfirmed"}
  MaxChanges = 0
  MaxFaults = 1
  Users = {u1, u2}
  Owner <- TwoOwners
  MaxTries = 1
  MaxSessions = 2
  MaxReloads = 1
  Payments = {t1, t2, x1}
  Purchases = {c1}
  Hidden = {x1}
  Limit = 2
  MaxTime = 5
  MaxDashboards = 0
  MaxActivities = 2
  Lifecycle <- LifecycleItems
  FeedPayments <- PaymentItems
  FeedPurchases <- PurchaseItems
  Late <- LateItems
  PAGE = 2
  LIST_LIMIT = 2
  FEED_LIMIT = 4
INVARIANTS
  TabInvariant
  BadgeInvariant
  FeedInvariant
PROPERTIES
  WaitIsReported
  ChangesArrive
CHECK_DEADLOCK FALSE
