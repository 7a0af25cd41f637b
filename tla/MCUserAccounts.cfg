\* The ledger of one user: rows, locks and ledgers of different users never
\* meet. Three transactions let a third one act between two others; three
\* Mainnet requests compete for a grant of two credits.
\* Three requests of one user for keys and scopes, one funding wallet, faults
\* everywhere.
SPECIFICATION MCSpec
CONSTANTS
  None = None
  Users = {u1}
  Refs = {r1, r2, r3}
  Txs = {t1, t2, t3}
  INITIAL_CREDIT_GRANT = 2
  Requests = {k1, k2, k3}
  Funding = {f1}
  Old = old
  Faulty = TRUE
SYMMETRY Symmetry
INVARIANTS
  NeverOverdrawn
  LedgerExplainsBalance
  RegistrationRepairs
PROPERTIES
  BalanceAfterIsExact
  ImplementsAccount
  FundingNeverAdded
