\* Every kind of request, a credential of another agent and a fault. A user
\* with two reviews, a second submission and two faults.
SPECIFICATION MCSpec
CONSTANTS
  Issues = {i1, i2}
  i1 = i1
  Checks = {c1}
  Reconciles = {n1}
  Verifies = {v1}
  Foreign = {f1}
  None = None
  MaxSecrets = 2
  MaxChanges = 0
  MaxFaults = 1
  Submits = {s1}
  Polls = {q1}
  Hooks = {h1}
  MaxAnswers = 2
  MaxSubmits = 2
  MaxKycFaults = 2
INVARIANTS
  CredentialInvariant
  KycInvariant
PROPERTIES
  KeepsPromise
  AcceptedResolves
  AnswerIsFound
CHECK_DEADLOCK FALSE
