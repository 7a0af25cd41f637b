\* Two pollers and two inputs of one job, one fault.
SPECIFICATION FairSpec
CONSTANTS
  Polls = {p1, p2}
  Inputs = {i1, i2}
  None = None
  MAX_FAULTS = 1
INVARIANTS
  NoWorkBeforePayment
  CompletedWasSubmitted
  PayersHaveJob
  AnswersKept
PROPERTIES
  JobsGetAnswered
CHECK_DEADLOCK FALSE
