SPECIFICATION Spec
CONSTANTS
  t1 = t1
  x1 = x1
  d1 = d1
  d2 = d2
  d3 = d3
  Attempts = {t1}
  Actions = {x1}
  AttemptOf <- OneAction
  Deliveries = {d1, d2, d3}
  ActionOf <- SameAction
  MaxCrashes = 2
SYMMETRY Redelivery
INVARIANT RunsOnce
PROPERTIES FenceIsLedger AnswersFollowTheRow
CHECK_DEADLOCK FALSE
