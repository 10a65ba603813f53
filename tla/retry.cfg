SPECIFICATION Spec
CONSTANTS
  w1 = w1
  Lead = Lead
  Workers = {w1}
  Fenced = {w1}
  Says <- FewWords
  MaxTurns = 1
  MaxRounds = 2
  MaxConcurrent = 1
INVARIANT RetryRunsInItsSandbox
CHECK_DEADLOCK FALSE
