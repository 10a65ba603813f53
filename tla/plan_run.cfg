SPECIFICATION FairSpec
CONSTANTS
  w1 = w1
  Lead = Lead
  Workers = {w1}
  Fenced = {}
  Says <- FewWords
  MaxTurns = 1
  MaxRounds = 2
  MaxConcurrent = 1
INVARIANTS SucceededRunIsProven NothingOutlivesTheRun
PROPERTIES HeldScopeWaits RunEnds
CHECK_DEADLOCK FALSE
