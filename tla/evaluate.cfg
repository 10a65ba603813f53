SPECIFICATION Spec
CONSTANTS
  unit = unit  script = script  hidden = hidden  lint = lint
  c1 = c1  c2 = c2
  None = None
  Checks = {unit, script, hidden, lint}
  Tasks <- MCTasks
  Kind <- MCKind
  Held = {hidden}
  Random = {hidden}
  Absolute = {script}
  Backend = "host"
  Sqlite = TRUE
  Declares <- MCDeclares
  MaxContent = 1
  MaxTests = 2
INVARIANTS PassIsEarned PassDescribesTheRevision SuccessIsCovered VerifyTellsTheTruth
CHECK_DEADLOCK FALSE
