SPECIFICATION GateSpec
CONSTANTS
  c1 = c1  c2 = c2  c3 = c3  c4 = c4  c5 = c5
  ann = ann  Ann = Ann  bob = bob  ops = ops
  None = None
  Calls = {c1, c2, c3, c4, c5}
  Tokens = {ann, Ann, bob, ops}
  Use <- MCUse
  Does <- MCDoes
  Subject <- MCSubject
  Holder <- MCHolder
  Roles <- MCRoles
  Kind <- MCKind
  Reserved <- MCReserved
  Fold <- MCFold
  SingleUser = FALSE
  Triggers = TRUE
INVARIANTS ApprovedByAnother WorkNeedsApproval InboxIsActionable
PROPERTY DecisionIsFinal
CHECK_DEADLOCK FALSE
