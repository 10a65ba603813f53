SPECIFICATION Spec
CONSTANTS
  Procs = {p1, p2}
  Requests = {r1, r2}
  Tasks = {t1}
  PlanTasks = {t1}
  Keys = {k1, k2}
  Boxes = {}
  Modes = {"synthetic"}
  Calls <- SharedCalls
  TTL = 0
  MaxClock = 1
  Timely = FALSE
SYMMETRY Symmetric
INVARIANTS AdapterOncePerKey SucceededIsEvidenced TaskNeverStranded
PROPERTIES ReapedOnlyWhenGone LedgerSpec
