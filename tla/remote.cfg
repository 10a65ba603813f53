SPECIFICATION FairSpec
CONSTANTS
  Procs = {p1, p2}
  Requests = {r1}
  Tasks = {t1}
  PlanTasks = {}
  Keys = {k1}
  Boxes = {b1, b2}
  Modes = {"synthetic"}
  Calls <- AllCalls
  TTL = 0
  MaxClock = 1
  Timely = TRUE
PROPERTIES ReapedEffectsStopped OrphanSettles
