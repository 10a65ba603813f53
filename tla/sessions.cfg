SPECIFICATION Spec
CONSTANTS
  Runtimes = {"fake", "headless", "herdr"}
  Namings = {"name", "id"}
  MaxSessions = 3
  MaxEvents = 3
  MaxRestarts = 2
INVARIANTS StreamIsWhole BindingFollowsTheRecord EndedMeansStopped
PROPERTY RetiredStaysSilent
CHECK_DEADLOCK FALSE
