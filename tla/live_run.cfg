SPECIFICATION FairSpec
CONSTANTS
  r1 = r1
  r2 = r2
  None = None
  Runs = {r1, r2}
  Fleets <- SolosAndPair
  Providers = {"e2b", "daytona"}
  Limit = 1
  KillRetries = 3
INVARIANTS SurvivorIsFenced EveryTurnIsMetered NoSandboxForgotten
PROPERTY SlotComesBack
CHECK_DEADLOCK FALSE
