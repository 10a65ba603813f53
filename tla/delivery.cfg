SPECIFICATION FairSpec
CONSTANTS
  d1 = d1
  d2 = d2
  d3 = d3
  x1 = x1
  x2 = x2
  owner = owner
  admin = admin
  Deliveries = {d1, d2, d3}
  Actions = {x1, x2}
  Principals = {owner, admin}
  ActionOf <- TwoActions
  PrincipalOf <- TwoCallers
  Bound = {d1, d2, d3}
INVARIANTS StreamIsSerial OneStandingRun StreamTellsTheStory
PROPERTY DeliveryEnds
CHECK_DEADLOCK FALSE
