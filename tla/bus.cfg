SPECIFICATION FairBus
CONSTANTS
  i1 = i1
  p1 = p1
  All = All
  Ids = {i1, i2}
  Chans = {c1, c2, c3}
  Pubs = {p1, p2, p3}
  To <- OneBroadcast
  Cap = 1
INVARIANT OkMeansAccepted
PROPERTY PublishEnds
CHECK_DEADLOCK FALSE
