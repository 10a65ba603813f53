SPECIFICATION FairSpec
CONSTANTS
  s1 = s1
  s2 = s2
  s3 = s3
  k1 = k1
  k2 = k2
  a1 = a1
  a2 = a2
  Starts = {s1, s2, s3}
  Keys = {k1, k2}
  Attempts = {a1, a2}
  KeyOf <- RetryKeys
  AttOf <- SharedAttempt
  Workers = {w1, w2}
  Capacity = 1
  Flaky = TRUE
INVARIANT KeyRunsOnce
PROPERTY AcceptedRuns
CHECK_DEADLOCK FALSE
