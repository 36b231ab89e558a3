SPECIFICATION MCSpec
CONSTANTS
  r1 = r1
  r2 = r2
  r3 = r3
  c1 = c1
  c2 = c2
  k1 = k1
  k2 = k2
  m1 = m1
  flag = flag
  Requests = {r1, r2, r3}
  Cleaners = {c1, c2}
  Keys = {k1, k2}
  Matches = {m1}
  Actions = {flag, mosaic}
  MatchOf <- OneMatch
  Retention = 1
  CleanupLimit = 1
  Horizon = 1
  None = None
INVARIANTS
  ContiguousSequences
  AcceptedIsDurable
  RefusalIsJustified
PROPERTIES
  RetryWithinRetentionIsSafe
  ImplementsActionLog
  EveryRequestSettles
CHECK_DEADLOCK FALSE
