SPECIFICATION MCSpec
CONSTANTS
  w1 = w1
  w2 = w2
  s1 = s1
  s2 = s2
  m1 = m1
  Workers = {w1, w2}
  Consumers = {w1, w2}
  Slots = {s1, s2}
  HomeOf <- Homes
  Effects = {e1}
  Messages = {m1, m2}
  MaximumAttempts = 2
  Lease = 2
  BatchSize = 2
  RetryBase = 1
  RetryMaximum = 3
  JobAttempts = 3
  MaximumStalls = 1
  MaxInterruptions = 2
  NoEffect = NoEffect
  None = None
INVARIANTS
  PublishedWasDelivered
  OneHolderWhileTimely
  CompletedTookEffect
  GivenUpOnlyWhenExhausted
  AlarmsAreTrue
  DatabaseOutlivesItsUsers
PROPERTIES
  EveryMessageSettles
  EveryJobSettles
  GracefulStopEnds
CHECK_DEADLOCK FALSE
