SPECIFICATION MCSpec
CONSTANTS
  r1 = r1
  s1 = s1
  c1 = c1
  Requests = {r1, r2}
  Limit <- MCLimit
  Window = 2
  MaxRestarts = 2
  Contents = {o1}
  Callers = {c1, c2}
  NoContent = NoContent
  Sockets = {s1, s2}
  MaxAdapters = 2
INVARIANTS
  ContentIsNeverLost
  PromotedLeavesQuarantine
  BurstIsBounded
  MutationsAreCounted
  DatabaseClosesLast
PROPERTIES
  ApprovedStaysApproved
  TrafficAfterReadinessIsShared
  LimitedIsTemporary
  ActivationFollowsRedis
  ShutdownEndsWithoutClients
CHECK_DEADLOCK FALSE
