SPECIFICATION Spec
CONSTANTS
  Workers = {w1}
  Messages = {e1}
  MaximumAttempts = 2
  Lease = 2
  BatchSize = 1
  RetryBase = 1
  RetryMaximum = 3
  None = None
INVARIANTS
  ExhaustedIsFailed
CHECK_DEADLOCK FALSE
