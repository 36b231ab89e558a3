\* Two joins one after the other; four events, the first without an outbox row,
\* and a replay window of two.
SPECIFICATION Spec
CONSTANTS
  Joins = {j1, j2}
  MaxSequence = 4
  MaxReplay = 2
  MaxProjection = 3
  MaxCopies = 1
  Overlapping = FALSE
  Unrecorded = {1}
  Malformed = Malformed
  NoCursor = NoCursor
SYMMETRY Invocations
INVARIANTS
  NothingMissed
  SnapshotsAreConsistent
  AnswersNeverGoBack
CHECK_DEADLOCK FALSE
