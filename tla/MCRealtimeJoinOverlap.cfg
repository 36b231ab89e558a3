\* Two joins at the same time: the one that fails leaves the room of the other.
SPECIFICATION Spec
CONSTANTS
  Joins = {j1, j2}
  MaxSequence = 1
  MaxReplay = 1
  MaxProjection = 1
  MaxCopies = 1
  Overlapping = TRUE
  Unrecorded = {}
  Malformed = Malformed
  NoCursor = NoCursor
SYMMETRY Invocations
INVARIANT AnsweredIsInRoom
CHECK_DEADLOCK FALSE
