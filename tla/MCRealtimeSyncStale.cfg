\* One synchronization at a time, two events: a live event is dropped while the
\* older snapshot that follows it is awaited.
SPECIFICATION MCSpec
CONSTANTS
  j1 = j1
  Joins = {j1}
  MaxSequence = 2
  MaxReplay = 1
  MaxProjection = 2
  MaxCopies = 1
  Unrecorded = {}
  Malformed = Malformed
  NoCursor = NoCursor
  None = None
PROPERTY ReadyClientCatchesUp
