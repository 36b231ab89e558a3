SPECIFICATION MCSpec
CONSTANTS
  j1 = j1
  Joins = {j1, j2}
  MaxSequence = 3
  MaxReplay = 1
  MaxProjection = 3
  MaxCopies = 1
  Unrecorded = {}
  Malformed = Malformed
  NoCursor = NoCursor
  None = None
INVARIANTS
  ReadyShowsAPrefix
  ReadyClientIsListening
PROPERTIES
  CursorNeverGoesBack
  EventsHandedAreShown
  EveryConnectionSettles
