SPECIFICATION Spec
CONSTANTS
  Transactions = {t1, t2}
  Matches = {m1}
  Users = {u1}
  Sides = {home, away}
  Keys = {k1}
  ActionsUpdateMatch = FALSE
  None = None
INVARIANT AcceptedMatchIsNotCancelled
CHECK_DEADLOCK FALSE
