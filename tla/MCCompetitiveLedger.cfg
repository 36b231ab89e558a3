SPECIFICATION Spec
CONSTANTS
  Transactions = {t1, t2, t3, t4}
  Matches = {m1}
  Users = {u1, u2}
  Sides = {home, away}
  Keys = {k1, k2}
  ActionsUpdateMatch = TRUE
  None = None
SYMMETRY Symmetry
INVARIANTS
  AcceptedMatchIsNotCancelled
  ReceiptsPairActions
  SideIsThatOfFirstAction
PROPERTIES
  LedgerClosesWithMatch
CHECK_DEADLOCK FALSE
