SPECIFICATION Spec
CONSTANTS
  Fan = fan
  Rival = rival
  Accounts = {fan, rival}
  Modalities = {battery, mosaic, flag}
  MaxLevel = 2
  MaxTotalLevel = 3
  RngScale = 2
  MaxXpPerAction = 4
  MaxSafe = 6
  Horizon = 3
  None = None
  LevelsPerSkillPoint = 2
  MaxSkillPoints = 1
  SideOf <- MCSideOf
  Rules <- MCRules
  Intervals <- MCIntervals
SYMMETRY Symmetry
INVARIANTS
  XpIsConserved
  ProjectionsFitTheContract
PROPERTIES
  CooldownOutlivesTheMatch
CHECK_DEADLOCK FALSE
