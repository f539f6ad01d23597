SPECIFICATION FairSpec
CONSTANTS
  RingSize = 7
  MapSize = 2
  Kinds <- MCKinds
  Keys = {a, b}
  MaxReports = 3
INVARIANTS
  TransfersMatched
  KeyboardKept
PROPERTIES
  InitTaskFinishes
  ReportsGetTyped
CHECK_DEADLOCK FALSE
