CONSTANTS
  TickMod = 14
  CountMod = 1000
  Period = 3
  BootCounts = 4
  PMMod = 14
  WaitCounts = 10
  WaitMs = 2
  MaxGap = 2
  MaxTime = 32
  Values = {v1, v2}
SPECIFICATION Spec
INVARIANTS
  CalibrationBounded
  WaitBounded
  SentWhenDue
  TasksSwitched
CHECK_DEADLOCK FALSE
