SPECIFICATION MapsSpec
CONSTANTS
  t1 = t1
  t2 = t2
  Tasks = {t1, t2}
  NoTask = NoTask
  Levels = 2
  Half = 2
  PoolFrames <- MCFrames
  Base <- MCBase
  Addresses <- MCAddresses
  Contents <- MCContents
INVARIANTS
  MapsKept
  FaultsHandledAlone
PROPERTIES
  HandledMeansMapped
CHECK_DEADLOCK FALSE
