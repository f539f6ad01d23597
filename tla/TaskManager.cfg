SPECIFICATION FairSpec
CONSTANTS
  MaxLevel = 2
  MaxTasks = 4
  Messages = {m}
  MaxMsgs = 1
  WakeLevels <- AllWakeLevels
INVARIANTS
  RunQueuesMatchTasks
  ProcessorFollowsQueues
  NoLostWakeup
PROPERTIES
  TimerPicksHighestLevel
  TopLevelRuns
