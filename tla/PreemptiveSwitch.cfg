SPECIFICATION FairSwitchSpec
CONSTANTS
  Workers = {w1, w2}
  MaxMsgs = 2
INVARIANTS
  QueuesKept
  CurrentTaskNamed
PROPERTIES
  AwakeRuns
