SPECIFICATION MCSpec
CONSTANTS
  Size = 4
  TRBs = {a, b}
  Link = Link
  Zero = Zero
  Torn = Torn
  MaxInFlight = 2
  MaxPushes = 8
  SegmentSize = 3
  Events = {a, b}
  NoEvent = NoEvent
  MaxEvents = 6
INVARIANTS
  NothingStuck
  InterrupterKept
PROPERTIES
  ImplementsQueue
  EverythingFetched
  ImplementsEventQueue
  EveryEventHandled
CHECK_DEADLOCK FALSE
