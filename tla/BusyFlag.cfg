SPECIFICATION MCSpec
CONSTANTS
  Size = 4
  TRBs = {a, b}
  Link = Link
  Zero = Zero
  Torn = Torn
  MaxInFlight = 2
  MaxPushes = 8
  SegmentSize = 3
  Events = {a, b}
  NoEvent = NoEvent
  MaxEvents = 6
PROPERTIES
  WriteClearsEHB
CHECK_DEADLOCK FALSE
