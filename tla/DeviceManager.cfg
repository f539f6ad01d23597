SPECIFICATION Spec
CONSTANTS
  PoolSize = 1100
  MaxSlots = 2
  Bases = {1, 200, 240, 8100}
  EntrySize = 1
  RingSize = 64
  ErstSize = 2
  DevCtxSize = 128
  InputCtxSize = 132
  Alignment = 8
  Page = 512
  Segment = 8192
  Endpoints = 1
  MaxEnables = 3
  MaxDetaches = 2
INVARIANTS
  MemoryKept
  DevicesKept
CHECK_DEADLOCK FALSE
