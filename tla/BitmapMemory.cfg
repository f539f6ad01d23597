SPECIFICATION Spec
CONSTANTS
  FrameCount = 6
  MemoryMaps <- SmallMaps
  HeapFrames = 2
  Requests = {1, 2, 3}
  MaxDescriptors = 2
INVARIANTS
  BlocksAreDisjoint
  MapReflected
  UnavailableOnlyBehindMap
PROPERTIES
  AllocateIsFirstFit
CHECK_DEADLOCK FALSE
