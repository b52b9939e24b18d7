CONSTANTS
  FRAME_SIZE = 128
  HeapBase = 768
  InitialFrames = 3
  MinFrames = 2
  MaxFrames = 6
  Requests <- MCRequests
  MaxLive = 3
SPECIFICATION Spec
INVARIANTS
  Tiled
  Coalesced
  TreeIndexesFree
  UsedCounts
  LiveOwnsBlock
  EndBounds
PROPERTIES
  OthersUndisturbed
  FailsOnlyAtLimits
CHECK_DEADLOCK FALSE
