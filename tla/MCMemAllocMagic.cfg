CONSTANTS
  FRAME_SIZE = 128
  HeapBase = 768
  InitialFrames = 3
  MinFrames = 2
  MaxFrames = 6
  Requests <- MCRequests
  MaxLive = 3
SPECIFICATION Spec
INVARIANT HeaderMagicSet
CHECK_DEADLOCK FALSE
