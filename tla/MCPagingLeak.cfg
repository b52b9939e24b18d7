CONSTANTS
  nframes = 16
  WordBits = 4
  Reservable = {1, 5}
  KernelFrames = 3
  InitialPages = 2
  MinPages = 1
  MaxPages = 5
SPECIFICATION Spec
INVARIANT FrameIsPhysical
CHECK_DEADLOCK FALSE
