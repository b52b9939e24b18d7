CONSTANTS
  nframes = 10
  WordBits = 4
  Reservable = {1, 6, 8, 12}
  KernelFrames = 3
  InitialPages = 2
  MinPages = 1
  MaxPages = 4
  Processes = {p1, p2}
  Kernel = Kernel
  None = None
  NumTables = 4
  FirstKernelTable = 1
  HeapTable = 2
  TablePages = 2
SPECIFICATION SpacesSpec
SYMMETRY Symmetry
INVARIANTS UsedCounts MappedIsSet FrameExclusive KernelSpaceShared TranslationsSound
PROPERTY CloneHasFrame
CHECK_DEADLOCK FALSE
