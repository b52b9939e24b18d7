CONSTANTS
  Threads = {t1, t2}
  Processes = {p1}
  Null = Null
  kernel_directory = kernel_directory
  StackFrames = 4
  MaxId = 2
SPECIFICATION Spec
INVARIANT HeaderMagicHolds
CHECK_DEADLOCK FALSE
