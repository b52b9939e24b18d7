CONSTANTS
  Threads = {t1, t2, t3}
  Processes = {p1, p2}
  Null = Null
  kernel_directory = kernel_directory
  StackFrames = 2
  MaxId = 5
SPECIFICATION FairSpec
INVARIANTS
  FinishedLeaves
  TrapStackIsOwn
  StacksFollowThread
  CreateReturnsOwnId
  RingInvariant
PROPERTIES
  NeverResumed
  ImplementsReadyQueue
  EveryThreadRuns
  FinishedIsFreed
CHECK_DEADLOCK FALSE
