CONSTANTS
  Devices = {0, 1, 7, 8, 15}
  CounterRange = 2
SPECIFICATION FairSpec
INVARIANT NothingLeftInService
PROPERTIES SpuriousIffNoRequest TimerServed
