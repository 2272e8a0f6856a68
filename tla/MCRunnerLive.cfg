\* Fair goroutines, scheduler and clock: the work goes on and shutdown ends.
SPECIFICATION FairSpec
CONSTANTS
  l1 = l1
  l2 = l2
  Loop = {l1, l2}
  LocalInterval = 1
  Interval = 1
  MaxHandlers = 1
PROPERTIES
  LocalCyclesRecur
  ShutdownEnds
