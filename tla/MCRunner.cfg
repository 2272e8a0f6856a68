\* Every interleaving of web requests, timer, cycles, completions and shutdown,
\* while one goroutine may still be leaving when the next is started.
SPECIFICATION Spec
CONSTANTS
  l1 = l1
  l2 = l2
  Loop = {l1, l2}
  LocalInterval = 1
  Interval = 2
  MaxHandlers = 1
SYMMETRY LoopSymmetry
INVARIANTS
  IInv
  CompletionsKept
  SenderNeverBlocks
  LocalNeverForgotten
  StopsQuietly
PROPERTY NoEarlyObservation
