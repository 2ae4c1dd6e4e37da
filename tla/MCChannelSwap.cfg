SPECIFICATION MCSpec
SYMMETRY Symmetry
CONSTANTS
  Frames = {f1, f2, f3}
  Objects = {x, y}
  Consumers = {c}
  MaxReleased = 1
  IteratorsSurviveSwap = TRUE
  None = None
  Align = 4
  Initial = 8
  Sizes = {1, 20, 77}
  AlignOfR = 2
  SizeOfR = 2
  MaxLive = 4
  MaxChunks = 3
INVARIANT WorkerReportsToConsumer
