SPECIFICATION RoadSpec
CONSTANTS
  Coros = {a, b, c, d}
  MaxHold = 2
INVARIANTS
  RoadInv
PROPERTY EveryWaiterPasses
