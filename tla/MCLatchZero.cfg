SPECIFICATION Spec
CONSTANTS
  Null = Null
  Closed = Closed
  Actors = {a, b, c}
  MaxCount = 2
  Decrements = {0, 1}
CHECK_DEADLOCK FALSE
INVARIANT NoUseAfterDestroy
