SPECIFICATION MCSpec
CONSTANTS
  Null = Null
  Closed = Closed
  Frames = {f, g}
  Objs = {x, y}
  Actors = {a, b, c}
  MaxCount = 2
  Decrements = {1, 2}
  Threads = {t, u}
  GetTasks = {j, k, l}
  MaxHops = 1
  N = 2
  Subs = {s}
  Rounds = 2
  Starter = t
  Modes = {"all", "any"}
  MaxNotify = 3
  MaxAgain = 1
CHECK_DEADLOCK FALSE
INVARIANTS
  LogicalFrameSafe
  FrameDiesAfterLastUse
  NoFrameLeaks
  NothingDeadIsTouched
  NobodyPassesEarly
  LiveAwaiterOnly
  SubscriberIsInOneList
  MainGetsFreshInputs
  GetIsSafe
PROPERTIES
  BlockedConsumerIsWoken
  CancelledJoinReturns
  EveryWaiterReturns
  NotifiedIsResumed
  GetReturnsOrDeadlocks
