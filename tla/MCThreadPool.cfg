SPECIFICATION FairSpec
CONSTANTS
  Null = Null
  Nobody = Nobody
  Client = Client
  NumWorkers = 2
  Coros = {a, b}
  Stops = {s}
  MaxJumps = 1
  MaxList = 2
INVARIANTS
  NothingIsLost
  ListsAreDisjointAndAlive
PROPERTIES
  TasksAheadOfPillAreExecuted
  StoppingTerminates
  SuspendedIsResumed
