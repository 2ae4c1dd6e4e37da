SPECIFICATION FairSpec
CONSTANTS
  Null = Null
  NoThread = NoThread
  Nodes = {n1, n2, n3}
  Producers = {p1, p2}
  Consumers = {c1, c2}
  Drainers = {d1}
  MaxList = 2
INVARIANTS
  NoLostWakeup
  ListsPartitionLiveNodes
PROPERTIES
  ImplementsAbstractQueue
  EveryQueuedNodeIsResumed
