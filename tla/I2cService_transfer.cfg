SPECIFICATION FairSpec
CONSTANTS
  t1 = t1
  t2 = t2
  p1 = p1
  p2 = p2
  NoTask = NoTask
  Tasks <- MCTasks
  Ports = {p1}
  Nodes = {1}
  Uses <- Shared
  Lens = {3}
  ReadLens = {2, 3}
  Row = 2
  Fifo = 1
  RxFifo = 2
  RxMark = 1
  DoneMax = 2
  Finite = TRUE
  Causes = {"nack", "berr"}
PROPERTY CallsEnd
INVARIANTS MemoryInv ConfiguredForHolder NoForeignCompletion CompleteAndInOrder
CHECK_DEADLOCK FALSE
