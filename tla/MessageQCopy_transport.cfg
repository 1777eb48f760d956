SPECIFICATION Spec
CONSTANTS
  t1 = t1
  t2 = t2
  NoTask = NoTask
  AssignAny = AssignAny
  Tasks <- MCTasks
  Request <- MCRequest
  QueLen = 2
  MaxObjects = 2
  MaxReserved = 0
  NumBuf = 2
  Senders = {t2}
  Timeouts = {"zero"}
  IntrChoices = {FALSE}
  MaxPost = 2
  MaxSend = 1
INVARIANTS TypeOK Exclusive NoLeak CriticalSection QueueHasRoom EndpointsOwned RingsKept
PROPERTY ImplementsChannel
CHECK_DEADLOCK FALSE
