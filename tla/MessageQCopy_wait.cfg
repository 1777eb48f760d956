SPECIFICATION Spec
CONSTANTS
  t1 = t1
  t2 = t2
  NoTask = NoTask
  AssignAny = AssignAny
  Tasks <- MCTasks
  Request <- MCRequest
  QueLen = 2
  MaxObjects = 2
  MaxReserved = 0
  NumBuf = 1
  Senders = {t1, t2}
  Timeouts = {"finite", "forever"}
  IntrChoices = {TRUE, FALSE}
  MaxPost = 1
  MaxSend = 1
INVARIANTS NoLeak WaitersCounted
CHECK_DEADLOCK FALSE
