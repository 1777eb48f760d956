SPECIFICATION FairSpec
CONSTANTS
  t1 = t1
  t2 = t2
  NoTask = NoTask
  AssignAny = AssignAny
  Tasks <- MCTasks
  Request <- MCRequest
  QueLen = 2
  MaxObjects = 2
  MaxReserved = 0
  NumBuf = 1
  Senders = {t2}
  Timeouts = {"zero"}
  IntrChoices = {TRUE}
  MaxPost = 1
  MaxSend = 2
PROPERTIES Delivered SemReleased
CHECK_DEADLOCK FALSE
