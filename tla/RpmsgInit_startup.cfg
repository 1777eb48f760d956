SPECIFICATION FairSpec
CONSTANTS
  t1 = t1
  t2 = t2
  t3 = t3
  Tasks <- MCTasks
  QueueLen = 2
  MayFail = TRUE
  HostKinds = {"init", "up", "echo", "message", "spurious"}
  MaxKick = 2
  MaxOther = 2
INVARIANTS TypeOK ReturnedReady SemKept
PROPERTIES AnsweredOnce HostAnswered
CHECK_DEADLOCK FALSE
