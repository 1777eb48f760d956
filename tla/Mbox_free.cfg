SPECIFICATION FairSpec
CONSTANTS
  t1 = t1
  t2 = t2
  NoTask = NoTask
  Tasks <- MCTasks
  Chan = {0, 1}
  Wants <- Apart
  Sends <- First
  ApEarly = FALSE
  MaxTx = 2
  MaxRx = 1
  MaxStop = 1
  Tries = 1
  Frees = TRUE
PROPERTIES Received CallsEnd
CHECK_DEADLOCK FALSE
