SPECIFICATION Spec
CONSTANTS
  t1 = t1
  t2 = t2
  NoTask = NoTask
  Tasks <- MCTasks
  Chan = {0, 1}
  Wants <- Apart
  Sends <- Apart
  ApEarly = FALSE
  MaxTx = 2
  MaxRx = 2
  MaxStop = 1
  Tries = 2
  Frees = FALSE
INVARIANTS InOrder ReceptionOn
CHECK_DEADLOCK FALSE
