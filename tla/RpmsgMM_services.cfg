SPECIFICATION FairSpec
CONSTANTS
  Tasks <- MCTasks
  t1 = t1
  t2 = t2
  a1 = a1
  Sends <- OneAndAll
  mm = mm
  Peers = {a1}
  Applis = {a1}
  MaxRes = 4
  MaxCalls = 1
  MaxRx = 1
PROPERTY Served
INVARIANTS TableInv RegisteredIsKnown AcksMatch
CHECK_DEADLOCK FALSE
