SPECIFICATION FairSpec
CONSTANTS
  QueueLen = 8
  RvcLen = 2
  MaxInputs = 3
  MayFail = TRUE
  Slow = TRUE
INVARIANTS RestCamera RestGear TakeoverInv
PROPERTY Rests
CHECK_DEADLOCK FALSE
