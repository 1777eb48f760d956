SPECIFICATION FairSpec
CONSTANTS
  cli = cli
  Wdt = Wdt
  acc = acc
  can = can
  Askers = {cli}
  Notifiers <- MCNotifiers
  Of <- MCOf
  MayHang = TRUE
INVARIANTS HostStopped NotifiedFirst
PROPERTY GoesDown
CHECK_DEADLOCK FALSE
