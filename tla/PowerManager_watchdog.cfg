SPECIFICATION FairSpec
CONSTANTS
  cli = cli
  Wdt = Wdt
  acc = acc
  can = can
  Askers = {cli}
  Notifiers <- MCNotifiers
  Of <- MCOf
  MayHang = TRUE
PROPERTY HangRebooted
CHECK_DEADLOCK FALSE
