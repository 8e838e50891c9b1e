SPECIFICATION Spec
CONSTANTS
  BroadcastType = "Audio"
  UseTCP = TRUE
  AutoRestart = FALSE
  FailStages = {"request"}
  MaxConnects = 2
  MaxTime = 3
INVARIANTS TypeOK NoLostWakeup
CHECK_DEADLOCK FALSE
