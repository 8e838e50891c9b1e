SPECIFICATION Spec
CONSTANTS
  BroadcastType = "AudioVideo"
  UseTCP = FALSE
  AutoRestart = FALSE
  FailStages = {}
  MaxConnects = 1
  MaxTime = 0
INVARIANT SessionOutlivesWatchdog
