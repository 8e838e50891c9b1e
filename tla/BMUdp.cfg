SPECIFICATION FairSpec
CONSTANTS
  BroadcastType = "AudioVideo"
  UseTCP = FALSE
  AutoRestart = TRUE
  FailStages = {"request", "setupAAC", "initAAC", "setupAVC", "initAVC", "record"}
  MaxConnects = 2
  MaxTime = 1
INVARIANTS CallbackProtocol NoSessionLeak EncodersNeedBroadcast
PROPERTIES TimeoutEnds
