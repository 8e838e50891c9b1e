SPECIFICATION FairSpec
CONSTANTS
  BroadcastType = "AudioVideo"
  UseTCP = TRUE
  AutoRestart = TRUE
  FailStages = {"request", "setupAAC", "setupAVC", "record"}
  MaxConnects = 2
  MaxTime = 3
INVARIANTS NoUseAfterFree HeadInHand SentInOwnSession MuxOrder
PROPERTIES ConnectAnswered StopAnswered
