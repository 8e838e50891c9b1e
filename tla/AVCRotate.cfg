SPECIFICATION Spec
CONSTANTS
  Main = Main
  Rotators = {Timer}
  BodyUnits = 2
  WriterMayFail = TRUE
  StartAlone = TRUE
  MaxSamples = 4
CHECK_DEADLOCK FALSE
INVARIANTS
  TimeForEveryFrame WholeFrames StopIsComplete
PROPERTIES
  FrameQueueSpec FramesDelivered
