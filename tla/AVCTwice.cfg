SPECIFICATION Spec
CONSTANTS
  Main = Main
  Rotators = {Monitor, Slider}
  BodyUnits = 2
  WriterMayFail = FALSE
  StartAlone = TRUE
  MaxSamples = 4
CHECK_DEADLOCK FALSE
INVARIANT OwnTimes
