SPECIFICATION Spec
CONSTANTS
  NumTracks = 2
  UseTCP = TRUE
  Scheme = "Basic"
  Challenged = {"OPTIONS", "ANNOUNCE", "SETUP", "RECORD", "TEARDOWN"}
  Splits = FALSE
  MaxReports = 1
INVARIANTS RoutesAgree SessionCarried SocketClosedOnce

