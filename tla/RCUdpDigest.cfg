SPECIFICATION FairSpec
CONSTANTS
  NumTracks = 2
  UseTCP = FALSE
  Scheme = "Digest"
  Challenged = {"OPTIONS", "ANNOUNCE", "SETUP", "RECORD", "TEARDOWN"}
  Splits = TRUE
  MaxReports = 0
INVARIANTS TypeOK RoutesAgree
PROPERTIES SessionSpec ExchangesEnd
