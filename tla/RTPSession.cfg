SPECIFICATION Spec
CONSTANTS
  Me = 1
  Peers = {3, 4}
  DbSize = 2
  MinTime = 1
  MembersPerTick = 3
  ByeDelay = 0
  SmallSession = 2
  MaxByes = 3
  SrFrom = {3}
  Blocks = {}
  Byes = {1, 3}
  Overlap = FALSE
CHECK_DEADLOCK FALSE
INVARIANTS
  DatabaseConsistent OwnEntryStays ReportsAboutKnown SendersCounted
PROPERTIES
  SilentForgotten ByeLeaves
