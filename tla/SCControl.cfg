CONSTANTS
  Throttle = 2
  GiveUp = 2
  RestartDelay = 2
  MaxRequests = 1
  MaxTimers = 2
  MaxInbox = 2
SPECIFICATION Spec
INVARIANTS ShownAsLive StopIsHeard
PROPERTY ButtonComesBack
