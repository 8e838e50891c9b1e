SPECIFICATION Spec
CONSTANTS
  MaxPayload = 5
  MaxAu = 5
  MinAu = 2
  TcpBuffer = 25
  Sizes = {5, 6, 7, 8}
  SeqMod = 6
  MaxDropout = 3
  MaxMisorder = 2
  MinSequential = 2
  FirstSeqs = {4}
  MaxPackets = 7
  MaxFlight = 2
INVARIANTS TypeOK PacketsFit Rebuilt IntactIsRebuilt ExtendedSpan LossNotOverstated
CHECK_DEADLOCK FALSE
