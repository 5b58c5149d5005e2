SPECIFICATION FairSpec
CONSTANTS
  U24_MAX = 2
  SeqModulus = 4
  MaxPacketSize = 4
  FirstSeq = {3}
  PayloadSize = {0, 1, 2, 3, 4, 5}
  MaxPackets = 2
INVARIANTS
  ReceivedAsSent
  RefusesOnlyBad
  LimitHolds
  EndIsClean
PROPERTIES
  PacketsArrive
CHECK_DEADLOCK FALSE
