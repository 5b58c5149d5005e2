SPECIFICATION FairSpec
CONSTANTS
  ServerCapabilities <- AllCapabilities
  Responses <- ClientResponses
  ExpectedPlugin <- Plugin
  RejectsWithoutDb = {TRUE, FALSE}
  MaxFrames = 2
INVARIANTS
  AuthenticatedFirst
  ClientFollows
  HonestNotRefused
  OneVerdict
  RefusalsTold
PROPERTIES
  HandshakeEnds
  HonestClientServed
CHECK_DEADLOCK FALSE
