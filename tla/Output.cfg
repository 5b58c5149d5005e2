SPECIFICATION FairSpec
CONSTANTS
  HeaderSize = 2
  U24_MAX = 2
  Capacities = {0, 4, 6}
  Thresholds = {0, 3}
  SocketRoom = 3
  RequestRoom = 1
  Replies <- MCReplies
  MaxCommands = 3
INVARIANTS
  SentInOrder
PROPERTIES
  RepliesArrive
CHECK_DEADLOCK FALSE
