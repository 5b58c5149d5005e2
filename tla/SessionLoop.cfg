SPECIFICATION FairSpec
CONSTANTS
  StmtId = {s1, s2}
  NoStmt = NoStmt
  Param = {0}
  StatusFlag <- MCFlags
  DurableFlag <- MCDurable
  InitialStatus <- MCInitial
  BackendStatus <- MCStatuses
  ParamCount = {0}
  ClientCommand <- MCSessionCommands
  MaxPreparedStatements = 1
  MaxLongDataSize = 0
  MaxConnectionLongDataSize = 0
  ReadTimeoutSet = TRUE
  MaxOutstanding = 2

INVARIANTS
  TypeOK
  RepliesInOrder
  StatusViewAgrees
PROPERTIES
  RepliesKeepComing
  SilentClientDropped
CHECK_DEADLOCK FALSE
