SPECIFICATION Spec
CONSTANTS
  StmtId = {s1, s2}
  NoStmt = NoStmt
  Param = {0, 1}
  StatusFlag <- MCFlags
  DurableFlag <- MCDurable
  InitialStatus <- MCInitial
  BackendStatus <- MCOneStatus
  ParamCount = {1, 2}
  ClientCommand <- MCLongDataCommands
  MaxPreparedStatements = 2
  MaxLongDataSize = 2
  MaxConnectionLongDataSize = 3
  ReadTimeoutSet = FALSE
  MaxOutstanding = 1
SYMMETRY MCSymmetry
INVARIANTS
  LongDataAccounted
  LongDataBounded
  LongDataAddressed
PROPERTIES
  PendingErrorSticks
CHECK_DEADLOCK FALSE
