SPECIFICATION Spec
CONSTANTS
  StmtId = {s1, s2}
  NoStmt = NoStmt
  Param = {0}
  StatusFlag <- MCFlags
  DurableFlag <- MCDurable
  InitialStatus <- MCInitial
  BackendStatus <- MCOneStatus
  ParamCount = {0}
  ClientCommand <- MCCursorCommands
  MaxPreparedStatements = 2
  MaxLongDataSize = 0
  MaxConnectionLongDataSize = 0
  ReadTimeoutSet = FALSE
  MaxOutstanding = 2
SYMMETRY MCSymmetry
INVARIANTS
  CursorsAgree
  CursorViewAgrees
  StatementViewAgrees
CHECK_DEADLOCK FALSE
