SPECIFICATION Spec
CONSTANTS
  Call = {"query", "execute", "execute_cursor", "fetch", "prepare", "init"}
  ClientCapabilities <- AllDialects
  ColumnCount = {0, 2}
  BackendStatus <- Reported
  DurableFlag <- Durable
  FetchLimit = {0, 1, 2}
  GivesUpWhenTorn = TRUE
  MaxResults = 3
  MaxRows = 2
INVARIANTS
  FetchBounded
  CursorStateTold
  ClientUnderstands
  CompletionIsDelivery
  SessionStatusTold
PROPERTIES
  DeliversResults
CHECK_DEADLOCK FALSE
