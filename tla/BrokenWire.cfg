SPECIFICATION Spec
CONSTANTS
  Call <- QueryCall
  ClientCapabilities <- EofDialects
  ColumnCount = {2}
  BackendStatus <- Reported
  DurableFlag <- Durable
  FetchLimit = {0}
  GivesUpWhenTorn = FALSE
  MaxResults = 1
  MaxRows = 2
PROPERTIES
  BrokenWireSilent
CHECK_DEADLOCK FALSE
