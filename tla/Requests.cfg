SPECIFICATION Spec
CONSTANTS
  Filler = 2
  MaxLength = 300
  Responses <- MCResponses
  Commands <- MCCommands
  Trailing <- MCTrailing
  AlteredTo = {0, 1, 25, 251, 252}
INVARIANTS
  HonestUnderstood
  NoByteIgnored
CHECK_DEADLOCK FALSE
