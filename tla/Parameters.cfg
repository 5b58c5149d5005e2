SPECIFICATION Spec
CONSTANTS
  Params = 3
  NullBits = 2
  UsedType <- MCUsedType
INVARIANTS
  NeverPanics
  ParametersAsSent
  AllConsumed
  HonestExecuteAccepted
