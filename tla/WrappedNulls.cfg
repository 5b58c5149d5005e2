SPECIFICATION Spec
CONSTANTS
  Half <- MCHalf
  Tables <- MCNullTable
  Values <- MCWrappedNulls
  Numbers <- MCNumbers
  Strings <- MCStrings
  Moments <- MCMoments
  Times <- MCTimes
  EchoColumns = {0}
  BitmapBits = 2
  MaxPacketSize = 22
INVARIANTS
  NullsAreMapped
CHECK_DEADLOCK FALSE
