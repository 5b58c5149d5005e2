SPECIFICATION Spec
CONSTANTS
  Half <- MCHalf
  Tables <- MCTables
  Values <- MCValues
  Numbers <- MCNumbers
  Strings <- MCStrings
  Moments <- MCMoments
  Times <- MCTimes
  EchoColumns = {0}
  BitmapBits = 2
  MaxPacketSize = 22
INVARIANTS
  RowDecodes
  RefusalsJustified
