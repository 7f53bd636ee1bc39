SPECIFICATION Spec
CONSTANTS
  x1 = x1
  NoValue = NoValue
  NoBar = NoBar
  Symbols <- OneSymbol
  LastMinute = 2
  Marks = {1, 2}
  Ivs = {3}
  MaxTicks = 2
  MaxFaults = 0
  MaxRestarts = 0
PROPERTY RowsOnlyGain
CHECK_DEADLOCK FALSE
