SPECIFICATION FairSpec
CONSTANTS
  x1 = x1
  x2 = x2
  s1 = s1
  s2 = s2
  c1 = c1
  c2 = c2
  NoMark = NoMark
  NoRow = NoRow
  NoThreshold = NoThreshold
  NoStrategy = NoStrategy
  NoCall = NoCall
  Symbols <- OneSymbol
  Strategies <- OneStrategy
  Calls <- OneCall
  Legs <- OneLeg
  Entry <- EntryAt2
  LotMargin = 1
  MaxLong = 1
  MaxShort = 0
  PartialFills = TRUE
  MaxTrades = 0
  Settings <- OnlyEnabled
  Marks = {1}
  RowMarks <- MarkAbsent
  AbsThresholds = {1}
  PctThresholds = {}
  Debounce = 2
  HttpAttempts = 1
  MaxArms = 1
  MaxDisarms = 0
  MaxRestarts = 1
  MaxFaults = 1
INVARIANT ConfirmedStopIsWatched
PROPERTY FinishedIsFinal
PROPERTY CloseEnds
PROPERTY LastingBreachFires
CHECK_DEADLOCK FALSE
