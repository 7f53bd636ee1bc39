SPECIFICATION Spec
CONSTANTS
  x1 = x1
  x2 = x2
  s1 = s1
  s2 = s2
  c1 = c1
  c2 = c2
  NoMark = NoMark
  NoRow = NoRow
  NoThreshold = NoThreshold
  NoStrategy = NoStrategy
  NoCall = NoCall
  Symbols <- TwoSymbols
  Strategies <- OneStrategy
  Calls <- OneCall
  Legs <- TwoLegs
  Entry <- EntryAt2
  LotMargin = 1
  MaxLong = 1
  MaxShort = 0
  PartialFills = FALSE
  MaxTrades = 0
  Settings <- OnlyEnabled
  Marks = {1}
  RowMarks <- MarkAbsent
  AbsThresholds = {}
  PctThresholds = {50}
  Debounce = 1
  HttpAttempts = 1
  MaxArms = 1
  MaxDisarms = 0
  MaxRestarts = 0
  MaxFaults = 0
INVARIANT ClosedLegsAreFlat
CHECK_DEADLOCK FALSE
