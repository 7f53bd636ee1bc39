SPECIFICATION Spec
CONSTANTS
  x1 = x1
  x2 = x2
  s1 = s1
  s2 = s2
  c1 = c1
  c2 = c2
  NoMark = NoMark
  NoRow = NoRow
  NoThreshold = NoThreshold
  NoStrategy = NoStrategy
  NoCall = NoCall
  Symbols <- OneSymbol
  Strategies <- OneStrategy
  Calls <- TwoCalls
  Legs <- OneLeg
  Entry <- EntryAt2
  LotMargin = 1
  MaxLong = 1
  MaxShort = 1
  PartialFills = TRUE
  MaxTrades = 1
  Settings <- MayTurnOff
  Marks = {1}
  RowMarks <- MarkAbsent
  AbsThresholds = {1}
  PctThresholds = {}
  Debounce = 2
  HttpAttempts = 2
  MaxArms = 1
  MaxDisarms = 1
  MaxRestarts = 1
  MaxFaults = 0
SYMMETRY Interchangeable
INVARIANT TypeOK
INVARIANT FiresOnlyAfterDebounce
PROPERTY ExposureHeld
PROPERTY DisarmedIsNotTakenUp
CHECK_DEADLOCK FALSE
