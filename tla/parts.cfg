SPECIFICATION PartsSpec
CONSTANTS
  NoChoice = NoChoice
  MaxPreviews = 2
  MaxCloses = 1
  MaxFaults = 1
  NoQty = NoQty
  NoMark = NoMark
  Nothing = Nothing
  Expiries <- TwoExpiries
  Marks <- TwoChains
  Sides = {"buy", "sell"}
  Rights = {"C", "P"}
  QtyOf <- Quantities
  MaxLegs = 2
  NoStrategy = NoStrategy
  Strategies = {s1, s2}
  MaxSlCalls = 2
  MaxSlFaults = 1
  Symbols = {x, y}
  MaxCreates = 2
  MaxGroupFaults = 1
  Nobody = Nobody
  Selectable = {1, 2}
  Kinds = {"live", "paper"}
  Pnls <- LossAndProfit
  CurveCap = 3
  MaxHistory = 2
  MaxClock = 3
  Prices = {1, 2}
  MaxBars = 2
  Throttle = 2
  MinuteLength = 2
  MaxTime = 4
  MaxEdits = 2
  DefaultParams <- ShortPeriods
  Typed = {3, 4, 1002}
  NoValue = NoValue
  Levels = {1, 3}
  Periods = {1, 2}
  MaxTape = 5
  Unset = Unset
  ChordWindow = 1
  MaxNow = 3
  Keys = {"g", "p", "l", "/", "?", "Escape"}
  Listings <- Answers
  Panels = {"overview", "pnl"}
  FirstPanel = "overview"
  Positions = {1}
  LotsOf <- TwoLots
  NoEntry = NoEntry
  MaxMinute = 2
  MaxSamples = 2
  MaxWorkerFaults = 1
  Callers = {1, 2, 3}
  OrderPlacing = {3}
  NoCaller = NoCaller
  Unit = 2
  Capacity = 2
  MaxSteps = 5
  LevelPrices = {1, 2, 4}
  LevelSizes = {1, 2}
  MaxLevels = 3
  MaxOrder = 4
  ContractSize = 1
  Volumes = {0, 4, 100}
  ImpactPart = 2
  FloorPart = 4
INVARIANT PartsTypeOK
INVARIANT DraftOpensOnePosition
INVARIANT OpenedAsShown
INVARIANT ClosedIsDelisted
INVARIANT ExtremesBoundPayoff
INVARIANT BreakevensExact
INVARIANT ConsentIsForThisStrategy
INVARIANT SymbolInOneStrategy
INVARIANT CurveInOrder
INVARIANT GreenIffProfit
INVARIANT BarsOrdered
INVARIANT OverlaysMatchConfig
INVARIANT IndicatorsReadRight
INVARIANT SlicesCountedOnce
INVARIANT HistoryKept
INVARIANT RateHeld
INVARIANT FillsArePriced
PROPERTY LeavesOnlyOnPurpose
CHECK_DEADLOCK FALSE
