SPECIFICATION MarketDataSpec
CONSTANTS
  x1 = x1
  NoValue = NoValue
  NoBar = NoBar
  Symbols <- OneSymbol
  LastMinute = 2
  Marks = {1, 2}
  Ivs = {}
  MaxTicks = 2
  MaxFaults = 2
  MaxRestarts = 1
  Channels = {"v2/ticker", "spot_price"}
  Ticker = "v2/ticker"
  Handlers = {"normalizer", "indexer"}
  HandlerOf <- TaskOf
  MaxFeedFaults = 2
  chain = chain
  paper = paper
  chainTable = chainTable
  row = row
  detail = detail
  None = None
  Topics <- TopicSet
  Views <- ViewSet
  Kept = {chain}
  TopicOf <- TopicOfView
  Sampled = {row}
  Fetched = {chain}
  Lapsing = {paper}
  LastVersion <- VersionBound
  MaxUp = 2
  MaxQueue = 1
  MaxDrops = 1
INVARIANT MarketDataTypeOK
INVARIANT BarsAreWhole
INVARIANT SavedRowsAreWhole
INVARIANT SessionAsDesired
INVARIANT SharedWhileMounted
PROPERTY BacklogDrains
PROPERTY TicksResume
PROPERTY EventuallyFresh
CHECK_DEADLOCK FALSE
