SPECIFICATION StudiesSpec
CONSTANTS
  Studies = {"document", "quota", "engine", "structure", "account", "backtest", "feed", "drawings", "preview",
             "history"}
  c1 = c1
  c2 = c2
  c3 = c3
  c4 = c4
  k1 = k1
  k2 = k2
  k3 = k3
  \* StateDocument
  Calls <- MCCalls
  MaxTries = 2
  MaxFaults = 1
  \* ResearchQuota
  Keys <- MCKeys
  DayLimit = 3
  MinuteLimit = 2
  Day = 4
  Minute = 2
  Cooldown = 3
  Horizon = 7
  \* ScalpEngine
  ChochWindow = 1
  BosWindow = 1
  GapWindow = 1
  RetestWindow = 2
  SweepCooldown = 2
  DuplicateWindow = 2
  H1Mode = "nonOpposite"
  MaxSweeps = 2
  \* MarketStructure
  Candles <- MCCandles
  Spread = 1
  EntryBars = 2
  ExitBars = 1
  WarmUp = 6
  \* SimAccount
  Bars <- MCBars
  LastBarIndex = 5
  InitialBalance = 200
  AskOver = 1
  BidUnder = 1
  Slip = 1
  Fee = 1
  Rate = 1
  LossDenominator = 10
  MarginOf = 1
  StopDistance = 4
  TargetDistance = 8
  MaxHold = 3
  RiskRules <- MCRules
  \* Backtest
  DayLength = 7
  WeekLength = 14
  Steps = {1, 4}
  FirstTime = 5
  LastTime = 16
  PeriodStart = 6
  StartingBalance = 100
  Results <- MCResults
  maxDailyTrades = 2
  dailyLossPercent = 9
  weeklyLossPercent = 12
  stopAfterLosses = 2
  cooldownBars = 1
  HigherLength = 4
  \* LiveFeed
  Symbols = {"EURUSD", "AAPL"}
  Forex = {"EURUSD"}
  Period = 1
  Bucket = 2
  Ttl = 1
  Patience = 1
  StaleAfter = 1
  BaseDelay = 1
  HiddenDelay = 3
  BackoffCap = 3
  Interventions = 2
  FeedHorizon = 3
  \* DrawingStudio
  Shapes = {1, 2}
  Foreign <- MCForeign
  MaxDrawings = 2
  MaxPoints = 2
  UndoLimit = 2
  FirstId = 1
  LastId = 3
  MaxSaves = 3
  \* RiskPreview
  Wishes <- MCWishes
  Settings <- MCSettings
  Instruments <- MCInstruments
  Quotes <- MCQuotes
  Ages <- MCAges
  Books <- MCBooks
  Directories <- MCDirectories
  Counts <- MCCounts
  Null = Null
  AccountId = 1
  PipsPerPrice = 10000
  MaxLots = 10
  MaxUnits = 1000
  MaxSpread = 3
  MaxAge = 3
  MaxOpenPositions = 1
  MaxPendingOrders = 1
  MaxDailyTrades = 5
  MaxRiskPercent = 27
  \* MarketHistory
  Resolution = 2
  PerRequest = 2
  LastCandle = 10
  Wanted = {2, 3, 9}
INVARIANTS StudiesTypeOK BusyMeansProgress BudgetsOfDay SetupsAccounted BreaksAreFirstCloses AccountSound EntriesKeepLimits FeedFollowsSelection AskedAgainOnlyAfterFailure ApprovedOrderIsCovered HistoryHasNoHole
PROPERTIES IsAtomic EditsAreReversible
\* Each study ends: its calls are made, its clock or its data are at their bound.
CHECK_DEADLOCK FALSE
