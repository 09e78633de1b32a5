SPECIFICATION Spec
CONSTANTS
  Kinds = {"v2", "soft", "m15", "structure", "breakout"}
  Effects = {"missing", "gap", "quiet"}
  Horizon = 5
  Extras = 1
  Shapes <- MCShapes
  Past <- MCPast
  Slots = 8
  PerHour = 2
  Session = {6, 7, 8, 9}
  Scheduled = {9}
  Elections = {6}
  RegimeWarm = 2
  Cooldown = 3
  Lookback = 2
  SoftLookback = 3
  Channel = 1
  Spreads = {1, 3, 4}
  Window = 7
  WarmupFrom = 3
  PeriodStart = 7
INVARIANTS LedgerAndScanTypeOK RowIsEvaluation RightVerdictStays EntryWindowOpen SignalSpacing ReplayAgrees
PROPERTY DecidedTradesEnd
CHECK_DEADLOCK FALSE
