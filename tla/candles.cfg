SPECIFICATION FeedSpec
CONSTANTS
  Symbols = {"EURUSD", "AAPL"}
  Forex = {"EURUSD"}
  Period = 2
  Bucket = 4
  Ttl = 1
  Patience = 1
  StaleAfter = 1
  BaseDelay = 1
  HiddenDelay = 3
  BackoffCap = 3
  Interventions = 2
  FeedHorizon = 4
INVARIANT ClosedCandlesAreFinal
CHECK_DEADLOCK FALSE
