SPECIFICATION Spec
CONSTANTS
  Services = {"session", "dry run", "journal"}
  Callers = {1, 2}
  Lifetimes = {2}
  LastTick = 2
  Mishaps = 2
  MaxTries = 3
  RouteFaults = 1
  \* CloudJournal
  Tabs = {1, 2}
  Entries <- MCEntries
  BatchSize = 1
  PageSize = 1
  MaxPages = 2
  MaxKept = 2
  LastRow = 3
  Upsets = 1
INVARIANTS TypeOK OneLoginOneOrder HistoryIsPath
PROPERTIES JournalsAgree ServiceRecovers
CHECK_DEADLOCK FALSE
