CONSTANTS
  j1 = j1
  j2 = j2
  w1 = w1
  w2 = w2
  None = None
  Orphan = Orphan
  Jobs = {j1, j2}
  Workers = {w1, w2}
  Versions = 1
  MaxAttempts = 2
  MaxActive = 2
  Holdout <- Overlapping
  MaxOps = 1
  MaxFaults = 1
SPECIFICATION FairSpec
INVARIANTS TypeOK UntouchedIsFirstUse TrialsFollowCursor OneRunPerJob
PROPERTIES RevokedTicksAreInert JobsEnd
\* The research may be over: every job completed, failed or retired.
CHECK_DEADLOCK FALSE
