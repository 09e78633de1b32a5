CONSTANTS
  Scenarios = {"twins", "recover"}
  r1 = r1
  r2 = r2
  v1 = v1
  c1 = c1
  k1 = k1
  k2 = k2
  Orders = {r1, r2}
  Verifiers = {v1}
  Closers = {}
  Keys = {k1}
  NoKey = NoKey
  Envs <- Assorted
  MaxOpen = 3
  MaxPending = 2
  MaxDaily = 2
  MaxFaults = 2
SPECIFICATION MCFairSpec
INVARIANTS OncePerKey WriteAhead GuardsHold KnownOrderNotRepeated
PROPERTIES RecoveredPositionRecorded
\* Each request is made once: without verifiers the system stops when all have ended.
CHECK_DEADLOCK FALSE
