CONSTANTS
  Scenarios = {"exposure"}
  r1 = r1
  r2 = r2
  v1 = v1
  c1 = c1
  k1 = k1
  k2 = k2
  Orders = {r1, r2}
  Verifiers = {}
  Closers = {}
  Keys = {k1, k2}
  NoKey = NoKey
  Envs <- Assorted
  MaxOpen = 1
  MaxPending = 1
  MaxDaily = 2
  MaxFaults = 0
SPECIFICATION MCSpec
INVARIANTS OpenPositionsBounded
CHECK_DEADLOCK FALSE
