CONSTANTS
  k1 = k1
  k2 = k2
  k3 = k3
  Keys <- MCKeys
  DayLimit = 4
  MinuteLimit = 2
  Day = 6
  Minute = 2
  Cooldown = 3
  Horizon = 11
SPECIFICATION QuotaSpec
SYMMETRY AnyKey
INVARIANTS CooldownAlways
\* The clock stops at the horizon.
CHECK_DEADLOCK FALSE
