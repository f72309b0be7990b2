\* Completions and resets fail, the process dies, ticks overlap.
CONSTANTS
  User = {u1, u2}
  Null = Null
  Tick = {p1, p2}
  MaxTimers = 3
  MaxUser = 2
  MaxGuild = 2
  Limit = 2
  MaxFaults = 2
  Crashes = TRUE
SPECIFICATION FairSpec
INVARIANTS
  LimitsHold
  ClaimsAreExclusive
PROPERTIES
  CompletedIsFinal
  TimersEndUnlessFaulty
CHECK_DEADLOCK FALSE
