\* One completion fails, and its user has reused the slot by then.
CONSTANTS
  User = {u1}
  Null = Null
  Tick = {p1}
  MaxTimers = 2
  MaxUser = 1
  MaxGuild = 2
  Limit = 2
  MaxFaults = 1
  Crashes = FALSE
SPECIFICATION FairSpec
PROPERTY TimersEnd
CHECK_DEADLOCK FALSE
