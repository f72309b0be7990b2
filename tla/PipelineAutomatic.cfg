\* Only the automatic enqueue, and nothing ever fails.
CONSTANTS
  Handle = {h1}
  User = {u1, u2}
  Admin = {}
  Null = Null
  TargetMax = 0
  UserMax = 0
  Cooldown = FALSE
  MaxEvents = 2
  Worker = {w1}
  AllScope = AllScope
  MaxJobs = 2
  BatchSize = 1
  MaxAttempts = 1
  RefreshEvery = 2
  MaxFaults = 0
  LostReplies = FALSE
  StaleWhileHeld = FALSE
  Refreshes = FALSE
  CallsFail = FALSE
SPECIFICATION FairSpec
PROPERTY NominationsAreChecked
CHECK_DEADLOCK FALSE
