\* The default policy, two users who nominate one handle at once; calls fail, and
\* a reviewer refreshes while something is new.
CONSTANTS
  Handle = {h1}
  User = {u1, u2}
  Admin = {a1}
  Null = Null
  TargetMax = 0
  UserMax = 0
  Cooldown = FALSE
  MaxEvents = 2
  Worker = {w1}
  AllScope = AllScope
  MaxJobs = 4
  BatchSize = 1
  MaxAttempts = 1
  RefreshEvery = 2
  MaxFaults = 0
  LostReplies = FALSE
  StaleWhileHeld = FALSE
  Refreshes = TRUE
  CallsFail = TRUE
SPECIFICATION FairSpec
INVARIANT CountMatchesEvents
PROPERTY NominationsAreChecked
CHECK_DEADLOCK FALSE
