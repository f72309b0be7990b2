\* Two instances, and everything that can be late or lost: locks that go stale
\* under a live task, statements that commit although the caller sees an error.
CONSTANTS
  Worker = {w1, w2}
  Handle = {h1, h2}
  AllScope = AllScope
  MaxJobs = 1
  BatchSize = 2
  MaxAttempts = 2
  RefreshEvery = 2
  MaxFaults = 2
  LostReplies = TRUE
  StaleWhileHeld = TRUE
SPECIFICATION FairSpec
INVARIANTS
  AttemptsTellTasksApart
  NoEarlyFailure
PROPERTY JobsFinish
