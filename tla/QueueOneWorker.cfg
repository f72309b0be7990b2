\* One bot instance: faults at any point, no lock outlives its task.
CONSTANTS
  Worker = {w1}
  Handle = {h1, h2}
  AllScope = AllScope
  MaxJobs = 2
  BatchSize = 2
  MaxAttempts = 3
  RefreshEvery = 2
  MaxFaults = 3
  LostReplies = FALSE
  StaleWhileHeld = FALSE
SPECIFICATION Spec
SYMMETRY Symmetry
INVARIANTS
  ExclusiveClaims
  FinishedJobIsSettled
  OneActiveJobPerScope
PROPERTIES
  SettledItemsAreFinal
  FinishedJobsAreFinal
