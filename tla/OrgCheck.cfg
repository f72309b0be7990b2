\* A membership and an existence check, one slot, starts two ticks apart, two
\* retries, two threads that may die before a third that may not.
CONSTANTS
  Call = {c1, c2}
  Caller = {c1, c2}
  Existence = {c2}
  MaxConcurrency = 1
  MinInterval = 2
  MaxRetries = 2
  MaxWorkers = 3
SPECIFICATION FairCheckSpec
CHECK_DEADLOCK FALSE
INVARIANTS
  ConcurrencyHolds
  OnlyCurrentLives
  RequestsAreAnswerable
  VerdictsAreOwn
PROPERTIES
  StartsAreSpaced
  ChecksEnd
