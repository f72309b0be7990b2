\* One event and two ticks at a time; half a tolerance is one unit.  The schedule
\* and an answer together take as long as a window is open, and the hours before
\* the start are shortened, so that the two windows overlap.
CONSTANTS
  Tick = {t1, t2}
  Starts = {6, 7}
  Horizon = 7
  Interval = 3
  Delay = 1
  Day = 4
  Hours = 3
  Tolerance = 2
  NoticeWindow = 5
  Retention = 5
  MaxMoves = 2
  MaxFaults = 1
  Never = Never
SPECIFICATION Spec
SYMMETRY Symmetry
INVARIANTS
  PostedOncePerClaim
  ClaimsAreKept
  RemindersComeInTime
CHECK_DEADLOCK FALSE
