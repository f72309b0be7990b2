\* One member, three sessions of which two within a window, two presses at a time,
\* one active order; a session is full with its first item.
CONSTANTS
  MaxOrders = 2
  Member = {m1}
  Null = Null
  Click = {}
  Flow = {f1, f2, f3}
  Submit = {s1, s2}
  RateLimit = 2
  OrderLimit = 1
  MaxItems = 1
  MaxModals = 1
SPECIFICATION Spec
SYMMETRY Symmetry
INVARIANTS
  OrdersWithinLimits
  RateLimitHolds
  ReservationsAreReleased
  OneOrderPerSession
