\* One order, and three buttons pressed at a time on its posts.
CONSTANTS
  MaxOrders = 2
  Member = {m1}
  Null = Null
  Click = {c1, c2, c3}
  Flow = {f1}
  Submit = {s1}
  RateLimit = 1
  OrderLimit = 1
  MaxItems = 1
  MaxModals = 1
SPECIFICATION Spec
SYMMETRY Symmetry
INVARIANT QuietPostsAreTrue
PROPERTY OrdersFollowLifecycle
