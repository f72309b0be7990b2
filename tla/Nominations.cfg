\* Both daily caps and the cool-down are on; two reviewers.
CONSTANTS
  Handle = {h1, h2}
  User = {u1, u2}
  Request = {r1, r2}
  Admin = {a1, a2}
  Null = Null
  TargetMax = 1
  UserMax = 1
  Cooldown = TRUE
  MaxEvents = 2
SPECIFICATION Spec
SYMMETRY Symmetry
INVARIANTS
  CapsHold
  ToldAtMostOnce
PROPERTIES
  CooldownHolds
  ProcessedIsFinal
  ImplementsLifecycle
