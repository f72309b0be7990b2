\* The default policy: no daily cap, so no lock on an absent row.
CONSTANTS
  Handle = {h1, h2}
  User = {u1, u2}
  Request = {r1, r2}
  Admin = {a1, a2}
  Null = Null
  TargetMax = 0
  UserMax = 0
  Cooldown = FALSE
  MaxEvents = 3
SPECIFICATION Spec
SYMMETRY Symmetry
PROPERTY ProcessedIsFinal
