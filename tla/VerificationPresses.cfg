\* One member, two handles, two codes and two presses that may overlap; an hour is
\* three ticks, a minute and the life of a session one.
CONSTANTS
  Member = {m1}
  Handle = {h1, h2}
  Press = {p1, p2}
  MaxCodes = 2
  Minute = 1
  Hour = 3
  SessionTtl = 1
  PerMinute = 1
  PerHour = 2
SPECIFICATION Spec
SYMMETRY Symmetry
PROPERTIES
  RoleIsRemovedAfterLook
