\* Two requests under way, twelve ticks, and a site whose schedule began at 7.
CONSTANTS
  Minute = 2
  Site <- SiteSchedule
  Epoch = 7
  Configs <- TwoConfigs
  Minutes = {1, 2}
  Request = {q1, q2}
  MaxNow = 12
SPECIFICATION Spec
CHECK_DEADLOCK FALSE
INVARIANTS
  FollowsSite
  ChangeIsAhead
PROPERTIES
  ChangesComeAsAnnounced
