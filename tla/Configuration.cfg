\* One digest-like and one purge-like feature with two and one schedules, and one
\* without a job; one session, and two saves at a time.
CONSTANTS
  Feature = {"digest", "purge", "verification"}
  Scheduled = {"digest", "purge"}
  Jobless = {"verification"}
  LateValues = {"purge"}
  Choice <- TwoDigests
  Env <- EnvOfDigest
  Lists <- TwoLists
  Session = {s1}
  Press = {p1, p2}
SPECIFICATION Spec
SYMMETRY Symmetry
INVARIANTS
  JobsFollowRow
  SavesWhatWasChosen
PROPERTIES
  OnlyOwnSaves
