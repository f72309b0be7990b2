\* The same guild; the seed on joining against an administrator who saves.
CONSTANTS
  Feature = {"digest", "purge", "verification"}
  Scheduled = {"digest", "purge"}
  Jobless = {"verification"}
  LateValues = {"purge"}
  Choice <- TwoDigests
  Env <- EnvOfDigest
  Lists <- TwoLists
  Session = {s1}
  Press = {p1, p2}
SPECIFICATION Spec
PROPERTIES
  NoSeedOverRow
