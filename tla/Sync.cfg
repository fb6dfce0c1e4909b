CONSTANTS
  web = web
  idp = idp
  s1 = s1
  s2 = s2
  bad = bad
  Slugs = {s1, s2}
  Codes = {bad}
  ApiError = api
  NoCallback = nocallback
  Specs <- MCSpecs
  MaxIds = 2
  ListsStopped = FALSE
  FullPass = fullpass
  None = none
SPECIFICATION DigestSpec
INVARIANTS
  SyncTypeOK
  SettledIsTrue
PROPERTIES
  DroppedByOthersOnly
  AlertedOnce
  MissedAtMostOnce
CHECK_DEADLOCK FALSE
