CONSTANTS
  a = a
  b = b
  h1 = h1
  h2 = h2
  g1 = g1
  g2 = g2
  user = user
  t1 = t1
  t2 = t2
  embedded = embedded
  edge = edge
  Slugs = {a, b}
  Hosts = {h1, h2}
  Groups = {g1}
  Policies = {}
  Others = {}
  Titles = {t1}
  Outposts = {embedded, edge}
  Embedded = embedded
  HandApps <- MCHandApps
  MaxPK = 3
  Hand = hand
  None = none
  Labels <- MCLabels
  CreateGroups = FALSE
  MaxRuns = 2
  MaxPrunes = 1
SPECIFICATION FleetSpec
INVARIANT
  AttachedHasApplication
CHECK_DEADLOCK FALSE
