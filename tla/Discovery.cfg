CONSTANTS
  Tried <- MCTried
  Blocks <- MCBlocks
  FleetGroups = {"staff"}
  MaxEdits = 2
  Absent = absent
SPECIFICATION Spec
INVARIANTS
  LiveIsComplete
  EveryLabelCounts
  NothingSilent
CHECK_DEADLOCK FALSE
