CONSTANTS
  Tried <- MCTried
  Blocks <- MCBlocks
  FleetGroups = {"staff"}
  MaxEdits = 2
  Absent = absent
SPECIFICATION Spec
INVARIANT
  ConflictAlerted
CHECK_DEADLOCK FALSE
