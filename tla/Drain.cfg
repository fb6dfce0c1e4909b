CONSTANTS
  Stall = 3
  Ceiling = 7
  Efforts = {0, 1, 2, 3, 4}
  Hung = hung
  MaxJobs = 4
SPECIFICATION FairSpec
INVARIANTS
  TypeOK
  HealthyDrainsInFull
  SelfBounded
  HangCutPromptly
PROPERTY
  DrainEnds
