CONSTANTS
  Keys = {a, b}
  FullPass = fullpass
  None = none
  MaxEvents = 3
SPECIFICATION FairSpec
INVARIANTS
  TypeOK
  PendingHasTimer
  PipelineInv
  DrainedAtExit
PROPERTIES
  LostOnlyInFlight
  ImplementsSerialWork
  ShutdownTerminates
  OwedIsRun
