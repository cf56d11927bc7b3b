SPECIFICATION Safe
CONSTANTS
  Client = "ProgressPage"
  MaxRuns = 1
  Phases <- OriginsIsoPhases
INVARIANTS
  StopFindsWorker
CHECK_DEADLOCK FALSE
