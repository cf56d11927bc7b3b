SPECIFICATION Safe
CONSTANTS
  Client = "MainFrame"
  MaxRuns = 2
  Phases <- OriginsIsoPhases
INVARIANTS
  StopFindsWorker
  StepProtocol
CHECK_DEADLOCK FALSE
