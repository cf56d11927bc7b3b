SPECIFICATION Spec
CONSTANTS
  Client = "ProgressPage"
  MaxRuns = 1
  Phases <- MemoriesWiiPhases
INVARIANTS
  TypeOK
  OneStepOutstanding
  NoReentrancy
  StopNeverLost
PROPERTIES
  ImplementsPatchRun
  StopEndsRun
  RunEnds
  ThreadReaped
CHECK_DEADLOCK FALSE
