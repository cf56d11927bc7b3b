SPECIFICATION Spec
CONSTANT PakCount = 3
INVARIANTS
  OnlyRebuiltWritten
  CompletedMeansDone
  PasterOutlivesUse
  TempFilesGone
PROPERTY StopEndsRun
CHECK_DEADLOCK FALSE
