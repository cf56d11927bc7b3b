CONSTANTS
  Paks = 2
  Checks = {"CheckData", "CheckPaks", "CheckImage"}
  MaxStarts = 2
  MaxCancels = 2
SPECIFICATION Spec
INVARIANTS CancelHasARun AbortReachesThread OnlyCallsMeet
PROPERTIES CancelEndsRun
CHECK_DEADLOCK FALSE
