CONSTANTS
  Paks = 1
  Checks = {}
  MaxStarts = 2
  MaxCancels = 1
SPECIFICATION Spec
INVARIANTS RunsDoNotMeet
CHECK_DEADLOCK FALSE
