CONSTANTS
  Alignment = 3
  Sizes = {2, 3, 4}
  OldSize <- MCOldSize
  Room <- MCRoom
  MaxRuns = 2
SPECIFICATION Spec
INVARIANTS WritesFit NothingLost CheckedIsPatched
CHECK_DEADLOCK FALSE
