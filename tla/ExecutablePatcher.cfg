CONSTANTS
  Align = 2
  Pointer = 2
  FileSize = 18
  MaxRuns = 2
  Sizes = {0, 1, 2, 3}
  Segments <- MCSegments
  Patches <- MCPatches
SPECIFICATION Spec
INVARIANTS StringsApart PointersLead NothingLeftOver
CHECK_DEADLOCK FALSE
