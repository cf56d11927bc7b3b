CONSTANTS
  Alignment = 3
  HeaderSize = 2
  RecordSize = 1
  MarkerSize = 2
  NameSize = 1
  ZlibSize = 1
  Count = 3
  Sizes = {0, 2}
  MaxReplaced = 1
  MaxMerged = 2
  Packed = {FALSE, TRUE}
  Origins = {FALSE, TRUE}
  Rooms = {FALSE, TRUE}
  Inputs <- MCInputs
SPECIFICATION Spec
INVARIANTS TypeOK LayoutDisjoint FilesKept MergedFollowTarget BadFollowNext
CHECK_DEADLOCK FALSE
