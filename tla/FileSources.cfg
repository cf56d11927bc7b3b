SPECIFICATION ReaderSpec
CONSTANTS
  Chunks = {1, 2, 3, 7}
  Patched <- MCPatched
  DataSize = 5
  Fonts <- MCFonts
  FontSizes = {1, 2, 3}
  Align = 2
  Page = 4
INVARIANTS OutputRight AllIsRead
PROPERTY ReaderStops
CHECK_DEADLOCK FALSE
