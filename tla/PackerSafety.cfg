CONSTANTS
  Bytes = {0, 1, 2}
  MaxInput = 9
  RefValues = 4
  LenValues = 2
  MinRef = 2
  WindowSize = 5
  MaxEncoding = 3
  MinLen = 2
  MaxRun = 2
SPECIFICATION Spec
INVARIANTS KeysIntact ReferencesFitBeforeEnd AssertionsGuardOutput
CHECK_DEADLOCK FALSE
