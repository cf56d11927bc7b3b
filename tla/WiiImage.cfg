CONSTANTS
  Sub = 2
  Count = 6
  Units = 2
  Starts = {0, 3}
  Ends = {2, 8, 10}
  MaxWrites = 2
SPECIFICATION Spec
INVARIANTS UnverifiedKnown ContentKept RootIsSigned ReadsBack
CHECK_DEADLOCK FALSE
