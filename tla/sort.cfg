SPECIFICATION GroupSpec
CONSTANTS
  RADIX_BITS = 2
  Requests <- MCCalls
  DeviceFails = TRUE
  Null = Null
  Junk = Junk
INVARIANT GroupSortTypeOK
INVARIANT RowsTravelWhole
INVARIANT DigitsSorted
INVARIANT RunsSorted
PROPERTY ColumnIsSorted
PROPERTY SortGroupByIsCorrect
