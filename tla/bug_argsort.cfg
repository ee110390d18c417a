SPECIFICATION Spec
CONSTANTS
  RADIX_BITS = 2
  Requests <- LargestWord
  DeviceFails = TRUE
PROPERTY SortIsCorrect
