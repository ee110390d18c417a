SPECIFICATION Spec
CONSTANTS
  Calls <- MCCalls
  NaN = 9
  Word = 8
  DeviceFails = TRUE
INVARIANT ScanTypeOK
INVARIANT Lockstep
INVARIANT PrefixesFolded
INVARIANT PlacesApart
PROPERTY ScanIsCorrect
