SPECIFICATION Spec
CONSTANTS
  Calls <- MissingTail
  NaN = 9
  Word = 8
  DeviceFails = FALSE
PROPERTY ScanIsCorrect
