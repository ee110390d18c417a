SPECIFICATION Spec
CONSTANTS
  Columns <- MCColumns
  CallsOn <- MCCalls
  MaxCalls = 2
  ChangeAnyTime = FALSE
  DeviceFails = TRUE
  NaN = NaN
  Missing = Missing
  Junk = Junk
  NoCopy = NoCopy
  NoAnswer = NoAnswer
INVARIANT SizesKept
PROPERTY StringsAgree
CHECK_DEADLOCK FALSE
