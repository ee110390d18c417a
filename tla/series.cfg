SPECIFICATION Spec
CONSTANTS
  Frames <- MCFrames
  Requests <- MCRequests
  NumRows = 3
  ByteWidth = 2
  BinaryValue <- MCBinary
  UnaryValue <- MCUnary
  NaN = NaN
  NaT = NaT
  Junk = Junk
  Written = 50
  MaxCalls = 2
  DeviceFails = TRUE
  Nothing = Nothing
INVARIANT SeriesReadTheirColumn
INVARIANT ArraysStand
PROPERTY AnswersAgree
CHECK_DEADLOCK FALSE
