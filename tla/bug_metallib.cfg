SPECIFICATION DeferredSpec
CONSTANTS
  AppleTuning <- Newer
  OlderTuning <- Older
  Machines <- LoadingBinary
  Requests <- MCRequests
  Jobs <- NoJobs
  MaxCalls = 1
  SimdWidth = 2
  MinValue <- Lowest
  MaxValue = 9
  WordSize = 16
  DeviceFails = FALSE
  NaN = NaN
  NoAnswer = NoAnswer
  Raised = Raised
  Junk = Junk
  BinaryValue <- MCBinary
  UnaryValue <- MCUnary
  Formatted <- MCFormatted
  StackSize = 3
  FusedThreads = 2
  MaxColumns = 2
  OldUnary = {"neg", "abs"}
  NewUnary = {"sin"}
INVARIANT EachElementReadOnce
CHECK_DEADLOCK FALSE
