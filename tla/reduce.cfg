SPECIFICATION DeferredSpec
CONSTANTS
  AppleTuning <- Newer
  OlderTuning <- Older
  Machines <- MCMachines
  Requests <- MCRequests
  Jobs <- MCJobs
  MaxCalls = 2
  SimdWidth = 2
  MinValue <- Lowest
  MaxValue = 9
  WordSize = 16
  DeviceFails = TRUE
  NaN = NaN
  NoAnswer = NoAnswer
  Raised = Raised
  Junk = Junk
  BinaryValue <- MCBinary
  UnaryValue <- MCUnary
  Formatted <- MCFormatted
  StackSize = 3
  FusedThreads = 2
  MaxColumns = 2
  OldUnary = {"neg", "abs"}
  NewUnary = {"sin"}
INVARIANT PipelinesFollowDebug
INVARIANT EachElementReadOnce
INVARIANT TotalsKept
PROPERTY AnswersAgree
PROPERTY CallsAnswered
CHECK_DEADLOCK FALSE
