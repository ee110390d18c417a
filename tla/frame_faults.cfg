SPECIFICATION Spec
CONSTANTS
  a = a
  z = z
  w = w
  nan = nan
  junk = junk
  absent = absent
  Cols = {a, z}
  Vals <- MCVals
  NaN = nan
  Junk = junk
  Absent = absent
  Index <- Range2
  Fns = {"plus", "inc", "plus inc"}
  Seed <- MCSeed
  Apply <- MCApply
  MaxLoads = 2
  MaxCols = 1
  MaxSeries = 2
  Scalars = {1}
  InitFrames <- Start2
  InitHeap <- OneOfOneRow
  KernelsFail = TRUE
  OtherCalls = {"inherited read", "list key", "series change"}
INVARIANT TypeOK
INVARIANT PendingUnique
INVARIANT CopiesAgree
PROPERTY AnswersLoseNothing
