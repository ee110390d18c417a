SPECIFICATION Spec
CONSTANTS
  a = a
  z = z
  w = w
  nan = nan
  junk = junk
  absent = absent
  Cols = {a, z}
  Vals <- MCVals
  NaN = nan
  Junk = junk
  Absent = absent
  Index <- Range2
  Fns = {"inc"}
  Seed <- MCSeed
  Apply <- MCApply
  MaxLoads = 2
  MaxCols = 2
  MaxSeries = 2
  Scalars = {1}
  InitFrames <- Start2
  InitHeap <- OneOfTwoRows
  KernelsFail = FALSE
  OtherCalls = {}
PROPERTY ReadsKeepMeaning
PROPERTY ConcreteWins
PROPERTY EagerRefinement
