SPECIFICATION Spec
CONSTANTS
  Keys <- MCKeys
  Class <- Itself
  Encode <- ToKey
  Empty <- MCEmpty
  MinTable = 2
  PowersOfTwo <- MCPowers
  Inputs <- MCInputs
  Ops = {"sum", "count", "min", "max", "mean"}
  MaxRows = 3
  NaN = 100
  Half = 8
  Garbage = {1}
  WeakCas = FALSE
  DeviceFails = TRUE
INVARIANT TypeOK
INVARIANT KeyHasOneSlot
INVARIANT RowsFindGroups
INVARIANT GroupsNumbered
INVARIANT Accumulated
PROPERTY GroupByIsCorrect
