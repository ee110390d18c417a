SPECIFICATION MergeSpec
CONSTANTS
  Keys <- MCKeys
  Class <- Itself
  Encode <- ToKey
  Empty <- MCEmpty
  MinTable = 2
  PowersOfTwo <- MCPowers
  LeftColumns <- LeftSides
  RightColumns <- RightSides
  MaxRows = 3
  CountMod = 16
  WeakCas = FALSE
  DeviceFails = TRUE
  CallsOn <- MCCallsOn
  Stripped <- Cut
  NaN = NaN

INVARIANT TypeOK
INVARIANT ProbesFindRows
INVARIANT NoHole
INVARIANT WritesInBounds
PROPERTY MergeIsCorrect
