SPECIFICATION Spec
CONSTANTS
  TypeOrder <- OneType
  Size <- Size10
  Provenance = "JXS"
  Sector = 2
  MaxFiles = 3
  DayStartLen = 1
  DayStartReserve = 1
  RowSizes = {1, 2}
  MaxDay = 3
  MaxCuts = 0
  MaxFaults = 0
  Env = {}
INVARIANT ClosedFilesEndWithEof
