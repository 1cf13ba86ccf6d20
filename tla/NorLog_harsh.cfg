SPECIFICATION Spec
CONSTANTS
  TypeOrder <- TwoTypes
  Size <- Size4and4
  Provenance = "JXS"
  Sector = 2
  MaxFiles = 3
  DayStartLen = 1
  DayStartReserve = 1
  RowSizes = {1}
  MaxDay = 2
  MaxCuts = 1
  MaxFaults = 1
  Env = {"regress", "draft", "flash", "nvs", "lost"}
INVARIANTS TypeOK FilesInRegion RememberedDayHasFiles
