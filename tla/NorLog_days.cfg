SPECIFICATION FairSpec
CONSTANTS
  TypeOrder <- TwoTypes
  Size <- Size8and5
  Provenance = "JXS"
  Sector = 2
  MaxFiles = 5
  DayStartLen = 1
  DayStartReserve = 1
  RowSizes = {1}
  MaxDay = 2
  MaxCuts = 1
  MaxFaults = 0
  Env = {"undated"}
INVARIANTS RowsDeliverable RowsInFileOfTheirDay AppendsAtFrontier
PROPERTIES DatedCallsReachTheirDay RotationCompletes ImplementsJournal
