SPECIFICATION FairSpec
CONSTANTS
  Names = {1}
  MACIDX = 2
  Mtus = {1, 2}
  ListRoom = 1
  Keys = {k}
  MaxLength = 3
  MaxFaults = 1
INVARIANT DownloadIsExact
PROPERTIES DownloadEnds
