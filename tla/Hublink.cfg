SPECIFICATION FairSpec
CONSTANTS
  Size = 6
  MaxChunk = 2
  MaxAsks = 2
  MaxErases = 1
  MaxDay = 2
  MaxFaults = 1
  Env = {"overlap", "reread", "fault"}
INVARIANTS DownloadIsPrefix ActiveIsDriven ListingIsSnapshot ListedIsFetched
PROPERTIES RequestsFinish
