SPECIFICATION FairSpec
CONSTANTS
  MaxBoots = 5
  MaxFaults = 1
  Env = {"gate", "brownout", "reset", "clear"}
INVARIANTS TypeOK InterruptedIsResumable ProductionIdentified ReportedOnce
PROPERTIES OffEndsSession ResumesNewest ShelfCompletes
