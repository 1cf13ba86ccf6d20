SPECIFICATION Spec
CONSTANTS
  Sectors = 3
  Slots = 2
  MaxTime = 7
  MaxCuts = 2
  MaxFaults = 1
  Env = {"flash", "wipefail"}
INVARIANTS TypeOK HeadClean
PROPERTIES EntrySparesNewest ShelvedRingQuiet ImplementsDraft
