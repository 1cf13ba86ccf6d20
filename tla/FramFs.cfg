SPECIFICATION FsSpec
CONSTANTS
  MaxFiles = 2
  MaxMacs = 2
  Size = 4
  m1 = m1
  m2 = m2
  m3 = m3
  Macs = {m1, m2, m3}
  NoMac = NoMac
  Lists <- FewLists
  MaxDay = 2
  MaxRows = 3
  MaxTroubles = 1
INVARIANTS  MacIdsResolve
CHECK_DEADLOCK FALSE
