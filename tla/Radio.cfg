SPECIFICATION FairSpec
CONSTANTS
  SettingsChoices <- SmallChoices
  MaxInterval = 4
  Countdown = 1
  Peers = {p1, p2}
  Rssis = {1, 2}
  QueueSize = 2
  TableSize = 2
  MaxMotion = 1
  MaxTroubles = 1
INVARIANTS RadioIsTimed BurstReportsBest MotionAccounted
CHECK_DEADLOCK FALSE
PROPERTIES ScansRecur
