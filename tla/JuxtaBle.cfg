SPECIFICATION FairSpec
CONSTANTS
  Saved <- SavedSettings
  SCAN_EVENT_QUEUE_SIZE = 1
  MAX_JUXTA_DEVICES = 1
  Devices = {d1}
  Gateways = {g1}
  Strengths = {1}
  MaxRetries = 2
  MaxFaults = 1
INVARIANTS RunIsDriven GatewayCanCome
PROPERTIES ScansRecur
