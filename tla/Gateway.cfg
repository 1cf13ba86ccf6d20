SPECIFICATION Spec
CONSTANTS
  MaxInterval = 2
  UInt16Max = 3
  MaxMultiplier = 2
  Names = {"", "JX", "S", "advInterval"}
  None = None
  Odd = Odd
  StoredAtFirst <- Stored
  Messages <- Sent
  MaxLives = 3
  MaxSags = 2
  MaxRows = 5
  MaxFaults = 1
INVARIANTS AckedInForce RowsInOrder WitnessReported
CHECK_DEADLOCK FALSE
