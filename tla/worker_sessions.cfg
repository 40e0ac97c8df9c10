SPECIFICATION SessionsFairSpec
CONSTANTS
  Sessions = {s1}
  Jobs = {j1, j2}
  None = None
  Slots = 1
  SessionLease = 3
  ClaimLease = 2
  MaxFailures = 2
  Lag = 1
  Horizon = 4
  MaxTime = 8
CHECK_DEADLOCK FALSE
INVARIANTS
  SlotCeiling
  NothingStranded
PROPERTIES
  SessionsClose
