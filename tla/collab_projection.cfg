SPECIFICATION FairSpec
CONSTANTS
  Clients = {c1}
  Edits = {e1, e2}
  None = None
  Retention = 0
  Buffer = 1
  MaxUpdates = 3
  MaxContent = 1
  MaxRevision = 1
  MaxAccess = 0
  MaxStops = 1
INVARIANTS
  NoEditLost
PROPERTIES
  CaptureSeesAccepted
  UpdatesProjected
CHECK_DEADLOCK FALSE
