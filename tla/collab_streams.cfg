SPECIFICATION Spec
CONSTANTS
  Clients = {c1, c2}
  Edits = {e1}
  None = None
  Retention = 0
  Buffer = 1
  MaxUpdates = 2
  MaxContent = 1
  MaxRevision = 0
  MaxAccess = 1
  MaxStops = 0
SYMMETRY Symmetry
INVARIANTS
  ReaderMissesNothing
  StaleStreamIsTold
CHECK_DEADLOCK FALSE
