SPECIFICATION FairSpec
CONSTANTS
  Paths = {p1}
  Handlers = {h1, h2}
  Submitters = {s1, s2}
  IdempotencyKeys = {i1, i2, i3}
  None = None
  MaxActive = 2
  MaxKeys = 2
  MaxJobs = 3
  MaxFailures = 1
  MaxStops = 1
CONSTRAINT Scope
INVARIANTS
  AssetsStored
  CaptureReadsPinned
  AdmissionIsBounded
PROPERTIES
  DeletionsHappen
CHECK_DEADLOCK FALSE
