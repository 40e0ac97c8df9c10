SPECIFICATION AgentFairSpec
CONSTANTS
  None = None
  Lease = 5
  Grace = 2
  Margin = 2
  Timeout = 3
  Skews <- SmallSkew
  Artifacts = 2
  Horizon = 7
  MaxTime = 13
CHECK_DEADLOCK FALSE
INVARIANTS
  StopsBeforeConfirmedLease
  ExclusiveWork
PROPERTY
  CancellationStopsWork
