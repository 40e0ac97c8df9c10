SPECIFICATION FairSpec
CONSTANTS
  Jobs = {j1, j2}
  Cores = {c1, c2}
  Roles = {pdf}
  Required = {pdf}
  Inputs = {i1, i2}
  None = None
  MaxAttempts = 2
  MaxActive = 1
  ClaimLease = 2
  CancelGrace = 1
  TransferTTL = 2
  FinalizationLease = 1
  QueueWait = 4
  Retention = 2
  Lag = 0
  Horizon = 4
  MaxTime = 5
CONSTRAINT Scope
CHECK_DEADLOCK FALSE
INVARIANTS
  ClaimFence
  RetryBudget
  PublishedOnce
  ResultIsOneDelivery
PROPERTIES
  FollowsLifecycle
  JobsSettle
