SPECIFICATION SyncFairSpec
CONSTANTS
    c1 = c1
    c2 = c2
    bad = bad
    Contents <- MCContents
    Rejected <- MCRejected
    None = None
    MaxVersion = 2
    MaxCheckpoints = 2
    MaxMoves = 1
    MaxFaults = 1
INVARIANTS
    UpToDateIsTrue
    AppliedOnce
PROPERTIES
    BranchKeepsCommits
    OperationsSettle
CHECK_DEADLOCK FALSE
