SPECIFICATION FairSpec
CONSTANTS
    Edits = {e1, e2}
    Pushes = {c1}
    main = main
    fig = fig
    pic = pic
    Main = main
    Paths <- MCPaths
    TextPaths <- MCTextPaths
    Starters <- MCStarters
    Absent = Absent
    Conflict = Conflict
    MaxCommits = 2
    MaxLate = 1
    MaxFaults = 1
CONSTRAINT Scope
INVARIANTS
    UncommittedIsPending
    PushAnswerIsTrue
    LiveTransferIsRevision
PROPERTIES
    EditsReachHistory
CHECK_DEADLOCK FALSE
