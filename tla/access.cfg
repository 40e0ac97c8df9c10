SPECIFICATION Spec
CONSTANTS
    u1 = u1
    u2 = u2
    g1 = g1
    r1 = r1
    r2 = r2
    Users <- MCUsers
    Creator = u1
    Groups <- MCGroups
    Requests <- MCRequests
    Writer = Writer
    MaxRequests = 2
SYMMETRY MCSymmetry
INVARIANTS
    AdmittedWriterMayWrite
    ClassificationHolds
    LocksAreOrdered
CHECK_DEADLOCK FALSE
