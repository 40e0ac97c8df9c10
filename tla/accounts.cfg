SPECIFICATION Spec
CONSTANTS
    u1 = u1
    u2 = u2
    u3 = u3
    p1 = p1
    p2 = p2
    x1 = x1
    x2 = x2
    y1 = y1
    z1 = z1
    r1 = r1
    r2 = r2
    Users <- MCUsers
    Established = u1
    Bootstrap = u2
    Oidc = Oidc
    Providers <- MCProviders
    Externals <- MCExternals
    AuthorityOf <- MCAuthorityOf
    Requests <- MCRequests
    None = None
    MaxRequests = 3
    MaxTokens = 4
SYMMETRY MCSymmetry
INVARIANTS
    LoginMethodRemains
    GrantMatchesProvider
    SubjectHasOneAccount
CHECK_DEADLOCK FALSE
