CONSTANTS
    a = a
    b = b
    u = u
    v = v
    Loans = {a, b}
    Users = {u, v}
    borrower <- Theirs
    Investors = {u}
    Nobody = Nobody
    INVALID = INVALID
    Requests <- MCRequests
    Faults = TRUE
SPECIFICATION FairSpec
INVARIANTS ListedStateIsTrue ListedWithDeadlines NothingIsMissed
PROPERTY EveryRequestEnds
