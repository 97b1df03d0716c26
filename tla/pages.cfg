CONSTANTS
    l1 = l1
    l2 = l2
    r1 = r1
    r2 = r2
    r3 = r3
    None = None
    Loans = {l1, l2}
    MyLoans = {l1}
    Requests = {r1, r2, r3}
    Sessions <- TheSessions
SPECIFICATION PagesSpec
INVARIANTS SpinnerMeansRequest FreshAfterTransfer ShowsTheLoanAskedFor TilesNeverAhead
SYMMETRY Symmetry
