CONSTANTS
    l1 = l1
    l2 = l2
    r1 = r1
    r2 = r2
    r3 = r3
    s1 = s1
    s2 = s2
    s3 = s3
    s4 = s4
    p1 = p1
    p2 = p2
    None = None
    Processes <- OneProcess
    Loans <- TwoLoans
    ShortIds <- FourIds
    Requests <- TwoRequests
    Faults = TRUE
SPECIFICATION Spec
INVARIANT FailuresCanBeRetried
\* Every request has been made and has ended.
CHECK_DEADLOCK FALSE
