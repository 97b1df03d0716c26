CONSTANTS
    n1 = n1
    n2 = n2
    other = other
    Gone = Gone
    NoRequest = NoRequest
    Callers <- Three
    Requests <- TwoLoans
    Answers <- AllAnswers
    Retries = 3
SPECIFICATION NewLoanFairSpec
INVARIANTS NewLoanTypeOK OneDownload IndexedIsALoan
PROPERTIES SpinnerIsForARequest EveryLoanRequestEnds
