CONSTANTS
    b = b
    i = i
    j = j
    Users = {b, i, j}
    Loan = Loan
    NullAddress = NullAddress
    LoanToken = LoanToken
    CollateralToken = CollateralToken
    Word = 4096
    TimeWord = 16
    StartTime = 1
    MaxTime = 6
    Terms <- MCTerms
    Endowment <- MCTwoTokens
    Approvals <- MCApprovals
    Transfers = {}
    PrintValue = 1
    MaxSupply = 0
SPECIFICATION FairSpec
INVARIANTS TypeOK FundsAddUp PaidOnce DustBounded
PROPERTIES FullTimeToPay OutcomeIsFinal KeepsPromise EventuallySettled
