CONSTANTS
    b = b
    i = i
    j = j
    Users = {b, i, j}
    Loan = Loan
    NullAddress = NullAddress
    LoanToken = Token
    CollateralToken = Token
    Word = 4096
    TimeWord = 16
    StartTime = 1
    MaxTime = 3
    Terms <- MCOneTerms
    Endowment <- MCOneToken
    Approvals <- MCOneApprovals
    Transfers <- MCTransfers
    PrintValue = 1
    MaxSupply = 8
SPECIFICATION Spec
INVARIANTS Conservation Solvent
