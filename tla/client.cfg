CONSTANTS
    Me = Me
    You = You
    Contract = Contract
    Token = Token
    Nobody = Nobody
    me = Me
    Users <- TwoUsers
    Loan = Contract
    LoanToken = Token
    CollateralToken = Token
    NullAddress = Nobody
    Word = 4096
    TimeWord = 64
    Terms <- EitherBorrows
    StartTime = 0
    Endowment <- FourAndThree
    Approvals <- YourOnlyApproval
    Transfers = {}
    PrintValue = 0
    MaxSupply = 0
    MaxTime = 2
    MaxCalls = 2
    Ops <- AllOps
    Amounts <- OneOrTwo
    Others <- OnlyYou
SPECIFICATION ClientFairSpec
PROPERTIES CallsSettle WithdrawsAll
INVARIANTS ClientTypeOK TakesWhatWasAsked PaybackHasDeadline RightReason
\* Every call has been made and the clock has stopped.
CHECK_DEADLOCK FALSE
