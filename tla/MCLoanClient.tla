---------------------------- MODULE MCLoanClient ----------------------------
EXTENDS LoanClient

CONSTANTS Me, You, Contract, Token, Nobody

TwoUsers == {Me, You}
OnlyYou == {You}

(* Either user borrows 2 units at 50%; both tokens are the test token, as   *)
(* in newLoan (client.ts:110-113).                                         *)
EitherBorrows ==
    {[borrower |-> u, amountWanted |-> 2, interestPermil |-> 500,
      fundraisingDelta |-> 1, paybackDelta |-> 1] : u \in TwoUsers}

FourEach == [t \in {Token} |-> [u \in TwoUsers |-> 4]]
FourAndThree == [t \in {Token} |-> [u \in TwoUsers |-> IF u = Me THEN 4 ELSE 3]]

(* You approve the whole loan with its interest; or a part or all of it.    *)
YourOnlyApproval == {<<Token, You, 3>>}
YourApprovals == {<<Token, You, v>> : v \in {1, 3}}

Sending == {"loadLoans", "sendCollateral", "invest", "payback"}
Investing == {"loadLoans", "invest"}
AllOps == Sending \cup {"update", "possibleWithdrawals", "withdrawAll"}
OneOrTwo == {1, 2}
=============================================================================
