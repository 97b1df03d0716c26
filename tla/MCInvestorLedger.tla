-------------------------- MODULE MCInvestorLedger --------------------------
(***************************************************************************)
(* Instances of InvestorLedger for TLC.                                    *)
(***************************************************************************)
EXTENDS InvestorLedger

CONSTANTS b, i, j   \* a borrower and two investors

Loanof(wanted, permil, fd, pd) ==
    [borrower |-> b, amountWanted |-> wanted, interestPermil |-> permil,
     fundraisingDelta |-> fd, paybackDelta |-> pd]

(* Interest of 1 on all 3 units and of 0 on any part of them; none; and      *)
(* periods that end at, or beyond, the width of the clock.                  *)
MCTerms ==
    {Loanof(3, 400, 1, 1), Loanof(2, 0, 1, 2),
     Loanof(1, 0, 1, 14), Loanof(1, 0, 1, 13), Loanof(1, 0, 14, 1)}

Owns(nb, ni, nj) == [u \in Users |-> CASE u = b -> nb [] u = i -> ni [] u = j -> nj [] OTHER -> 0]

(* Collateral 2, which two unequal investments cannot share evenly.         *)
MCTwoTokens == [t \in Tokens |-> IF t = LoanToken THEN Owns(1, 2, 2) ELSE Owns(2, 0, 0)]
MCOneToken == [t \in Tokens |-> Owns(3, 2, 2)]

MCApprovals ==
    {<<LoanToken, i, 1>>, <<LoanToken, i, 2>>, <<LoanToken, i, 0>>, <<LoanToken, j, 2>>,
     <<CollateralToken, b, 2>>, <<LoanToken, b, 4>>, <<LoanToken, b, 1>>}

(* One token in both roles, with prints, and with transfers that reach      *)
(* the loan, another user and the sender.                                  *)
MCOneTerms == {Loanof(2, 500, 1, 1)}
MCOneApprovals ==
    {<<LoanToken, i, 1>>, <<LoanToken, j, 2>>, <<LoanToken, b, 1>>, <<LoanToken, b, 3>>}
MCTransfers ==
    {<<LoanToken, i, Loan, 1>>, <<LoanToken, b, j, 2>>, <<LoanToken, j, j, 1>>}
=============================================================================
