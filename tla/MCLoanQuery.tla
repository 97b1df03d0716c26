---------------------------- MODULE MCLoanQuery ----------------------------
(***************************************************************************)
(* Two loans of two borrowers, one of whom also invests.  Each filter alone *)
(* and a state together with an investor.                                  *)
(***************************************************************************)
EXTENDS LoanQuery

CONSTANTS a, b, u, v

Theirs == [l \in Loans |-> IF l = a THEN u ELSE v]

MCRequests ==
    {loansByOwner(u), loansByInvestor(u), [loansByInvestor(u) EXCEPT !.state = "Payback"]}
        \cup {loansByState(s) : s \in {"Fundraising", "Payback", "Canceled"}}
=============================================================================
