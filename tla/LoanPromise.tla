---------------------------- MODULE LoanPromise ----------------------------
(***************************************************************************)
(* What a loan promises its borrower and its investors, without tokens,     *)
(* allowances or machine integers.  A deadline takes effect the moment it   *)
(* passes; the contract, which nothing wakes up, records it when somebody   *)
(* calls it.                                                               *)
(***************************************************************************)
EXTENDS Naturals, Sums

CONSTANTS Users, Terms

VARIABLES
    now, terms,
    phase,
    deadline,           \* of the phase the loan is in
    collateral,         \* what the borrower put up
    pledged,            \* what each investor put in
    loanPaid,           \* what each user got back of the lent token ...
    collateralPaid      \* ... and of the collateral

vars == <<now, terms, phase, deadline, collateral, pledged, loanPaid, collateralPaid>>

Nothing == [u \in Users |-> 0]

Init ==
    /\ now \in Nat
    /\ terms \in Terms
    /\ phase = "CollateralCollection"
    /\ deadline = 0 /\ collateral = 0
    /\ pledged = Nothing /\ loanPaid = Nothing /\ collateralPaid = Nothing

Lapsed(p) ==
    CASE p = "Fundraising" -> "Canceled"
      [] p = "Payback" -> "Defaulted"
      [] OTHER -> p

Pass ==
    /\ now' = now + 1
    /\ phase' = IF now' > deadline THEN Lapsed(phase) ELSE phase
    /\ UNCHANGED <<terms, deadline, collateral, pledged, loanPaid, collateralPaid>>

Secure ==
    /\ phase = "CollateralCollection" /\ phase' = "Fundraising"
    /\ collateral' \in Nat \ {0}
    /\ deadline' = now + terms.fundraisingDelta
    /\ UNCHANGED <<now, terms, pledged, loanPaid, collateralPaid>>

Pledge(u) ==
    /\ phase = "Fundraising"
    /\ \E x \in 1 .. (terms.amountWanted - Total(pledged)) :
          pledged' = [pledged EXCEPT ![u] = @ + x]
    /\ \/ /\ Total(pledged') < terms.amountWanted
          /\ UNCHANGED <<phase, deadline>>
       \/ /\ Total(pledged') = terms.amountWanted
          /\ phase' = "Payback"
          /\ deadline' = now + terms.paybackDelta
    /\ UNCHANGED <<now, terms, collateral, loanPaid, collateralPaid>>

Repay ==
    /\ phase = "Payback" /\ phase' = "Paidback"
    /\ UNCHANGED <<now, terms, deadline, collateral, pledged, loanPaid, collateralPaid>>

(* Once to each investor: the investment, with interest if it was repaid.   *)
PayLoan(u) ==
    /\ loanPaid[u] = 0
    /\ \/ phase = "Canceled" /\ loanPaid' = [loanPaid EXCEPT ![u] = pledged[u]]
       \/ /\ phase = "Paidback"
          /\ loanPaid' = [loanPaid EXCEPT ![u] =
                             pledged[u] + (pledged[u] * terms.interestPermil) \div 1000]
    /\ UNCHANGED <<now, terms, phase, deadline, collateral, pledged, collateralPaid>>

(* Once: all of it to the borrower who repaid or was not funded, else no    *)
(* more than their proportion to each investor.                            *)
PayCollateral(u) ==
    /\ collateralPaid[u] = 0
    /\ \/ /\ phase \in {"Paidback", "Canceled"} /\ u = terms.borrower
          /\ collateralPaid' = [collateralPaid EXCEPT ![u] = collateral]
       \/ /\ phase = "Defaulted"
          /\ \E x \in 1 .. collateral :
                /\ x * Total(pledged) <= pledged[u] * collateral
                /\ collateralPaid' = [collateralPaid EXCEPT ![u] = x]
    /\ UNCHANGED <<now, terms, phase, deadline, collateral, pledged, loanPaid>>

Next ==
    \/ Pass \/ Secure \/ Repay
    \/ \E u \in Users : Pledge(u) \/ PayLoan(u) \/ PayCollateral(u)

Spec == Init /\ [][Next]_vars
=============================================================================
