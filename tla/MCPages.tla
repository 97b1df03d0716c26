------------------------------- MODULE MCPages -------------------------------
(***************************************************************************)
(* The user as a borrower whose loan is new, as one who has invested in his   *)
(* own loan, and as an investor with a choice of two.                       *)
(***************************************************************************)
EXTENDS Pages, TLC

CONSTANTS l1, l2, r1, r2, r3

Symmetry == Permutations(Requests)

Own(state) == l1 :> state @@ l2 :> "Canceled"

TheSessions == {
    [loanState |-> Own("CollateralCollection"), invested |-> {}, pages |-> {"my-loans", "elsewhere"}],
    [loanState |-> Own("Fundraising"), invested |-> {l1}, pages |-> {"my-loans", "my-investments"}],
    [loanState |-> [l \in Loans |-> "Fundraising"], invested |-> {},
     pages |-> {"loan-list", "elsewhere"} \cup Loans]}
=============================================================================
