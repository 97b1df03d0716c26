------------------------------ MODULE MCNewLoan ------------------------------
(***************************************************************************)
(* Two requests for loans and one other caller of getABI, which may call     *)
(* again and again.                                                        *)
(***************************************************************************)
EXTENDS NewLoan

CONSTANTS n1, n2, other

Three == {n1, n2, other}
TwoLoans == {n1, n2}
AllAnswers == {"definitions", "otherNetwork", "error"}
=============================================================================
