------------------------------ MODULE MCLinker ------------------------------
(***************************************************************************)
(* Three artifacts and a library that is in none.                           *)
(***************************************************************************)
EXTENDS Linker, TLC

CONSTANTS c1, c2, c3

Symmetry == Permutations(Contracts)
=============================================================================
