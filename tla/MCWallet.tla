------------------------------ MODULE MCWallet ------------------------------
(***************************************************************************)
(* Two clients at a time, two requests for the balance, one print, and one   *)
(* other holder of a token whose supply overflows with the second print.     *)
(***************************************************************************)
EXTENDS Wallet, TLC

CONSTANTS k1, k2, b1, b2, p, you

Symmetry == Permutations(Clients) \cup Permutations(BalanceCalls)
=============================================================================
