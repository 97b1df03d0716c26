-------------------------------- MODULE Sums --------------------------------
(***************************************************************************)
(* The sum of a function with natural values, as the number of units it    *)
(* hands out: f[a] units <<a, 1>> .. <<a, f[a]>> for each a.  Stated as a   *)
(* cardinality the sum needs no recursion, so that theorems can be proved   *)
(* about it (module BasicToken_proofs).                                    *)
(***************************************************************************)
EXTENDS Naturals, FiniteSets

Units(f) == UNION {{a} \X (1 .. f[a]) : a \in DOMAIN f}

Total(f) == Cardinality(Units(f))
=============================================================================
