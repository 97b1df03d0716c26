-------------------------------- MODULE Uint --------------------------------
(***************************************************************************)
(* The unsigned arithmetic of the Solidity 0.4 compiler: operations wrap   *)
(* silently at the width of their operands.  m is the modulus (2^256 for   *)
(* uint256, 2^64 for uint64); the arguments are in 0 .. m-1.               *)
(***************************************************************************)
EXTENDS Naturals

Uint(m) == 0 .. (m - 1)

AddMod_Wide(a, b, m) == a + b       \* the mistake: no wrap
AddMod(a, b, m) == IF a + b < m THEN a + b ELSE a + b - m

SubMod(a, b, m) == IF a >= b THEN a - b ELSE a + m - b

MulMod(a, b, m) == (a * b) % m
=============================================================================
