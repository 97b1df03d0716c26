----------------------------- MODULE BasicToken -----------------------------
(***************************************************************************)
(* The checks and the effects of BasicToken.sol's transfers, as operators   *)
(* on one token's balances, so that a contract that makes two transfers in  *)
(* one transaction can compose them.  A failed require reverts the whole    *)
(* transaction: the caller's action is then not enabled.                   *)
(*                                                                         *)
(* A definition whose name continues another's after an underscore is that  *)
(* definition with a mistake; the properties are tried against it.          *)
(***************************************************************************)
EXTENDS Uint

CONSTANTS
    NullAddress,    \* 0x0, which no transfer may target
    Word            \* the modulus of uint256

(* The three requires of transfer: a receiver, enough funds, and no wrap.  *)
CanTransfer(bal, from, to, v) ==
    /\ to # NullAddress
    /\ bal[from] >= v
    /\ AddMod(bal[to], v, Word) >= bal[to]

CanTransferFrom_AnySpender(bal, allowed, from, to, v) == CanTransfer(bal, from, to, v)

(* transferFrom also requires that the spender's allowance covers v.       *)
CanTransferFrom(bal, allowed, from, to, v) ==
    /\ CanTransfer(bal, from, to, v)
    /\ v <= allowed

Moved_BothRead(bal, from, to, v) ==
    [bal EXCEPT ![from] = SubMod(bal[from], v, Word), ![to] = AddMod(bal[to], v, Word)]

(* Subtract from the sender, then add to the recipient, who may be the     *)
(* sender.                                                                 *)
Moved(bal, from, to, v) ==
    LET paid == [bal EXCEPT ![from] = SubMod(@, v, Word)]
    IN [paid EXCEPT ![to] = AddMod(@, v, Word)]
=============================================================================
