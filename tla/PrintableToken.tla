--------------------------- MODULE PrintableToken ---------------------------
(***************************************************************************)
(* PrintableToken.sol: the ERC20 token the loans are made in, with every    *)
(* holder free to transfer, to approve any spender, to spend an allowance,  *)
(* and to print new tokens to anyone.                                       *)
(***************************************************************************)
EXTENDS BasicToken, Sums

CONSTANTS
    Addresses,      \* the accounts and contracts that use the token
    PrintValue,     \* what one print creates
    Amounts         \* the values transfers and approvals are called with

ASSUME WordAssumption == Word \in Nat \ {0}
ASSUME AddressAssumption == IsFiniteSet(Addresses) /\ NullAddress \notin Addresses
ASSUME AmountAssumption == PrintValue \in Uint(Word) /\ Amounts \subseteq Uint(Word)

VARIABLES
    totalSupply,
    balanceOf,      \* balanceOf[owner]
    allowance       \* allowance[owner][spender]

vars == <<totalSupply, balanceOf, allowance>>

TypeOK ==
    /\ totalSupply \in Uint(Word)
    /\ balanceOf \in [Addresses -> Uint(Word)]
    /\ allowance \in [Addresses -> [Addresses -> Uint(Word)]]

(* The constructor passes an initial supply of 0.                          *)
Init ==
    /\ totalSupply = 0
    /\ balanceOf = [a \in Addresses |-> 0]
    /\ allowance = [a \in Addresses |-> [b \in Addresses |-> 0]]

Transfer(sender, to, v) ==
    /\ CanTransfer(balanceOf, sender, to, v)
    /\ balanceOf' = Moved(balanceOf, sender, to, v)
    /\ UNCHANGED <<totalSupply, allowance>>

(* An approval replaces the previous one, whatever was spent of it.        *)
Approve(sender, spender, v) ==
    /\ allowance' = [allowance EXCEPT ![sender][spender] = v]
    /\ UNCHANGED <<totalSupply, balanceOf>>

TransferFrom(sender, from, to, v) ==
    /\ CanTransferFrom(balanceOf, allowance[from][sender], from, to, v)
    /\ balanceOf' = Moved(balanceOf, from, to, v)
    /\ allowance' = [allowance EXCEPT ![from][sender] = SubMod(@, v, Word)]
    /\ UNCHANGED totalSupply

print(who) ==
    /\ who # NullAddress
    /\ AddMod(totalSupply, PrintValue, Word) >= totalSupply
    /\ AddMod(balanceOf[who], PrintValue, Word) >= balanceOf[who]
    /\ totalSupply' = AddMod(totalSupply, PrintValue, Word)
    /\ balanceOf' = [balanceOf EXCEPT ![who] = AddMod(@, PrintValue, Word)]
    /\ UNCHANGED allowance

Next ==
    \E sender \in Addresses :
        \/ \E to \in Addresses \cup {NullAddress} :
              \/ print(to)
              \/ \E v \in Amounts, from \in Addresses :
                    Transfer(sender, to, v) \/ TransferFrom(sender, from, to, v)
        \/ \E spender \in Addresses, v \in Amounts : Approve(sender, spender, v)

Spec == Init /\ [][Next]_vars

-----------------------------------------------------------------------------
(* Tokens are neither created nor destroyed but by a print: the balances    *)
(* always add up to the total supply (BasicToken.sol:44-74,                 *)
(* PrintableToken.sol:21-29), although every addition could wrap.           *)
Conservation == Total(balanceOf) = totalSupply

(* Only two things take tokens out of an account: a transfer by its owner,  *)
(* which leaves all allowances alone, and a spender who uses up as much of  *)
(* the owner's allowance as the balance loses (BasicToken.sol:63-74).       *)
SpendingIsAuthorized ==
    [][\A a \in Addresses :
          LET lost == balanceOf[a] - balanceOf'[a]
          IN balanceOf'[a] < balanceOf[a] =>
                \/ \E v \in Amounts, to \in Addresses : Transfer(a, to, v)
                \/ \E s \in Addresses :
                      /\ allowance[a][s] >= lost
                      /\ allowance'[a][s] + lost = allowance[a][s]
      ]_vars
=============================================================================
