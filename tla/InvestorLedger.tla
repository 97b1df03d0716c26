--------------------------- MODULE InvestorLedger ---------------------------
(***************************************************************************)
(* One loan: the contract Loan.sol over the library InvestorLedger.sol,     *)
(* together with the two tokens it moves and the clock of the chain.  Each  *)
(* action is one transaction; a transaction whose require fails is reverted *)
(* and changes nothing, so the action's guard is false.  now is             *)
(* block.timestamp.                                                        *)
(***************************************************************************)
EXTENDS BasicToken, Sums

CONSTANTS
    Users,              \* externally owned accounts that call the contracts
    Loan,               \* the address of the loan contract
    LoanToken,          \* the token that is lent ...
    CollateralToken,    \* ... and the one that secures the loan: may be the same
    TimeWord,           \* the modulus of uint64
    Terms,              \* the arguments loans are deployed with
    StartTime,          \* block time of the deployment
    Endowment,          \* what each user owns of each token at that time
    Approvals,          \* the approvals users make: <<token, owner, value>>
    Transfers,          \* the transfers users make: <<token, from, to, value>>
    PrintValue,         \* what one print of a token creates
    MaxSupply,          \* bound: no print beyond this total supply
    MaxTime             \* bound: the clock stops here

Addresses == Users \cup {Loan}
Tokens == {LoanToken, CollateralToken}

PERMIL == 1000

ASSUME WidthAssumption == Word \in Nat \ {0} /\ TimeWord \in Nat \ {0}
ASSUME AddressAssumption ==
    IsFiniteSet(Users) /\ Loan \notin Users /\ NullAddress \notin Addresses
ASSUME TermsAssumption ==
    Terms \subseteq [borrower : Users, amountWanted : Uint(Word), interestPermil : Nat,
                     fundraisingDelta : Uint(TimeWord), paybackDelta : Uint(TimeWord)]
ASSUME TimeAssumption ==
    StartTime \in Nat /\ MaxTime \in Uint(TimeWord) /\ StartTime <= MaxTime
ASSUME AmountAssumption ==
    /\ PrintValue \in Uint(Word) /\ MaxSupply \in Uint(Word)
    /\ Approvals \subseteq Tokens \X Users \X Uint(Word)
    /\ Transfers \subseteq Tokens \X Users \X Addresses \X Uint(Word)
ASSUME EndowmentAssumption ==
    /\ Endowment \in [Tokens -> [Users -> Uint(Word)]]
    /\ \A t \in Tokens : Total(Endowment[t]) \in Uint(Word)

VARIABLES
    now,
    \* the tokens
    totalSupply, balanceOf,
    allowance,              \* allowance[t][owner]: what the loan may take
    \* the Ledger struct
    terms,                  \* its constant parameters
    state, receivedCollateral, amountInvested, totalAmountInvested,
    fundraisingDeadline, paybackDeadline, loanWithdrawn, collateralWithdrawn

tokenVars == <<totalSupply, balanceOf, allowance>>
investVars == <<amountInvested, totalAmountInvested>>
withdrawVars == <<loanWithdrawn, collateralWithdrawn>>
deadlineVars == <<fundraisingDeadline, paybackDeadline>>
ledgerVars == <<terms, state, receivedCollateral, investVars, deadlineVars, withdrawVars>>
vars == <<now, tokenVars, ledgerVars>>

States == {"CollateralCollection", "Fundraising", "Payback", "Paidback", "Defaulted", "Canceled"}
Final == {"Paidback", "Defaulted", "Canceled"}

legalTransition ==
    {<<"CollateralCollection", "Fundraising">>,
     <<"Fundraising", "Payback">>, <<"Fundraising", "Canceled">>,
     <<"Payback", "Paidback">>, <<"Payback", "Defaulted">>}

newState(from, to) == <<from, to>> \in legalTransition /\ state' = to

TypeOK ==
    /\ now \in StartTime .. MaxTime
    /\ totalSupply \in [Tokens -> Uint(Word)]
    /\ balanceOf \in [Tokens -> [Addresses -> Uint(Word)]]
    /\ allowance \in [Tokens -> [Users -> Uint(Word)]]
    /\ terms \in Terms
    /\ state \in States
    /\ receivedCollateral \in Uint(Word)
    /\ amountInvested \in [Users -> Uint(Word)]
    /\ totalAmountInvested \in Uint(Word)
    /\ fundraisingDeadline \in Uint(TimeWord)
    /\ paybackDeadline \in Uint(TimeWord)
    /\ loanWithdrawn \in [Users -> Uint(Word)]
    /\ collateralWithdrawn \in [Users -> Uint(Word)]

-----------------------------------------------------------------------------
(* openAccount.  Its three overflow checks compare 256-bit sums of 64-bit   *)
(* values and hold whenever the deltas are positive.                        *)
openAccount(t) ==
    /\ t.fundraisingDelta > 0 /\ t.paybackDelta > 0 /\ t.amountWanted > 0
    /\ terms = t
    /\ state = "CollateralCollection"
    /\ receivedCollateral = 0
    /\ amountInvested = [u \in Users |-> 0] /\ totalAmountInvested = 0
    /\ fundraisingDeadline = 0 /\ paybackDeadline = 0
    /\ loanWithdrawn = [u \in Users |-> 0] /\ collateralWithdrawn = [u \in Users |-> 0]

Init ==
    /\ now = StartTime
    /\ balanceOf = [t \in Tokens |-> [a \in Addresses |-> IF a = Loan THEN 0 ELSE Endowment[t][a]]]
    /\ totalSupply = [t \in Tokens |-> Total(Endowment[t])]
    /\ allowance = [t \in Tokens |-> [u \in Users |-> 0]]
    /\ \E t \in Terms : openAccount(t)

-----------------------------------------------------------------------------
(* The clock and the tokens.                                               *)
Tick ==
    /\ now < MaxTime
    /\ now' = now + 1
    /\ UNCHANGED <<tokenVars, ledgerVars>>

print(t, who) ==
    /\ totalSupply[t] + PrintValue <= MaxSupply
    /\ AddMod(totalSupply[t], PrintValue, Word) >= totalSupply[t]
    /\ AddMod(balanceOf[t][who], PrintValue, Word) >= balanceOf[t][who]
    /\ totalSupply' = [totalSupply EXCEPT ![t] = AddMod(@, PrintValue, Word)]
    /\ balanceOf' = [balanceOf EXCEPT ![t][who] = AddMod(@, PrintValue, Word)]
    /\ UNCHANGED <<now, allowance, ledgerVars>>

Transfer(t, sender, to, v) ==
    /\ CanTransfer(balanceOf[t], sender, to, v)
    /\ balanceOf' = [balanceOf EXCEPT ![t] = Moved(@, sender, to, v)]
    /\ UNCHANGED <<now, totalSupply, allowance, ledgerVars>>

Approve(t, owner, v) ==
    /\ allowance' = [allowance EXCEPT ![t][owner] = v]
    /\ UNCHANGED <<now, totalSupply, balanceOf, ledgerVars>>

-----------------------------------------------------------------------------
(* What the contract computes.  A definition whose name continues another's  *)
(* after an underscore is that definition with a mistake a change to the    *)
(* code could make; the properties are tried against it.                   *)

(* The state every entry point with the modifier processTimeouts sees: the  *)
(* stored state, advanced when its deadline has passed.                     *)
currentState ==
    IF state = "Fundraising" /\ now > fundraisingDeadline THEN "Canceled"
    ELSE IF state = "Payback" /\ now > paybackDeadline THEN "Defaulted"
    ELSE state

processTimeouts == IF state = currentState THEN UNCHANGED state ELSE newState(state, currentState)

calculateInterest(investment) == MulMod(investment, terms.interestPermil, Word) \div PERMIL

paybackRequired_NoInterest == terms.amountWanted

paybackRequired ==
    AddMod(terms.amountWanted, calculateInterest(terms.amountWanted), Word)

(* What caller may withdraw in all, before what was withdrawn already.      *)
loanEntitlement(caller) ==
    LET invested == amountInvested[caller]
    IN CASE currentState = "Paidback" -> AddMod(invested, calculateInterest(invested), Word)
         [] currentState = "Canceled" -> invested
         [] OTHER -> 0

collateralEntitlement_DivideFirst(caller) ==
    CASE currentState \in {"Paidback", "Canceled"} /\ caller = terms.borrower -> receivedCollateral
      [] currentState = "Defaulted" ->
            (receivedCollateral \div totalAmountInvested) * amountInvested[caller]
      [] OTHER -> 0

collateralEntitlement(caller) ==
    CASE currentState \in {"Paidback", "Canceled"} /\ caller = terms.borrower -> receivedCollateral
      [] currentState = "Defaulted" ->
            MulMod(amountInvested[caller], receivedCollateral, Word) \div totalAmountInvested
      [] OTHER -> 0

canWithdrawLoanToken_Again(caller) == loanEntitlement(caller)

canWithdrawLoanToken(caller) ==
    IF currentState \in {"Paidback", "Canceled"}
    THEN SubMod(loanEntitlement(caller), loanWithdrawn[caller], Word) ELSE 0

canWithdrawCollateralToken_NotCanceled(caller) ==
    IF currentState = "Defaulted" \/ (currentState = "Paidback" /\ caller = terms.borrower)
    THEN SubMod(collateralEntitlement(caller), collateralWithdrawn[caller], Word) ELSE 0

canWithdrawCollateralToken(caller) ==
    IF currentState = "Defaulted" \/ (currentState \in {"Paidback", "Canceled"} /\ caller = terms.borrower)
    THEN SubMod(collateralEntitlement(caller), collateralWithdrawn[caller], Word) ELSE 0

-----------------------------------------------------------------------------
(* The transactions of Loan.sol.                                           *)

deadlinesFit_FundraisingOnly(deadline) == deadline > now

(* Neither the deadline nor a payback that starts at it wraps at 64 bits.   *)
deadlinesFit(deadline) ==
    /\ deadline > now
    /\ AddMod(deadline, terms.paybackDelta, TimeWord) > deadline

(* gatherCollateral: the borrower's whole allowance becomes the collateral. *)
gatherCollateral(caller) ==
    LET amount == allowance[CollateralToken][caller]
        deadline == AddMod(now, terms.fundraisingDelta, TimeWord)
    IN /\ state = "CollateralCollection"
       /\ caller = terms.borrower
       /\ amount > 0
       /\ newState(state, "Fundraising")
       /\ receivedCollateral' = AddMod(receivedCollateral, amount, Word)
       /\ fundraisingDeadline' = deadline
       /\ deadlinesFit(deadline)
       /\ CanTransferFrom(balanceOf[CollateralToken], amount, caller, Loan, amount)
       /\ balanceOf' = [balanceOf EXCEPT ![CollateralToken] = Moved(@, caller, Loan, amount)]
       /\ allowance' = [allowance EXCEPT ![CollateralToken][caller] = SubMod(@, amount, Word)]
       /\ UNCHANGED <<now, totalSupply, terms, investVars, paybackDeadline, withdrawVars>>

inFundraising_Stored == state = "Fundraising"
inPayback_Stored == state = "Payback"

(* processTimeouts, then the require on the state.                         *)
inFundraising == currentState = "Fundraising"
inPayback == currentState = "Payback"

investmentAmount_All(caller) == allowance[LoanToken][caller]

(* The amount the contract asks the token for: never more than is missing.  *)
investmentAmount(caller) ==
    LET needed == SubMod(terms.amountWanted, totalAmountInvested, Word)
        allowed == allowance[LoanToken][caller]
    IN IF allowed < needed THEN allowed ELSE needed

(* invest: the last investment also pays the loan out to the borrower.      *)
invest(caller) ==
    LET amount == investmentAmount(caller)
        total == AddMod(totalAmountInvested, amount, Word)
        received == Moved(balanceOf[LoanToken], caller, Loan, amount)
    IN /\ inFundraising
       /\ amount > 0
       /\ AddMod(amountInvested[caller], amount, Word) > amountInvested[caller]
       /\ total > totalAmountInvested
       /\ amountInvested' = [amountInvested EXCEPT ![caller] = AddMod(@, amount, Word)]
       /\ totalAmountInvested' = total
       /\ CanTransferFrom(balanceOf[LoanToken], allowance[LoanToken][caller], caller, Loan, amount)
       /\ allowance' = [allowance EXCEPT ![LoanToken][caller] = SubMod(@, amount, Word)]
       /\ \/ /\ total = terms.amountWanted
             /\ newState("Fundraising", "Payback")
             /\ paybackDeadline' = AddMod(now, terms.paybackDelta, TimeWord)
             /\ CanTransfer(received, Loan, terms.borrower, terms.amountWanted)
             /\ balanceOf' = [balanceOf EXCEPT ![LoanToken] =
                                 Moved(received, Loan, terms.borrower, terms.amountWanted)]
          \/ /\ total # terms.amountWanted
             /\ UNCHANGED state
             /\ balanceOf' = [balanceOf EXCEPT ![LoanToken] = received]
             /\ UNCHANGED paybackDeadline
       /\ UNCHANGED <<now, totalSupply, terms, receivedCollateral, fundraisingDeadline, withdrawVars>>

(* payback: all or nothing, and only the borrower's.  Another caller, or an *)
(* allowance that does not suffice, changes nothing.                        *)
payback(caller) ==
    LET amount == paybackRequired
    IN /\ inPayback
       /\ caller = terms.borrower
       /\ allowance[LoanToken][caller] >= amount
       /\ newState("Payback", "Paidback")
       /\ CanTransferFrom(balanceOf[LoanToken], allowance[LoanToken][caller], caller, Loan, amount)
       /\ balanceOf' = [balanceOf EXCEPT ![LoanToken] = Moved(@, caller, Loan, amount)]
       /\ allowance' = [allowance EXCEPT ![LoanToken][caller] = SubMod(@, amount, Word)]
       /\ UNCHANGED <<now, totalSupply, terms, receivedCollateral, investVars, deadlineVars, withdrawVars>>

(* state() and withdrawable(): they return a value and store the timeout.   *)
withdrawable ==
    /\ processTimeouts
    /\ UNCHANGED <<now, tokenVars, terms, receivedCollateral, investVars, deadlineVars, withdrawVars>>

(* The token allows the transfer that withdraw makes, if it makes one.      *)
paysOut(caller) ==
    LET loan == canWithdrawLoanToken(caller)
        collateral == canWithdrawCollateralToken(caller)
    IN IF loan > 0 THEN CanTransfer(balanceOf[LoanToken], Loan, caller, loan)
       ELSE collateral > 0 => CanTransfer(balanceOf[CollateralToken], Loan, caller, collateral)

(* withdraw pays out the loan tokens due to the caller, or, when there are  *)
(* none, the collateral; one call never pays both.                          *)
withdraw(caller) ==
    LET loan == canWithdrawLoanToken(caller)
        collateral == canWithdrawCollateralToken(caller)
    IN /\ processTimeouts
       /\ paysOut(caller)
       /\ \/ /\ loan > 0
             /\ loanWithdrawn' = [loanWithdrawn EXCEPT ![caller] = AddMod(@, loan, Word)]
             /\ balanceOf' = [balanceOf EXCEPT ![LoanToken] = Moved(@, Loan, caller, loan)]
             /\ UNCHANGED collateralWithdrawn
          \/ /\ loan = 0 /\ collateral > 0
             /\ collateralWithdrawn' = [collateralWithdrawn EXCEPT ![caller] = AddMod(@, collateral, Word)]
             /\ balanceOf' = [balanceOf EXCEPT ![CollateralToken] = Moved(@, Loan, caller, collateral)]
             /\ UNCHANGED loanWithdrawn
          \/ /\ loan = 0 /\ collateral = 0
             /\ UNCHANGED <<balanceOf, withdrawVars>>
       /\ UNCHANGED <<now, totalSupply, allowance, terms, receivedCollateral, investVars, deadlineVars>>

TokenStep ==
    \/ \E t \in Tokens, u \in Users : print(t, u)
    \/ \E a \in Approvals : Approve(a[1], a[2], a[3])
    \/ \E x \in Transfers : Transfer(x[1], x[2], x[3], x[4])

LoanStep ==
    \/ withdrawable
    \/ \E u \in Users : gatherCollateral(u) \/ invest(u) \/ payback(u) \/ withdraw(u)

Next == Tick \/ TokenStep \/ LoanStep

Spec == Init /\ [][Next]_vars

-----------------------------------------------------------------------------
(* The interest and the payback do not exceed 256 bits.  Nothing in the     *)
(* code checks it; what depends on it says so.                              *)
InterestFits ==
    /\ terms.amountWanted * (PERMIL + terms.interestPermil) < PERMIL * Word
    /\ terms.amountWanted * terms.interestPermil < Word

SharesFit == totalAmountInvested * receivedCollateral < Word

(* Every token is somewhere: no transaction of the loan creates or loses    *)
(* tokens, the two transfers of invest (InvestorLedger.sol:323-340)         *)
(* included, also when both tokens are the same contract.                   *)
Conservation == \A t \in Tokens : Total(balanceOf[t]) = totalSupply[t]

(* The denormalized sum (InvestorLedger.sol:131-132) is the sum of what the  *)
(* investors put in, never exceeds what the borrower wants, and reaches it  *)
(* exactly when the loan is handed out.                                     *)
FundsAddUp ==
    /\ Total(amountInvested) = totalAmountInvested
    /\ totalAmountInvested <= terms.amountWanted
    /\ (totalAmountInvested = terms.amountWanted) <=> (state \in {"Payback", "Paidback", "Defaulted"})
    /\ (receivedCollateral > 0) <=> (state # "CollateralCollection")

(* What the contract owes in each token: refunds while it raises funds, the *)
(* collateral while it holds it, and what its final state lets people       *)
(* withdraw.                                                               *)
loanTokensDue ==
    IF currentState = "Fundraising" THEN totalAmountInvested
    ELSE Total([u \in Users |-> canWithdrawLoanToken(u)])

collateralDue ==
    IF currentState \in {"Fundraising", "Payback"} THEN receivedCollateral
    ELSE Total([u \in Users |-> canWithdrawCollateralToken(u)])

(* The contract always holds what it owes, so no withdrawal can fail for    *)
(* lack of funds whatever the order of withdrawals, the rounding of the     *)
(* interest and of the shares, and with one token in both roles             *)
(* (InvestorLedger.sol:374-462).                                            *)
Solvent ==
    InterestFits =>
        IF LoanToken = CollateralToken
        THEN loanTokensDue + collateralDue <= balanceOf[LoanToken][Loan]
        ELSE /\ loanTokensDue <= balanceOf[LoanToken][Loan]
             /\ collateralDue <= balanceOf[CollateralToken][Loan]

(* Nobody withdraws twice or more than the final state entitles them to:    *)
(* withdrawals pay everything at once (InvestorLedger.sol:427-462).         *)
PaidOnce ==
    \A u \in Users :
        /\ loanWithdrawn[u] \in {0, loanEntitlement(u)}
        /\ collateralWithdrawn[u] \in {0, collateralEntitlement(u)}

(* Rounding down loses less than one unit per investor, both of the payback *)
(* and of a defaulted loan's collateral (InvestorLedger.sol:179-181, 418).  *)
DustBounded ==
    LET investors == Cardinality({u \in Users : amountInvested[u] > 0})
    IN InterestFits /\ SharesFit =>
        /\ currentState = "Paidback" =>
              LET shared == Total([u \in Users |-> loanEntitlement(u)])
              IN shared <= paybackRequired /\ paybackRequired - shared < investors
        /\ currentState = "Defaulted" =>
              LET shared == Total([u \in Users |-> collateralEntitlement(u)])
              IN shared <= receivedCollateral /\ receivedCollateral - shared < investors

(* Who gets the money has the whole paybackDelta to return it: the 64-bit   *)
(* sum of InvestorLedger.sol:317 cannot wrap, although only                 *)
(* collateralCollectionProcess checks a sum of that kind (lines 274-275).   *)
FullTimeToPay ==
    [][state' = "Payback" /\ state # "Payback" =>
          paybackDeadline' = now + terms.paybackDelta]_vars

(* An outcome is final from the moment the deadline passes, whether or not  *)
(* a transaction has recorded it yet (InvestorLedger.sol:240-254): a loan   *)
(* that timed out is never funded or paid back, and no outcome changes.     *)
OutcomeIsFinal == [][(currentState \in Final) => (currentState' = currentState)]_vars

(* The contract keeps its promise: its stored state, seen through the       *)
(* timeouts it has not recorded yet, follows LoanPromise, whose timeouts    *)
(* need no caller.                                                         *)
Promise == INSTANCE LoanPromise WITH
    phase <- currentState,
    deadline <- IF currentState \in {"Fundraising", "Canceled"} THEN fundraisingDeadline ELSE paybackDeadline,
    collateral <- receivedCollateral,
    pledged <- amountInvested,
    loanPaid <- loanWithdrawn,
    collateralPaid <- collateralWithdrawn

KeepsPromise == Promise!Spec

(* Time passes, and those who can withdraw do so.                          *)
FairSpec == Spec /\ WF_vars(Tick) /\ \A u \in Users : WF_vars(withdraw(u))

(* Once the collateral is in, the loan comes to an outcome and everyone is  *)
(* paid all they are entitled to: no deadline or withdrawal gets stuck.     *)
(* The premise leaves both deadlines before the bound of the clock.        *)
EventuallySettled ==
    (state = "Fundraising" /\ fundraisingDeadline + terms.paybackDelta < MaxTime) ~>
        /\ currentState \in Final
        /\ \A u \in Users :
              loanWithdrawn[u] = loanEntitlement(u) /\ collateralWithdrawn[u] = collateralEntitlement(u)
=============================================================================
