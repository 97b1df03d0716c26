------------------------ MODULE InvestorLedger_proofs ------------------------
(***************************************************************************)
(* Theorems about a loan, for every number of users and investments, all    *)
(* terms, any clock and any width of its integers.                         *)
(***************************************************************************)
EXTENDS InvestorLedger, BasicToken_proofs

(* openAccount accepts no empty loan and no empty period.                   *)
TermsPositive == terms.amountWanted > 0 /\ terms.fundraisingDelta > 0 /\ terms.paybackDelta > 0

(* What deadlinesFit established, in numbers that do not wrap.              *)
DeadlinesFit ==
    state # "CollateralCollection" => fundraisingDeadline + terms.paybackDelta < TimeWord

(* Nothing is withdrawn before the stored state is final.                   *)
UnpaidBeforeFinal ==
    state \notin Final => \A u \in Users : loanWithdrawn[u] = 0 /\ collateralWithdrawn[u] = 0

(* The inductive invariant.  FundsAddUp makes the divisor of a defaulted     *)
(* loan's shares positive, which their type needs.                         *)
IInv ==
    /\ TypeOK
    /\ Conservation
    /\ FundsAddUp
    /\ TermsPositive
    /\ DeadlinesFit
    /\ UnpaidBeforeFinal
    /\ PaidOnce

-----------------------------------------------------------------------------
(* Facts about the values the contract computes.                           *)

LEMMA Finite == IsFiniteSet(Users) /\ IsFiniteSet(Addresses) /\ Loan \in Addresses /\ Users \subseteq Addresses
<1>1. IsFiniteSet({Loan})
  BY FS_Singleton
<1>2. IsFiniteSet(Users)
  BY AddressAssumption
<1>3. IsFiniteSet(Users \cup {Loan})
  BY <1>1, <1>2, FS_Union
<1> QED
  BY <1>2, <1>3 DEF Addresses

LEMMA TermsType ==
  ASSUME TypeOK
  PROVE  /\ terms.borrower \in Users
         /\ terms.amountWanted \in Uint(Word) /\ terms.interestPermil \in Nat
         /\ terms.fundraisingDelta \in Uint(TimeWord) /\ terms.paybackDelta \in Uint(TimeWord)
BY TermsAssumption DEF TypeOK

LEMMA MulModType ==
  ASSUME NEW m \in Nat \ {0}, NEW x \in Nat, NEW y \in Nat
  PROVE  MulMod(x, y, m) \in Uint(m) /\ MulMod(x, y, m) <= x * y
<1>1. x * y \in Nat
  OBVIOUS
<1>2. \A z \in Nat : z % m \in 0 .. (m - 1) /\ z % m <= z
  OBVIOUS
<1> QED
  BY <1>1, <1>2 DEF MulMod, Uint

LEMMA DivType ==
  ASSUME NEW m \in Nat \ {0}, NEW x \in Uint(m), NEW d \in Nat \ {0}
  PROVE  x \div d \in Uint(m) /\ (x \div d) * d <= x
<1>1. x \div d \in Nat /\ x \div d <= x /\ (x \div d) * d <= x
  BY DEF Uint
<1> QED
  BY <1>1 DEF Uint

LEMMA InterestType ==
  ASSUME TypeOK, NEW x \in Uint(Word)
  PROVE  calculateInterest(x) \in Uint(Word)
<1>1. MulMod(x, terms.interestPermil, Word) \in Uint(Word)
  BY WidthAssumption, TermsType, MulModType DEF Uint
<1> QED
  BY <1>1, WidthAssumption, DivType DEF calculateInterest, PERMIL

LEMMA PaybackType ==
  ASSUME TypeOK
  PROVE  paybackRequired \in Uint(Word)
BY WidthAssumption, TermsType, InterestType, AddModType DEF paybackRequired

(* A loan can only be in default, recorded or not, after it was funded.     *)
LEMMA CurrentStates ==
  ASSUME TypeOK
  PROVE  /\ currentState \in States
         /\ state \in Final => currentState = state
         /\ currentState = "Paidback" => state = "Paidback"
         /\ currentState = "Canceled" => state \in {"Fundraising", "Canceled"}
         /\ currentState = "Defaulted" => state \in {"Payback", "Defaulted"}
         /\ currentState \in {"CollateralCollection", "Fundraising", "Payback"} => state = currentState
BY DEF TypeOK, currentState, States, Final

LEMMA EntitlementType ==
  ASSUME IInv, NEW u \in Users
  PROVE  loanEntitlement(u) \in Uint(Word) /\ collateralEntitlement(u) \in Uint(Word)
<1>1. /\ amountInvested[u] \in Uint(Word) /\ receivedCollateral \in Uint(Word)
      /\ totalAmountInvested \in Uint(Word) /\ 0 \in Uint(Word)
  BY WidthAssumption DEF IInv, TypeOK, Uint
<1>2. AddMod(amountInvested[u], calculateInterest(amountInvested[u]), Word) \in Uint(Word)
  BY <1>1, WidthAssumption, InterestType, AddModType DEF IInv
<1>3. loanEntitlement(u) \in Uint(Word)
  BY <1>1, <1>2 DEF loanEntitlement
<1>4. ASSUME currentState = "Defaulted"
      PROVE  MulMod(amountInvested[u], receivedCollateral, Word) \div totalAmountInvested \in Uint(Word)
  <2>1. totalAmountInvested \in Nat \ {0}
    <3>1. totalAmountInvested = terms.amountWanted /\ terms.amountWanted > 0
      BY <1>4, CurrentStates DEF IInv, FundsAddUp, TermsPositive
    <3> QED
      BY <1>1, <3>1 DEF Uint
  <2>2. MulMod(amountInvested[u], receivedCollateral, Word) \in Uint(Word)
    BY <1>1, WidthAssumption, MulModType DEF Uint
  <2> QED
    BY <2>1, <2>2, WidthAssumption, DivType
<1>5. collateralEntitlement(u) \in Uint(Word)
  BY <1>1, <1>4 DEF collateralEntitlement
<1> QED
  BY <1>3, <1>5

-----------------------------------------------------------------------------
(* What a transaction may do to the balances of one token.                  *)
LEMMA SetBalances ==
  ASSUME IInv, NEW t \in Tokens, NEW bal \in [Addresses -> Uint(Word)],
         Total(bal) = Total(balanceOf[t]),
         balanceOf' = [balanceOf EXCEPT ![t] = bal], UNCHANGED totalSupply
  PROVE  balanceOf' \in [Tokens -> [Addresses -> Uint(Word)]] /\ Conservation'
BY DEF IInv, TypeOK, Conservation

LEMMA MoveTokens ==
  ASSUME IInv, NEW t \in Tokens, NEW from \in Addresses, NEW to \in Addresses,
         NEW v \in Uint(Word), CanTransfer(balanceOf[t], from, to, v),
         balanceOf' = [balanceOf EXCEPT ![t] = Moved(@, from, to, v)], UNCHANGED totalSupply
  PROVE  balanceOf' \in [Tokens -> [Addresses -> Uint(Word)]] /\ Conservation'
<1>1. balanceOf[t] \in [Addresses -> Uint(Word)]
  BY DEF IInv, TypeOK
<1>2. Moved(balanceOf[t], from, to, v) \in [Addresses -> Uint(Word)]
  BY <1>1, WidthAssumption, MovedExact
<1>3. Total(Moved(balanceOf[t], from, to, v)) = Total(balanceOf[t])
  BY <1>1, WidthAssumption, Finite, MovedTotal
<1> QED
  BY <1>2, <1>3, SetBalances

(* Spending from an allowance keeps its type.                              *)
LEMMA SpendAllowance ==
  ASSUME TypeOK, NEW t \in Tokens, NEW u \in Users, NEW v \in Uint(Word),
         allowance' = [allowance EXCEPT ![t][u] = SubMod(@, v, Word)]
  PROVE  allowance' \in [Tokens -> [Users -> Uint(Word)]]
<1>1. allowance[t][u] \in Uint(Word)
  BY DEF TypeOK
<1>2. SubMod(allowance[t][u], v, Word) \in Uint(Word)
  BY <1>1, WidthAssumption, SubModType
<1> QED
  BY <1>2 DEF TypeOK

-----------------------------------------------------------------------------
LEMMA InitInv == Init => IInv
<1> SUFFICES ASSUME Init PROVE IInv
  OBVIOUS
<1>1. PICK t \in Terms : openAccount(t)
  BY DEF Init
<1>2. terms \in Terms
  BY <1>1 DEF openAccount
<1>3. TypeOK
  BY <1>1, WidthAssumption, TimeAssumption, EndowmentAssumption
     DEF Init, openAccount, TypeOK, Addresses, States, Uint
<1>4. Conservation
  <2>1. SUFFICES ASSUME NEW x \in Tokens PROVE Total(balanceOf[x]) = totalSupply[x]
    BY DEF Conservation
  <2>2. Endowment[x] \in [Users -> Uint(Word)]
    BY EndowmentAssumption
  <2>3. /\ DOMAIN balanceOf[x] = Users \cup {Loan} /\ balanceOf[x][Loan] = 0
        /\ \A u \in Users : balanceOf[x][u] = Endowment[x][u]
    BY AddressAssumption DEF Init, Addresses
  <2>4. Units(balanceOf[x]) = Units(Endowment[x])
    <3>1. {Loan} \X (1 .. balanceOf[x][Loan]) = {}
      BY <2>3
    <3> QED
      BY <2>2, <2>3, <3>1 DEF Units
  <2> QED
    BY <2>4 DEF Init, Total
<1>5. TermsPositive /\ DeadlinesFit /\ UnpaidBeforeFinal
  BY <1>1 DEF openAccount, TermsPositive, DeadlinesFit, UnpaidBeforeFinal
<1>6. FundsAddUp
  <2>1. terms.amountWanted \in Uint(Word)
    BY <1>3, TermsType
  <2> QED
    BY <1>1, <2>1, TotalZero DEF openAccount, FundsAddUp, Uint
<1>7. PaidOnce
  BY <1>1 DEF openAccount, PaidOnce
<1> QED
  BY <1>3, <1>4, <1>5, <1>6, <1>7 DEF IInv
-----------------------------------------------------------------------------
(* Steps of the clock and of the tokens leave the ledger alone.             *)
LEMMA LedgerFrame ==
  ASSUME IInv, UNCHANGED ledgerVars
  PROVE  FundsAddUp' /\ TermsPositive' /\ DeadlinesFit' /\ UnpaidBeforeFinal' /\ PaidOnce'
<1> USE DEF ledgerVars, investVars, deadlineVars, withdrawVars
<1>1. FundsAddUp' /\ TermsPositive' /\ DeadlinesFit' /\ UnpaidBeforeFinal'
  BY DEF IInv, FundsAddUp, TermsPositive, DeadlinesFit, UnpaidBeforeFinal
<1>2. PaidOnce'
  <2>1. CASE state \in Final
    <3>1. currentState = state /\ currentState' = currentState
      BY <2>1 DEF currentState, Final
    <3>2. \A u \in Users : /\ loanEntitlement(u)' = loanEntitlement(u)
                           /\ collateralEntitlement(u)' = collateralEntitlement(u)
      BY <3>1 DEF loanEntitlement, collateralEntitlement, calculateInterest
    <3> QED
      BY <3>2 DEF IInv, PaidOnce
  <2>2. CASE state \notin Final
    BY <2>2 DEF IInv, UnpaidBeforeFinal, PaidOnce
  <2> QED
    BY <2>1, <2>2
<1> QED
  BY <1>1, <1>2

LEMMA TickStep == IInv /\ Tick => IInv'
<1> SUFFICES ASSUME IInv, Tick PROVE IInv'
  OBVIOUS
<1>1. TypeOK'
  BY TimeAssumption
     DEF IInv, Tick, TypeOK, Uint, tokenVars, ledgerVars, investVars, deadlineVars, withdrawVars
<1>2. Conservation'
  BY DEF IInv, Tick, Conservation, tokenVars
<1> QED
  BY <1>1, <1>2, LedgerFrame DEF IInv, Tick

LEMMA PrintStep ==
  ASSUME IInv, NEW t \in Tokens, NEW who \in Users, print(t, who)
  PROVE  IInv'
<1> DEFINE bal == [balanceOf[t] EXCEPT ![who] = AddMod(@, PrintValue, Word)]
<1>1. /\ PrintValue \in Uint(Word) /\ who \in Addresses
      /\ balanceOf[t] \in [Addresses -> Uint(Word)] /\ totalSupply[t] \in Uint(Word)
  BY AmountAssumption, Finite DEF IInv, TypeOK
<1>2. /\ AddMod(totalSupply[t], PrintValue, Word) = totalSupply[t] + PrintValue
      /\ AddMod(totalSupply[t], PrintValue, Word) \in Uint(Word)
  BY <1>1, WidthAssumption, AddModType DEF print
<1>3. /\ AddMod(balanceOf[t][who], PrintValue, Word) = balanceOf[t][who] + PrintValue
      /\ AddMod(balanceOf[t][who], PrintValue, Word) \in Uint(Word)
  BY <1>1, WidthAssumption, AddModType DEF print
<1>4. /\ bal \in [Addresses -> Uint(Word)] /\ bal[who] = balanceOf[t][who] + PrintValue
      /\ \A c \in Addresses \ {who} : bal[c] = balanceOf[t][c]
  BY <1>1, <1>3
<1>5. balanceOf' = [balanceOf EXCEPT ![t] = bal]
  BY <1>1 DEF print, IInv, TypeOK
<1> HIDE DEF bal
<1>6. Total(bal) = Total(balanceOf[t]) + PrintValue
  <2>1. balanceOf[t] \in [Addresses -> Nat] /\ bal \in [Addresses -> Nat]
    BY <1>1, <1>4 DEF Uint
  <2>2. Total(bal) + balanceOf[t][who] = Total(balanceOf[t]) + bal[who]
    BY <1>1, <1>4, <2>1, Finite, TotalChange
  <2>3. Total(bal) \in Nat /\ Total(balanceOf[t]) \in Nat
    BY <2>1, Finite, TotalType
  <2> QED
    BY <1>1, <1>4, <2>2, <2>3 DEF Uint
<1>7. TypeOK'
  BY <1>2, <1>4, <1>5
     DEF print, IInv, TypeOK, ledgerVars, investVars, deadlineVars, withdrawVars
<1>8. Conservation'
  BY <1>1, <1>2, <1>4, <1>5, <1>6 DEF print, IInv, TypeOK, Conservation
<1> QED
  BY <1>7, <1>8, LedgerFrame DEF IInv, print

LEMMA TransferStep ==
  ASSUME IInv, NEW t \in Tokens, NEW sender \in Users, NEW to \in Addresses,
         NEW v \in Uint(Word), Transfer(t, sender, to, v)
  PROVE  IInv'
<1>1. balanceOf' \in [Tokens -> [Addresses -> Uint(Word)]] /\ Conservation'
  BY Finite, MoveTokens DEF Transfer
<1>2. TypeOK'
  BY <1>1 DEF Transfer, IInv, TypeOK, ledgerVars, investVars, deadlineVars, withdrawVars
<1> QED
  BY <1>1, <1>2, LedgerFrame DEF IInv, Transfer

LEMMA ApproveStep ==
  ASSUME IInv, NEW t \in Tokens, NEW owner \in Users, NEW v \in Uint(Word), Approve(t, owner, v)
  PROVE  IInv'
<1>1. TypeOK'
  BY DEF Approve, IInv, TypeOK, ledgerVars, investVars, deadlineVars, withdrawVars
<1>2. Conservation'
  BY DEF Approve, IInv, Conservation
<1> QED
  BY <1>1, <1>2, LedgerFrame DEF IInv, Approve
-----------------------------------------------------------------------------
(* The transactions of the loan.                                           *)

(* The sum of the clock and a period is a 64-bit number.                    *)
LEMMA Deadlines ==
  ASSUME TypeOK, NEW d \in Uint(TimeWord)
  PROVE  AddMod(now, d, TimeWord) \in Uint(TimeWord)
<1>1. now \in Uint(TimeWord)
  BY TimeAssumption, WidthAssumption DEF TypeOK, Uint
<1> QED
  BY <1>1, WidthAssumption, AddModType

LEMMA GatherStep ==
  ASSUME IInv, NEW u \in Users, gatherCollateral(u)
  PROVE  IInv'
<1> DEFINE amount == allowance[CollateralToken][u]
           deadline == AddMod(now, terms.fundraisingDelta, TimeWord)
<1>1. /\ state = "CollateralCollection" /\ state' = "Fundraising" /\ amount > 0
      /\ receivedCollateral' = AddMod(receivedCollateral, amount, Word)
      /\ fundraisingDeadline' = deadline /\ deadlinesFit(deadline)
      /\ CanTransfer(balanceOf[CollateralToken], u, Loan, amount)
      /\ balanceOf' = [balanceOf EXCEPT ![CollateralToken] = Moved(@, u, Loan, amount)]
      /\ allowance' = [allowance EXCEPT ![CollateralToken][u] = SubMod(@, amount, Word)]
      /\ UNCHANGED <<now, totalSupply, terms, investVars, paybackDeadline, withdrawVars>>
  BY DEF gatherCollateral, CanTransferFrom, newState
<1> HIDE DEF amount, deadline
<1>2. CollateralToken \in Tokens /\ amount \in Uint(Word) /\ deadline \in Uint(TimeWord)
  BY TermsType, Deadlines DEF IInv, TypeOK, Tokens, amount, deadline
<1>3. /\ receivedCollateral' \in Uint(Word) /\ receivedCollateral' > 0
  <2>1. receivedCollateral = 0
    BY <1>1 DEF IInv, TypeOK, FundsAddUp, Uint
  <2> QED
    BY <1>1, <1>2, <2>1, WidthAssumption DEF AddMod, Uint
<1>4. balanceOf' \in [Tokens -> [Addresses -> Uint(Word)]] /\ Conservation'
  BY <1>1, <1>2, Finite, MoveTokens
<1>5. allowance' \in [Tokens -> [Users -> Uint(Word)]]
  BY <1>1, <1>2, SpendAllowance DEF IInv
<1>6. TypeOK'
  BY <1>1, <1>2, <1>3, <1>4, <1>5 DEF IInv, TypeOK, States, investVars, withdrawVars
<1>7. FundsAddUp'
  BY <1>1, <1>3 DEF IInv, FundsAddUp, investVars
<1>8. DeadlinesFit'
  <2>1. terms.paybackDelta \in Uint(TimeWord)
    BY TermsType DEF IInv
  <2>2. deadline + terms.paybackDelta < TimeWord
    BY <1>1, <1>2, <2>1, WidthAssumption DEF deadlinesFit, AddMod, Uint
  <2> QED
    BY <1>1, <2>2 DEF DeadlinesFit
<1>9. UnpaidBeforeFinal' /\ PaidOnce'
  BY <1>1 DEF IInv, UnpaidBeforeFinal, PaidOnce, Final, withdrawVars
<1> QED
  BY <1>1, <1>4, <1>6, <1>7, <1>8, <1>9 DEF IInv, TermsPositive

(* An investment is exact, positive and never more than is missing.         *)
LEMMA Investment ==
  ASSUME IInv, NEW u \in Users, invest(u)
  PROVE  /\ investmentAmount(u) \in Uint(Word) /\ investmentAmount(u) > 0
         /\ AddMod(totalAmountInvested, investmentAmount(u), Word) =
               totalAmountInvested + investmentAmount(u)
         /\ AddMod(amountInvested[u], investmentAmount(u), Word) =
               amountInvested[u] + investmentAmount(u)
         /\ totalAmountInvested + investmentAmount(u) <= terms.amountWanted
         /\ totalAmountInvested + investmentAmount(u) \in Uint(Word)
         /\ amountInvested[u] + investmentAmount(u) \in Uint(Word)
<1>1. /\ terms.amountWanted \in Uint(Word) /\ totalAmountInvested \in Uint(Word)
      /\ amountInvested[u] \in Uint(Word) /\ allowance[LoanToken][u] \in Uint(Word)
      /\ totalAmountInvested <= terms.amountWanted
  BY TermsType DEF IInv, TypeOK, FundsAddUp, Tokens
<1>2. /\ investmentAmount(u) \in Uint(Word)
      /\ investmentAmount(u) <= terms.amountWanted - totalAmountInvested
  BY <1>1, WidthAssumption DEF investmentAmount, SubMod, Uint
<1>3. /\ investmentAmount(u) > 0
      /\ AddMod(amountInvested[u], investmentAmount(u), Word) > amountInvested[u]
      /\ AddMod(totalAmountInvested, investmentAmount(u), Word) > totalAmountInvested
  BY DEF invest
<1> HIDE DEF IInv
<1> QED
  BY <1>1, <1>2, <1>3, WidthAssumption DEF AddMod, Uint
LEMMA InvestStep ==
  ASSUME IInv, NEW u \in Users, invest(u)
  PROVE  IInv'
<1> DEFINE amount == investmentAmount(u)
           received == Moved(balanceOf[LoanToken], u, Loan, amount)
           handedOut == Moved(received, Loan, terms.borrower, terms.amountWanted)
           total == AddMod(totalAmountInvested, amount, Word)
<1>1. /\ state = "Fundraising"
      /\ amountInvested' = [amountInvested EXCEPT ![u] = AddMod(@, amount, Word)]
      /\ totalAmountInvested' = total
      /\ CanTransfer(balanceOf[LoanToken], u, Loan, amount)
      /\ allowance' = [allowance EXCEPT ![LoanToken][u] = SubMod(@, amount, Word)]
      /\ UNCHANGED <<now, totalSupply, terms, receivedCollateral, fundraisingDeadline, withdrawVars>>
  BY CurrentStates DEF invest, CanTransferFrom, inFundraising, IInv
<1>2. \/ /\ total = terms.amountWanted /\ state' = "Payback"
         /\ paybackDeadline' = AddMod(now, terms.paybackDelta, TimeWord)
         /\ CanTransfer(received, Loan, terms.borrower, terms.amountWanted)
         /\ balanceOf' = [balanceOf EXCEPT ![LoanToken] = handedOut]
      \/ /\ total # terms.amountWanted /\ state' = "Fundraising" /\ UNCHANGED paybackDeadline
         /\ balanceOf' = [balanceOf EXCEPT ![LoanToken] = received]
  BY <1>1 DEF invest, newState
<1>3. /\ amount \in Uint(Word) /\ amount > 0
      /\ total = totalAmountInvested + amount
      /\ AddMod(amountInvested[u], amount, Word) = amountInvested[u] + amount
      /\ totalAmountInvested + amount <= terms.amountWanted
      /\ totalAmountInvested + amount \in Uint(Word)
      /\ amountInvested[u] + amount \in Uint(Word)
  BY Investment
<1> HIDE DEF amount, total
<1>4. /\ LoanToken \in Tokens /\ balanceOf[LoanToken] \in [Addresses -> Uint(Word)]
      /\ terms.borrower \in Addresses /\ terms.amountWanted \in Uint(Word)
      /\ terms.paybackDelta \in Uint(TimeWord) /\ u \in Addresses /\ Loan \in Addresses
  BY TermsType, Finite DEF IInv, TypeOK, Tokens
<1>5. balanceOf' \in [Tokens -> [Addresses -> Uint(Word)]] /\ Conservation'
  <2>1. received \in [Addresses -> Uint(Word)] /\ Total(received) = Total(balanceOf[LoanToken])
    BY <1>1, <1>3, <1>4, WidthAssumption, Finite, MovedExact, MovedTotal
  <2> HIDE DEF received
  <2>2. ASSUME CanTransfer(received, Loan, terms.borrower, terms.amountWanted)
        PROVE  handedOut \in [Addresses -> Uint(Word)] /\ Total(handedOut) = Total(received)
    BY <1>4, <2>1, <2>2, WidthAssumption, Finite, MovedExact, MovedTotal
  <2> HIDE DEF handedOut
  <2>3. totalSupply' = totalSupply
    BY <1>1
  <2>4. CASE balanceOf' = [balanceOf EXCEPT ![LoanToken] = received]
    BY <1>4, <2>1, <2>3, <2>4, SetBalances
  <2>5. CASE /\ balanceOf' = [balanceOf EXCEPT ![LoanToken] = handedOut]
             /\ CanTransfer(received, Loan, terms.borrower, terms.amountWanted)
    BY <1>4, <2>1, <2>2, <2>3, <2>5, SetBalances
  <2> QED
    BY <1>2, <2>4, <2>5
<1>6. TypeOK'
  <2>1. allowance' \in [Tokens -> [Users -> Uint(Word)]]
    BY <1>1, <1>3, <1>4, SpendAllowance DEF IInv
  <2>2. amountInvested' \in [Users -> Uint(Word)] /\ totalAmountInvested' \in Uint(Word)
    BY <1>1, <1>3 DEF IInv, TypeOK
  <2>3. paybackDeadline' \in Uint(TimeWord)
    BY <1>2, <1>4, Deadlines DEF IInv, TypeOK
  <2>4. state' \in States
    BY <1>2 DEF States
  <2> QED
    BY <1>1, <1>5, <2>1, <2>2, <2>3, <2>4 DEF IInv, TypeOK, withdrawVars
<1>7. FundsAddUp'
  <2>1. amountInvested \in [Users -> Nat] /\ amountInvested' \in [Users -> Nat]
    BY <1>1, <1>3 DEF IInv, TypeOK, Uint
  <2>2. /\ amountInvested'[u] = amountInvested[u] + amount
        /\ \A c \in Users \ {u} : amountInvested'[c] = amountInvested[c]
    BY <1>1, <1>3, <2>1
  <2>3. IsFiniteSet(Users)
    BY Finite
  <2>4. Total(amountInvested') + amountInvested[u] = Total(amountInvested) + amountInvested'[u]
    BY <2>1, <2>2, <2>3, TotalChange
  <2>5. Total(amountInvested') \in Nat /\ Total(amountInvested) \in Nat
    BY <2>1, <2>3, TotalType
  <2>6. Total(amountInvested') = totalAmountInvested'
    BY <1>1, <1>3, <2>1, <2>2, <2>4, <2>5 DEF IInv, FundsAddUp, Uint
  <2> QED
    BY <1>1, <1>2, <1>3, <2>6 DEF IInv, FundsAddUp
<1>8. DeadlinesFit' /\ UnpaidBeforeFinal' /\ PaidOnce'
  BY <1>1, <1>2 DEF IInv, DeadlinesFit, UnpaidBeforeFinal, PaidOnce, Final, withdrawVars
<1> QED
  BY <1>1, <1>5, <1>6, <1>7, <1>8 DEF IInv, TermsPositive

LEMMA PaybackStep ==
  ASSUME IInv, NEW u \in Users, payback(u)
  PROVE  IInv'
<1> DEFINE amount == paybackRequired
<1>1. /\ state = "Payback" /\ state' = "Paidback"
      /\ CanTransfer(balanceOf[LoanToken], u, Loan, amount)
      /\ balanceOf' = [balanceOf EXCEPT ![LoanToken] = Moved(@, u, Loan, amount)]
      /\ allowance' = [allowance EXCEPT ![LoanToken][u] = SubMod(@, amount, Word)]
      /\ UNCHANGED <<now, totalSupply, terms, receivedCollateral, investVars, deadlineVars, withdrawVars>>
  BY CurrentStates DEF payback, CanTransferFrom, inPayback, newState, IInv
<1>2. amount \in Uint(Word) /\ LoanToken \in Tokens
  BY PaybackType DEF IInv, Tokens
<1> HIDE DEF amount
<1>3. balanceOf' \in [Tokens -> [Addresses -> Uint(Word)]] /\ Conservation'
  BY <1>1, <1>2, Finite, MoveTokens
<1>4. allowance' \in [Tokens -> [Users -> Uint(Word)]]
  BY <1>1, <1>2, SpendAllowance DEF IInv
<1>5. TypeOK'
  BY <1>1, <1>3, <1>4 DEF IInv, TypeOK, States, investVars, deadlineVars, withdrawVars
<1>6. FundsAddUp' /\ DeadlinesFit'
  BY <1>1 DEF IInv, FundsAddUp, DeadlinesFit, investVars, deadlineVars
<1>7. UnpaidBeforeFinal' /\ PaidOnce'
  BY <1>1 DEF IInv, UnpaidBeforeFinal, PaidOnce, Final, withdrawVars
<1> QED
  BY <1>1, <1>3, <1>5, <1>6, <1>7 DEF IInv, TermsPositive
(* Recording a timeout keeps the parts of the invariant that speak of the   *)
(* stored state, and changes nothing about what anybody is entitled to.     *)
LEMMA Timeouts ==
  ASSUME IInv, processTimeouts,
         UNCHANGED <<now, terms, receivedCollateral, investVars, deadlineVars>>
  PROVE  /\ state' = currentState /\ state' \in States /\ currentState' = currentState
         /\ FundsAddUp' /\ TermsPositive' /\ DeadlinesFit'
         /\ \A u \in Users : /\ loanEntitlement(u)' = loanEntitlement(u)
                            /\ collateralEntitlement(u)' = collateralEntitlement(u)
<1>1. state' = currentState /\ state' \in States
  BY CurrentStates DEF processTimeouts, newState, IInv
<1>2. currentState' = currentState
  BY <1>1 DEF currentState, deadlineVars
<1>3. \/ state' = state
      \/ state = "Fundraising" /\ state' = "Canceled"
      \/ state = "Payback" /\ state' = "Defaulted"
  BY <1>1 DEF currentState
<1>4. FundsAddUp' /\ TermsPositive' /\ DeadlinesFit'
  BY <1>3 DEF IInv, FundsAddUp, TermsPositive, DeadlinesFit, investVars, deadlineVars
<1>5. \A u \in Users : /\ loanEntitlement(u)' = loanEntitlement(u)
                       /\ collateralEntitlement(u)' = collateralEntitlement(u)
  BY <1>2 DEF loanEntitlement, collateralEntitlement, calculateInterest, investVars
<1> QED
  BY <1>1, <1>2, <1>4, <1>5

LEMMA WithdrawableStep == IInv /\ withdrawable => IInv'
<1> SUFFICES ASSUME IInv, withdrawable PROVE IInv'
  OBVIOUS
<1>1. /\ state' = currentState /\ state' \in States
      /\ FundsAddUp' /\ TermsPositive' /\ DeadlinesFit'
      /\ \A u \in Users : /\ loanEntitlement(u)' = loanEntitlement(u)
                         /\ collateralEntitlement(u)' = collateralEntitlement(u)
  BY Timeouts DEF withdrawable
<1>2. TypeOK' /\ Conservation'
  BY <1>1 DEF withdrawable, IInv, TypeOK, Conservation, tokenVars, investVars, deadlineVars, withdrawVars
<1>3. UnpaidBeforeFinal'
  BY <1>1, CurrentStates DEF withdrawable, IInv, UnpaidBeforeFinal, withdrawVars
<1>4. PaidOnce'
  BY <1>1 DEF withdrawable, IInv, PaidOnce, withdrawVars
<1> QED
  BY <1>1, <1>2, <1>3, <1>4 DEF IInv

(* What can be withdrawn is all or nothing.                                *)
LEMMA Withdrawal ==
  ASSUME IInv, NEW u \in Users
  PROVE  /\ canWithdrawLoanToken(u) \in Uint(Word)
         /\ canWithdrawLoanToken(u) > 0 =>
               /\ loanWithdrawn[u] = 0 /\ currentState \in Final
               /\ AddMod(loanWithdrawn[u], canWithdrawLoanToken(u), Word) = loanEntitlement(u)
         /\ canWithdrawCollateralToken(u) \in Uint(Word)
         /\ canWithdrawCollateralToken(u) > 0 =>
               /\ collateralWithdrawn[u] = 0 /\ currentState \in Final
               /\ AddMod(collateralWithdrawn[u], canWithdrawCollateralToken(u), Word) = collateralEntitlement(u)
<1>1. /\ loanEntitlement(u) \in Uint(Word) /\ collateralEntitlement(u) \in Uint(Word)
      /\ loanWithdrawn[u] \in {0, loanEntitlement(u)}
      /\ collateralWithdrawn[u] \in {0, collateralEntitlement(u)}
  BY EntitlementType DEF IInv, PaidOnce
<1>2. canWithdrawLoanToken(u) \in {0, SubMod(loanEntitlement(u), loanWithdrawn[u], Word)}
      /\ (canWithdrawLoanToken(u) # 0 => currentState \in Final)
  BY DEF canWithdrawLoanToken, Final
<1>3. canWithdrawCollateralToken(u) \in {0, SubMod(collateralEntitlement(u), collateralWithdrawn[u], Word)}
      /\ (canWithdrawCollateralToken(u) # 0 => currentState \in Final)
  BY DEF canWithdrawCollateralToken, Final
<1>4. \A e \in Uint(Word) : /\ SubMod(e, 0, Word) = e /\ SubMod(e, e, Word) = 0
                            /\ AddMod(0, e, Word) = e
  BY WidthAssumption DEF SubMod, AddMod, Uint
<1>5. 0 \in Uint(Word)
  BY WidthAssumption DEF Uint
<1> QED
  BY <1>1, <1>2, <1>3, <1>4, <1>5

LEMMA WithdrawStep ==
  ASSUME IInv, NEW u \in Users, withdraw(u)
  PROVE  IInv'
<1> DEFINE loan == canWithdrawLoanToken(u)
           collateral == canWithdrawCollateralToken(u)
<1>1. /\ state' = currentState /\ state' \in States
      /\ FundsAddUp' /\ TermsPositive' /\ DeadlinesFit'
      /\ \A c \in Users : /\ loanEntitlement(c)' = loanEntitlement(c)
                         /\ collateralEntitlement(c)' = collateralEntitlement(c)
  BY Timeouts DEF withdraw
<1>2. UNCHANGED <<now, totalSupply, allowance, terms, receivedCollateral, investVars, deadlineVars>>
  BY DEF withdraw
<1>3. LoanToken \in Tokens /\ CollateralToken \in Tokens /\ u \in Addresses /\ Loan \in Addresses
  BY Finite DEF Tokens
<1>4. loan \in Uint(Word) /\ collateral \in Uint(Word)
  BY Withdrawal
<1>5. CASE /\ loan > 0
           /\ loanWithdrawn' = [loanWithdrawn EXCEPT ![u] = AddMod(@, loan, Word)]
           /\ CanTransfer(balanceOf[LoanToken], Loan, u, loan)
           /\ balanceOf' = [balanceOf EXCEPT ![LoanToken] = Moved(@, Loan, u, loan)]
           /\ UNCHANGED collateralWithdrawn
  <2>1. AddMod(loanWithdrawn[u], loan, Word) = loanEntitlement(u) /\ currentState \in Final
    BY <1>5, Withdrawal
  <2>2. loanEntitlement(u) \in Uint(Word)
    BY EntitlementType
  <2> HIDE DEF loan
  <2>3. balanceOf' \in [Tokens -> [Addresses -> Uint(Word)]] /\ Conservation'
    BY <1>2, <1>3, <1>4, <1>5, MoveTokens
  <2>4. loanWithdrawn' = [loanWithdrawn EXCEPT ![u] = loanEntitlement(u)]
    BY <1>5, <2>1 DEF IInv, TypeOK
  <2>5. TypeOK'
    BY <1>1, <1>2, <1>5, <2>2, <2>3, <2>4 DEF IInv, TypeOK, investVars, deadlineVars
  <2>6. UnpaidBeforeFinal'
    BY <1>1, <2>1 DEF UnpaidBeforeFinal
  <2>7. PaidOnce'
    BY <1>1, <1>5, <2>4 DEF IInv, TypeOK, PaidOnce
  <2> QED
    BY <1>1, <2>3, <2>5, <2>6, <2>7 DEF IInv
<1>6. CASE /\ loan = 0 /\ collateral > 0
           /\ collateralWithdrawn' = [collateralWithdrawn EXCEPT ![u] = AddMod(@, collateral, Word)]
           /\ CanTransfer(balanceOf[CollateralToken], Loan, u, collateral)
           /\ balanceOf' = [balanceOf EXCEPT ![CollateralToken] = Moved(@, Loan, u, collateral)]
           /\ UNCHANGED loanWithdrawn
  <2>1. /\ AddMod(collateralWithdrawn[u], collateral, Word) = collateralEntitlement(u)
        /\ currentState \in Final
    BY <1>6, Withdrawal
  <2>2. collateralEntitlement(u) \in Uint(Word)
    BY EntitlementType
  <2> HIDE DEF loan, collateral
  <2>3. balanceOf' \in [Tokens -> [Addresses -> Uint(Word)]] /\ Conservation'
    BY <1>2, <1>3, <1>4, <1>6, MoveTokens
  <2>4. collateralWithdrawn' = [collateralWithdrawn EXCEPT ![u] = collateralEntitlement(u)]
    BY <1>6, <2>1 DEF IInv, TypeOK
  <2>5. TypeOK'
    BY <1>1, <1>2, <1>6, <2>2, <2>3, <2>4 DEF IInv, TypeOK, investVars, deadlineVars
  <2>6. UnpaidBeforeFinal'
    BY <1>1, <2>1 DEF UnpaidBeforeFinal
  <2>7. PaidOnce'
    BY <1>1, <1>6, <2>4 DEF IInv, TypeOK, PaidOnce
  <2> QED
    BY <1>1, <2>3, <2>5, <2>6, <2>7 DEF IInv
<1>7. CASE UNCHANGED <<balanceOf, withdrawVars>>
  <2>1. withdrawable
    BY <1>2, <1>7 DEF withdraw, withdrawable, tokenVars
  <2> QED
    BY <2>1, WithdrawableStep
<1> QED
  BY <1>5, <1>6, <1>7 DEF withdraw, paysOut

LEMMA StepInv == IInv /\ [Next]_vars => IInv'
<1> SUFFICES ASSUME IInv, [Next]_vars PROVE IInv'
  OBVIOUS
<1>1. CASE Tick
  BY <1>1, TickStep
<1>2. CASE TokenStep
  <2>1. ASSUME NEW t \in Tokens, NEW u \in Users, print(t, u) PROVE IInv'
    BY <2>1, PrintStep
  <2>2. ASSUME NEW a \in Approvals, Approve(a[1], a[2], a[3]) PROVE IInv'
    <3>1. a[1] \in Tokens /\ a[2] \in Users /\ a[3] \in Uint(Word)
      BY AmountAssumption
    <3> QED
      BY <2>2, <3>1, ApproveStep
  <2>3. ASSUME NEW x \in Transfers, Transfer(x[1], x[2], x[3], x[4]) PROVE IInv'
    <3>1. x[1] \in Tokens /\ x[2] \in Users /\ x[3] \in Addresses /\ x[4] \in Uint(Word)
      BY AmountAssumption
    <3> QED
      BY <2>3, <3>1, TransferStep
  <2> QED
    BY <1>2, <2>1, <2>2, <2>3 DEF TokenStep
<1>3. CASE LoanStep
  BY <1>3, WithdrawableStep, GatherStep, InvestStep, PaybackStep, WithdrawStep DEF LoanStep
<1>4. CASE UNCHANGED vars
  <2>1. TypeOK' /\ Conservation'
    BY <1>4 DEF vars, tokenVars, ledgerVars, investVars, deadlineVars, withdrawVars, IInv, TypeOK, Conservation
  <2> QED
    BY <1>4, <2>1, LedgerFrame DEF vars, IInv
<1> QED
  BY <1>1, <1>2, <1>3, <1>4 DEF Next

-----------------------------------------------------------------------------
(* No balance, deadline or counter of a loan leaves its width, and no       *)
(* division by zero occurs (InvestorLedger.sol:112-151, 397-423).            *)
THEOREM TypeCorrect == Spec => []TypeOK
<1>1. IInv => TypeOK
  BY DEF IInv
<1> QED
  BY <1>1, InitInv, StepInv, PTL DEF Spec

(* The loan's transactions and the token's own neither create nor lose      *)
(* tokens (InvestorLedger.sol:261-462).                                     *)
THEOREM TokensConserved == Spec => []Conservation
<1>1. IInv => Conservation
  BY DEF IInv
<1> QED
  BY <1>1, InitInv, StepInv, PTL DEF Spec

(* The stored total is the sum of the investments and reaches the amount    *)
(* wanted exactly when the loan is handed out (InvestorLedger.sol:293-343).  *)
THEOREM FundsConsistent == Spec => []FundsAddUp
<1>1. IInv => FundsAddUp
  BY DEF IInv
<1> QED
  BY <1>1, InitInv, StepInv, PTL DEF Spec

(* Nobody is paid twice, in either token (InvestorLedger.sol:427-462).       *)
THEOREM NobodyPaidTwice == Spec => []PaidOnce
<1>1. IInv => PaidOnce
  BY DEF IInv
<1> QED
  BY <1>1, InitInv, StepInv, PTL DEF Spec
(* A borrower who gets the money has the whole paybackDelta to return it,   *)
(* although invest adds 64-bit numbers unchecked (InvestorLedger.sol:317):   *)
(* it only runs while the deadline that gatherCollateral checked lies ahead. *)
THEOREM WholePaybackPeriod == Spec => FullTimeToPay
<1>1. ASSUME IInv, [Next]_vars, state' = "Payback", state # "Payback"
      PROVE  paybackDeadline' = now + terms.paybackDelta
  <2> USE <1>1
  <2>1. PICK u \in Users : invest(u)
    <3>1. ~Tick /\ ~TokenStep /\ ~UNCHANGED vars
      BY DEF Tick, TokenStep, print, Approve, Transfer, vars, ledgerVars
    <3>2. ~withdrawable /\ \A u \in Users : ~withdraw(u)
      BY CurrentStates DEF withdrawable, withdraw, processTimeouts, newState, IInv
    <3>3. \A u \in Users : ~gatherCollateral(u) /\ ~payback(u)
      BY DEF gatherCollateral, payback, newState
    <3> QED
      BY <3>1, <3>2, <3>3 DEF Next, LoanStep
  <2>2. paybackDeadline' = AddMod(now, terms.paybackDelta, TimeWord)
    BY <2>1 DEF invest
  <2>3. state = "Fundraising" /\ ~(now > fundraisingDeadline)
    BY <2>1, CurrentStates DEF invest, inFundraising, currentState, IInv
  <2>4. fundraisingDeadline + terms.paybackDelta < TimeWord
    BY <2>3 DEF IInv, DeadlinesFit
  <2>5. /\ now \in Nat /\ terms.paybackDelta \in Nat /\ fundraisingDeadline \in Nat
        /\ TimeWord \in Nat
    BY TermsType, TimeAssumption, WidthAssumption DEF IInv, TypeOK, Uint
  <2> QED
    BY <2>2, <2>3, <2>4, <2>5 DEF AddMod
<1> QED
  BY <1>1, InitInv, StepInv, PTL DEF Spec, FullTimeToPay

(* An outcome is final as soon as its deadline has passed, recorded or not  *)
(* (InvestorLedger.sol:240-254).                                           *)
THEOREM OutcomesFinal == Spec => OutcomeIsFinal
<1>1. ASSUME IInv, [Next]_vars, currentState \in Final
      PROVE  currentState' = currentState
  <2> USE <1>1
  <2>1. CASE Tick
    <3>1. now' = now + 1 /\ UNCHANGED <<state, fundraisingDeadline, paybackDeadline>>
      BY <2>1 DEF Tick, ledgerVars, deadlineVars
    <3>2. now \in Nat /\ fundraisingDeadline \in Nat /\ paybackDeadline \in Nat
      BY TimeAssumption DEF IInv, TypeOK, Uint
    <3> QED
      BY <3>1, <3>2 DEF currentState, Final
  <2>2. CASE TokenStep \/ UNCHANGED vars
    BY <2>2 DEF TokenStep, print, Approve, Transfer, vars, ledgerVars, deadlineVars, currentState
  <2>3. CASE withdrawable \/ \E u \in Users : withdraw(u)
    BY <2>3, Timeouts DEF withdrawable, withdraw
  <2>4. ASSUME NEW u \in Users, gatherCollateral(u) \/ invest(u) \/ payback(u)
        PROVE  FALSE
    BY <2>4 DEF gatherCollateral, invest, payback, inFundraising, inPayback, Final, currentState
  <2> QED
    BY <2>1, <2>2, <2>3, <2>4 DEF Next, LoanStep
<1> QED
  BY <1>1, InitInv, StepInv, PTL DEF Spec, OutcomeIsFinal
-----------------------------------------------------------------------------
(* The refinement.  The variables of LoanPromise are those of the contract,  *)
(* but for the phase and its deadline.                                     *)
phaseDeadline ==
    IF currentState \in {"Fundraising", "Canceled"} THEN fundraisingDeadline ELSE paybackDeadline

promiseVars ==
    <<now, terms, currentState, phaseDeadline, receivedCollateral, amountInvested,
      loanWithdrawn, collateralWithdrawn>>

LEMMA Numbers ==
  ASSUME IInv
  PROVE  /\ now \in Nat /\ fundraisingDeadline \in Nat /\ paybackDeadline \in Nat
         /\ terms.amountWanted \in Nat /\ terms.interestPermil \in Nat
         /\ terms.fundraisingDelta \in Nat /\ terms.paybackDelta \in Nat
         /\ receivedCollateral \in Nat /\ totalAmountInvested \in Nat
         /\ \A u \in Users : amountInvested[u] \in Nat
         /\ Word \in Nat /\ TimeWord \in Nat
BY TermsType, TimeAssumption, WidthAssumption DEF IInv, TypeOK, Uint

LEMMA StutterPromise ==
  ASSUME UNCHANGED promiseVars
  PROVE  UNCHANGED Promise!vars
BY DEF promiseVars, phaseDeadline, Promise!vars

LEMMA SameTotal ==
  Promise!Total(amountInvested) = Total(amountInvested) /\ Promise!Total(amountInvested') = Total(amountInvested')
BY Zenon DEF Promise!Total, Total, Promise!Units, Units, Promise!Cardinality, Cardinality

LEMMA TickPasses == ASSUME IInv, Tick PROVE Promise!Pass
<1>1. now' = now + 1 /\ UNCHANGED ledgerVars
  BY DEF Tick
<1>2. UNCHANGED <<terms, state, receivedCollateral, amountInvested, fundraisingDeadline,
                  paybackDeadline, loanWithdrawn, collateralWithdrawn>>
  BY <1>1 DEF ledgerVars, investVars, deadlineVars, withdrawVars
<1>3. currentState' = IF now' > phaseDeadline THEN Promise!Lapsed(currentState) ELSE currentState
  <2>1. CASE state = "Fundraising"
    BY <1>1, <1>2, <2>1, Numbers DEF currentState, phaseDeadline, Promise!Lapsed
  <2>2. CASE state = "Payback"
    BY <1>1, <1>2, <2>2, Numbers DEF currentState, phaseDeadline, Promise!Lapsed
  <2>3. CASE state \notin {"Fundraising", "Payback"}
    BY <1>2, <2>3 DEF currentState, Promise!Lapsed
  <2> QED
    BY <2>1, <2>2, <2>3
<1>4. phaseDeadline' = phaseDeadline
  BY <1>1, <1>2, Numbers DEF currentState, phaseDeadline
<1> QED
  BY <1>1, <1>2, <1>3, <1>4 DEF Promise!Pass, phaseDeadline

LEMMA GatherSecures ==
  ASSUME IInv, IInv', NEW u \in Users, gatherCollateral(u) PROVE Promise!Secure
<1>1. /\ state = "CollateralCollection" /\ state' = "Fundraising"
      /\ fundraisingDeadline' = AddMod(now, terms.fundraisingDelta, TimeWord)
      /\ fundraisingDeadline' > now
      /\ UNCHANGED <<now, terms, amountInvested, loanWithdrawn, collateralWithdrawn>>
  BY DEF gatherCollateral, newState, deadlinesFit, investVars, withdrawVars
<1>2. fundraisingDeadline' = now + terms.fundraisingDelta
  <2>1. terms.fundraisingDelta \in Uint(TimeWord)
    BY TermsType DEF IInv
  <2> QED
    BY <1>1, <2>1, Numbers DEF AddMod, Uint
<1>3. currentState = "CollateralCollection" /\ currentState' = "Fundraising"
  BY <1>1, <1>2, Numbers DEF currentState
<1>4. receivedCollateral' \in Nat \ {0}
  BY <1>1 DEF IInv, TypeOK, FundsAddUp, Uint
<1> QED
  BY <1>1, <1>2, <1>3, <1>4 DEF Promise!Secure

LEMMA InvestPledges ==
  ASSUME IInv, IInv', NEW u \in Users, invest(u) PROVE Promise!Pledge(u)
<1> DEFINE x == investmentAmount(u)
<1>1. /\ x \in 1 .. (terms.amountWanted - totalAmountInvested)
      /\ amountInvested' = [amountInvested EXCEPT ![u] = amountInvested[u] + x]
      /\ totalAmountInvested' = totalAmountInvested + x
  <2>1. /\ x \in Nat /\ x > 0 /\ totalAmountInvested + x <= terms.amountWanted
        /\ AddMod(totalAmountInvested, x, Word) = totalAmountInvested + x
        /\ AddMod(amountInvested[u], x, Word) = amountInvested[u] + x
    BY Investment DEF Uint
  <2>2. /\ amountInvested' = [amountInvested EXCEPT ![u] = AddMod(amountInvested[u], x, Word)]
        /\ totalAmountInvested' = AddMod(totalAmountInvested, x, Word)
    BY DEF invest
  <2> HIDE DEF x
  <2>3. x <= terms.amountWanted - totalAmountInvested /\ terms.amountWanted - totalAmountInvested \in Int
    BY <2>1, Numbers
  <2> QED
    BY <2>1, <2>2, <2>3
<1> HIDE DEF x
<1>2. /\ Total(amountInvested) = totalAmountInvested
      /\ Total(amountInvested') = totalAmountInvested'
  BY DEF IInv, FundsAddUp
<1>3. /\ state = "Fundraising" /\ currentState = "Fundraising"
      /\ UNCHANGED <<now, terms, receivedCollateral, fundraisingDeadline, loanWithdrawn, collateralWithdrawn>>
  BY CurrentStates DEF IInv, invest, inFundraising, withdrawVars
<1>6. \E y \in 1 .. (terms.amountWanted - Total(amountInvested)) :
         amountInvested' = [amountInvested EXCEPT ![u] = amountInvested[u] + y]
  BY <1>1, <1>2
<1>7. Total(amountInvested') = totalAmountInvested'
  BY <1>2
<1>4. CASE totalAmountInvested' = terms.amountWanted
  <2>1. state' = "Payback" /\ paybackDeadline' = AddMod(now, terms.paybackDelta, TimeWord)
    BY <1>1, <1>4 DEF invest, newState
  <2>2. ~(now > fundraisingDeadline)
    BY <1>3 DEF currentState
  <2>3. fundraisingDeadline + terms.paybackDelta < TimeWord
    BY <1>3 DEF IInv, DeadlinesFit
  <2>4. paybackDeadline' = now + terms.paybackDelta
    BY <2>1, <2>2, <2>3, Numbers DEF AddMod
  <2>5. currentState' = "Payback"
    BY <1>3, <2>1, <2>4, Numbers DEF currentState
  <2>6. phaseDeadline' = now + terms.paybackDelta
    BY <2>4, <2>5 DEF phaseDeadline
  <2>7. Total(amountInvested') = terms.amountWanted
    BY <1>4, <1>7
  <2>8. UNCHANGED <<now, terms, receivedCollateral, loanWithdrawn, collateralWithdrawn>>
    BY <1>3
  <2> QED
    BY <1>3, <1>6, SameTotal, <2>5, <2>6, <2>7, <2>8, Zenon DEF Promise!Pledge, phaseDeadline
<1>5. CASE totalAmountInvested' # terms.amountWanted
  <2>1. UNCHANGED <<state, paybackDeadline>>
    BY <1>5 DEF invest
  <2>2. currentState' = "Fundraising"
    BY <1>3, <2>1 DEF currentState
  <2>3. totalAmountInvested' < terms.amountWanted
    BY <1>1, <1>5, Numbers
  <2>4. phaseDeadline' = phaseDeadline
    BY <1>3, <2>2 DEF phaseDeadline
  <2>5. Total(amountInvested') < terms.amountWanted
    BY <1>7, <2>3
  <2>6. UNCHANGED <<currentState, phaseDeadline>>
    BY <1>3, <2>2, <2>4
  <2>7. UNCHANGED <<now, terms, receivedCollateral, loanWithdrawn, collateralWithdrawn>>
    BY <1>3
  <2> QED
    BY <1>3, <1>6, SameTotal, <2>5, <2>6, <2>7, Zenon DEF Promise!Pledge, phaseDeadline
<1> QED
  BY <1>4, <1>5

LEMMA PaybackRepays ==
  ASSUME IInv, NEW u \in Users, payback(u) PROVE Promise!Repay
<1>1. /\ currentState = "Payback" /\ state' = "Paidback"
      /\ UNCHANGED <<now, terms, receivedCollateral, amountInvested, fundraisingDeadline,
                     paybackDeadline, loanWithdrawn, collateralWithdrawn>>
  BY DEF payback, inPayback, newState, investVars, deadlineVars, withdrawVars
<1>2. currentState' = "Paidback"
  BY <1>1 DEF currentState
<1> QED
  BY <1>1, <1>2 DEF Promise!Repay

(* Products grow with their factors.                                        *)
LEMMA Monotone ==
  ASSUME NEW x \in Nat, NEW y \in Nat, x <= y, NEW z \in Nat
  PROVE  x * z \in Nat /\ y * z \in Nat /\ x * z <= y * z
<1>1. y - x \in Nat /\ y * z = x * z + (y - x) * z
  OBVIOUS
<1>2. (y - x) * z \in Nat
  BY <1>1
<1> QED
  BY <1>1, <1>2

(* Interest that fits the word for the whole loan does so for any part.     *)
LEMMA InterestExact ==
  ASSUME IInv, InterestFits, NEW x \in Nat, x <= terms.amountWanted
  PROVE  AddMod(x, calculateInterest(x), Word) = x + (x * terms.interestPermil) \div 1000
<1> DEFINE p == terms.interestPermil
           w == terms.amountWanted
<1>1. x * p \in Nat /\ x * p <= w * p /\ w * p < Word
  BY Numbers, Monotone DEF InterestFits
<1>2. MulMod(x, p, Word) = x * p
  BY <1>1, Numbers DEF MulMod
<1>3. calculateInterest(x) = (x * p) \div 1000
  BY <1>2 DEF calculateInterest, PERMIL
<1>4. (x * p) \div 1000 \in Nat /\ 1000 * ((x * p) \div 1000) <= x * p
  BY <1>1
<1>5. x * 1000 + x * p <= w * 1000 + w * p
  BY <1>1, Numbers
<1>6. w * 1000 + w * p < 1000 * Word
  <2>1. w * (1000 + p) = w * 1000 + w * p
    BY Numbers
  <2> QED
    BY <2>1 DEF InterestFits, PERMIL
<1>7. x + (x * p) \div 1000 < Word
  BY <1>1, <1>4, <1>5, <1>6, Numbers
<1> QED
  BY <1>3, <1>7 DEF AddMod

LEMMA InvestedPart ==
  ASSUME IInv, NEW u \in Users
  PROVE  amountInvested[u] <= totalAmountInvested /\ totalAmountInvested <= terms.amountWanted
<1>1. amountInvested \in [Users -> Nat]
  BY DEF IInv, TypeOK, Uint
<1>2. amountInvested[u] <= Total(amountInvested)
  BY <1>1, AddressAssumption, TotalBound
<1> QED
  BY <1>2 DEF IInv, FundsAddUp

(* A share is no more than the proportion of the investment.               *)
LEMMA ShareBound ==
  ASSUME IInv, NEW u \in Users, currentState = "Defaulted", collateralEntitlement(u) > 0
  PROVE  /\ collateralEntitlement(u) \in 1 .. receivedCollateral
         /\ collateralEntitlement(u) * totalAmountInvested <= amountInvested[u] * receivedCollateral
<1> DEFINE a == amountInvested[u]
           c == receivedCollateral
           t == totalAmountInvested
           s == collateralEntitlement(u)
<1>1. t \in Nat \ {0} /\ a \in Nat /\ a <= t /\ c \in Nat
  <2>1. t = terms.amountWanted /\ terms.amountWanted > 0
    BY CurrentStates DEF IInv, FundsAddUp, TermsPositive
  <2> QED
    BY <2>1, Numbers, InvestedPart
<1>2. MulMod(a, c, Word) \in Uint(Word) /\ MulMod(a, c, Word) <= a * c
  BY <1>1, WidthAssumption, MulModType
<1>3. s = MulMod(a, c, Word) \div t
  BY DEF collateralEntitlement
<1>4. s \in Nat /\ s * t <= MulMod(a, c, Word)
  <2>1. \A y \in Uint(Word) : y \div t \in Uint(Word) /\ (y \div t) * t <= y
    BY <1>1, WidthAssumption, DivType
  <2> QED
    BY <1>2, <1>3, <2>1 DEF Uint
<1>5. s * t <= a * c /\ a * c <= t * c /\ a * c \in Nat /\ t * c \in Nat /\ s * t \in Nat
  <2>1. a * c <= t * c /\ a * c \in Nat /\ t * c \in Nat
    BY <1>1, Monotone
  <2>2. s * t \in Nat
    BY <1>1, <1>4
  <2>3. MulMod(a, c, Word) \in Nat
    BY <1>2 DEF Uint
  <2> QED
    BY <1>2, <1>4, <2>1, <2>2, <2>3
<1>6. s <= c
  <2>1. SUFFICES ASSUME c + 1 <= s PROVE FALSE
    BY <1>1, <1>4
  <2>2. (c + 1) * t <= s * t
    BY <1>1, <1>4, <2>1, Monotone
  <2>3. (c + 1) * t = t * c + t
    BY <1>1
  <2> QED
    BY <1>1, <1>5, <2>2, <2>3
<1> HIDE DEF a, c, t
<1> QED
  BY <1>1, <1>4, <1>5, <1>6 DEF a, c, t

LEMMA WithdrawPays ==
  ASSUME IInv, InterestFits, NEW u \in Users, withdraw(u)
  PROVE  Promise!PayLoan(u) \/ Promise!PayCollateral(u) \/ UNCHANGED promiseVars
<1> DEFINE loan == canWithdrawLoanToken(u)
           collateral == canWithdrawCollateralToken(u)
<1>1. /\ currentState' = currentState /\ phaseDeadline' = phaseDeadline
      /\ UNCHANGED <<now, terms, receivedCollateral, amountInvested>>
  BY Timeouts DEF withdraw, phaseDeadline, investVars, deadlineVars
<1>2. CASE /\ loan > 0 /\ UNCHANGED collateralWithdrawn
           /\ loanWithdrawn' = [loanWithdrawn EXCEPT ![u] = AddMod(@, loan, Word)]
  <2>1. /\ loanWithdrawn[u] = 0
        /\ loanWithdrawn' = [loanWithdrawn EXCEPT ![u] = loanEntitlement(u)]
    BY <1>2, Withdrawal DEF IInv, TypeOK
  <2>2. currentState \in {"Paidback", "Canceled"}
    BY <1>2 DEF canWithdrawLoanToken
  <2>3. currentState = "Paidback" => loanEntitlement(u) =
            amountInvested[u] + (amountInvested[u] * terms.interestPermil) \div 1000
    BY Numbers, InvestedPart, InterestExact DEF loanEntitlement
  <2>4. currentState = "Canceled" => loanEntitlement(u) = amountInvested[u]
    BY DEF loanEntitlement
  <2>5. UNCHANGED <<now, terms, currentState, phaseDeadline, receivedCollateral, amountInvested,
                    collateralWithdrawn>>
    BY <1>1, <1>2
  <2>6. \/ /\ currentState = "Canceled"
           /\ loanWithdrawn' = [loanWithdrawn EXCEPT ![u] = amountInvested[u]]
        \/ /\ currentState = "Paidback"
           /\ loanWithdrawn' = [loanWithdrawn EXCEPT ![u] =
                   amountInvested[u] + (amountInvested[u] * terms.interestPermil) \div 1000]
    <3>1. CASE currentState = "Paidback"
      BY <2>1, <2>3, <3>1
    <3>2. CASE currentState = "Canceled"
      <4>1. loanWithdrawn' = [loanWithdrawn EXCEPT ![u] = amountInvested[u]]
        BY <2>1, <2>4, <3>2, Zenon
      <4> QED
        BY <3>2, <4>1, Zenon
    <3> QED
      BY <2>2, <3>1, <3>2
  <2> QED
    BY <2>1, <2>5, <2>6, Zenon DEF Promise!PayLoan, phaseDeadline
<1>3. CASE /\ collateral > 0 /\ UNCHANGED loanWithdrawn
           /\ collateralWithdrawn' = [collateralWithdrawn EXCEPT ![u] = AddMod(@, collateral, Word)]
  <2>1. /\ collateralWithdrawn[u] = 0
        /\ collateralWithdrawn' = [collateralWithdrawn EXCEPT ![u] = collateralEntitlement(u)]
        /\ collateralEntitlement(u) > 0
    <3>1. /\ collateral \in Uint(Word) /\ collateralWithdrawn[u] = 0
          /\ AddMod(collateralWithdrawn[u], collateral, Word) = collateralEntitlement(u)
      BY <1>3, Withdrawal
    <3>2. AddMod(0, collateral, Word) = collateral
      BY <3>1, WidthAssumption DEF AddMod, Uint
    <3> QED
      BY <1>3, <3>1, <3>2 DEF IInv, TypeOK
  <2>4. UNCHANGED <<now, terms, currentState, phaseDeadline, receivedCollateral, amountInvested,
                    loanWithdrawn>>
    BY <1>1, <1>3
  <2>2. CASE currentState = "Defaulted"
    <3>1. Total(amountInvested) = totalAmountInvested
      BY DEF IInv, FundsAddUp
    <3>2. \E x \in 1 .. receivedCollateral :
             /\ x * Total(amountInvested) <= amountInvested[u] * receivedCollateral
             /\ collateralWithdrawn' = [collateralWithdrawn EXCEPT ![u] = x]
      <4>1. /\ collateralEntitlement(u) \in 1 .. receivedCollateral
            /\ collateralEntitlement(u) * Total(amountInvested) <= amountInvested[u] * receivedCollateral
        BY <2>1, <2>2, <3>1, ShareBound
      <4> QED
        BY <2>1, <4>1
    <3> QED
      BY <2>1, <2>2, <2>4, <3>2, SameTotal, Zenon DEF Promise!PayCollateral, phaseDeadline
  <2>3. CASE currentState \in {"Paidback", "Canceled"} /\ u = terms.borrower
    <3>1. collateralEntitlement(u) = receivedCollateral
      BY <2>3 DEF collateralEntitlement
    <3> QED
      BY <1>1, <1>3, <2>1, <2>3, <3>1 DEF Promise!PayCollateral, phaseDeadline
  <2> QED
    BY <1>3, <2>2, <2>3 DEF canWithdrawCollateralToken
<1>4. CASE UNCHANGED withdrawVars
  BY <1>1, <1>4 DEF promiseVars, withdrawVars
<1> QED
  BY <1>2, <1>3, <1>4 DEF withdraw, paysOut

(* Every transaction keeps the promise or does not touch it.                *)
LEMMA StepKeepsPromise ==
  ASSUME IInv, IInv', InterestFits, [Next]_vars
  PROVE  [Promise!Next]_(Promise!vars)
<1>1. CASE Tick
  BY <1>1, TickPasses DEF Promise!Next
<1>2. CASE TokenStep \/ UNCHANGED vars
  <2>1. UNCHANGED <<now, ledgerVars>>
    BY <1>2 DEF TokenStep, print, Approve, Transfer, vars
  <2>2. UNCHANGED promiseVars
    BY <2>1 DEF promiseVars, phaseDeadline, currentState, ledgerVars, investVars, deadlineVars, withdrawVars
  <2> QED
    BY <2>2, StutterPromise
<1>3. CASE withdrawable
  <2>1. currentState' = currentState
    BY <1>3, Timeouts DEF withdrawable
  <2>2. UNCHANGED promiseVars
    BY <1>3, <2>1 DEF withdrawable, promiseVars, phaseDeadline, investVars, deadlineVars, withdrawVars
  <2> QED
    BY <2>2, StutterPromise
<1>4. ASSUME NEW u \in Users, gatherCollateral(u) \/ invest(u) \/ payback(u)
      PROVE  Promise!Next
  BY <1>4, GatherSecures, InvestPledges, PaybackRepays DEF Promise!Next
<1>5. ASSUME NEW u \in Users, withdraw(u)
      PROVE  [Promise!Next]_(Promise!vars)
  BY <1>5, WithdrawPays, StutterPromise DEF Promise!Next
<1> QED
  BY <1>1, <1>2, <1>3, <1>4, <1>5 DEF Next, LoanStep

LEMMA InitPromises == Init => Promise!Init
<1> SUFFICES ASSUME Init PROVE Promise!Init
  OBVIOUS
<1>1. PICK t \in Terms : openAccount(t)
  BY DEF Init
<1>2. currentState = "CollateralCollection"
  BY <1>1 DEF openAccount, currentState
<1> QED
  BY <1>1, <1>2, TimeAssumption DEF Init, openAccount, Promise!Init, Promise!Nothing

(* As long as the interest fits the word, the contract with its unrecorded   *)
(* timeouts, machine integers and tokens implements the abstract loan, whose *)
(* deadlines need no caller (InvestorLedger.sol:240-462).                    *)
THEOREM PromiseKept == Spec /\ []InterestFits => KeepsPromise
<1>1. IInv /\ IInv' /\ InterestFits /\ [Next]_vars => [Promise!Next]_(Promise!vars)
  BY StepKeepsPromise
<1> QED
  BY <1>1, InitInv, StepInv, InitPromises, PTL DEF Spec, KeepsPromise, Promise!Spec
-----------------------------------------------------------------------------
(* What the contract owes.                                                  *)

(* Nobody invests before the collateral is there.                           *)
NothingInvestedYet == state = "CollateralCollection" => totalAmountInvested = 0

Covers ==
    IF LoanToken = CollateralToken
    THEN loanTokensDue + collateralDue <= balanceOf[LoanToken][Loan]
    ELSE /\ loanTokensDue <= balanceOf[LoanToken][Loan]
         /\ collateralDue <= balanceOf[CollateralToken][Loan]

LoanLeft == [u \in Users |-> canWithdrawLoanToken(u)]
CollateralLeft == [u \in Users |-> canWithdrawCollateralToken(u)]
LoanShares == [u \in Users |-> loanEntitlement(u)]
CollateralShares == [u \in Users |-> collateralEntitlement(u)]

LEMMA Left ==
  ASSUME IInv, NEW u \in Users
  PROVE  /\ canWithdrawLoanToken(u) = IF loanWithdrawn[u] = 0 THEN loanEntitlement(u) ELSE 0
         /\ canWithdrawCollateralToken(u) = IF collateralWithdrawn[u] = 0 THEN collateralEntitlement(u) ELSE 0
         /\ loanEntitlement(u) \in Nat /\ collateralEntitlement(u) \in Nat
<1>1. /\ loanEntitlement(u) \in Uint(Word) /\ collateralEntitlement(u) \in Uint(Word)
      /\ loanWithdrawn[u] \in {0, loanEntitlement(u)}
      /\ collateralWithdrawn[u] \in {0, collateralEntitlement(u)}
  BY EntitlementType DEF IInv, PaidOnce
<1>2. \A e \in Uint(Word) : e \in Nat /\ SubMod(e, 0, Word) = e /\ SubMod(e, e, Word) = 0
  BY WidthAssumption DEF SubMod, Uint
<1>3. currentState \notin {"Paidback", "Canceled"} => loanEntitlement(u) = 0
  BY DEF loanEntitlement
<1>4. /\ currentState \notin Final => collateralEntitlement(u) = 0
      /\ currentState \in {"Paidback", "Canceled"} /\ u # terms.borrower => collateralEntitlement(u) = 0
  BY DEF collateralEntitlement, Final
<1>5. canWithdrawLoanToken(u) = IF loanWithdrawn[u] = 0 THEN loanEntitlement(u) ELSE 0
  BY <1>1, <1>2, <1>3 DEF canWithdrawLoanToken
<1>6. canWithdrawCollateralToken(u) = IF collateralWithdrawn[u] = 0 THEN collateralEntitlement(u) ELSE 0
  BY <1>1, <1>2, <1>4 DEF canWithdrawCollateralToken, Final
<1> QED
  BY <1>1, <1>2, <1>5, <1>6

LEMMA LeftTypes ==
  ASSUME IInv
  PROVE  /\ LoanLeft \in [Users -> Nat] /\ CollateralLeft \in [Users -> Nat]
         /\ LoanShares \in [Users -> Nat] /\ CollateralShares \in [Users -> Nat]
         /\ \A u \in Users : LoanLeft[u] <= LoanShares[u] /\ CollateralLeft[u] <= CollateralShares[u]
         /\ Total(LoanLeft) \in Nat /\ Total(CollateralLeft) \in Nat
         /\ Total(LoanShares) \in Nat /\ Total(CollateralShares) \in Nat
         /\ Total(LoanLeft) <= Total(LoanShares) /\ Total(CollateralLeft) <= Total(CollateralShares)
<1>1. /\ LoanLeft \in [Users -> Nat] /\ CollateralLeft \in [Users -> Nat]
      /\ LoanShares \in [Users -> Nat] /\ CollateralShares \in [Users -> Nat]
      /\ \A u \in Users : LoanLeft[u] <= LoanShares[u] /\ CollateralLeft[u] <= CollateralShares[u]
  BY Left DEF LoanLeft, CollateralLeft, LoanShares, CollateralShares
<1>2. IsFiniteSet(Users)
  BY Finite
<1>3. /\ Total(LoanLeft) \in Nat /\ Total(CollateralLeft) \in Nat
      /\ Total(LoanShares) \in Nat /\ Total(CollateralShares) \in Nat
  BY <1>1, <1>2, TotalType
<1>4. Total(LoanLeft) <= Total(LoanShares) /\ Total(CollateralLeft) <= Total(CollateralShares)
  BY <1>1, <1>2, TotalMonotone
<1> QED
  BY <1>1, <1>3, <1>4

(* If k times every share is at most m times the investment, so it is of all *)
(* shares and investments together.                                        *)
LEMMA Proportional ==
  ASSUME NEW S, IsFiniteSet(S), NEW e \in [S -> Nat], NEW f \in [S -> Nat],
         NEW k \in Nat, NEW m \in Nat, \A a \in S : k * e[a] <= m * f[a]
  PROVE  k * Total(e) <= m * Total(f)
<1> DEFINE ke == [a \in S |-> k * e[a]]
           mf == [a \in S |-> m * f[a]]
<1>1. /\ ke \in [S -> Nat] /\ mf \in [S -> Nat]
      /\ \A a \in S : ke[a] = k * e[a] /\ mf[a] = m * f[a]
  OBVIOUS
<1>2. \A a \in S : ke[a] <= mf[a]
  BY <1>1
<1> HIDE DEF ke, mf
<1>3. Total(ke) = k * Total(e) /\ Total(mf) = m * Total(f)
  BY <1>1, TotalScaled
<1>4. Total(ke) <= Total(mf)
  BY <1>1, <1>2, TotalMonotone
<1> QED
  BY <1>3, <1>4

LEMMA Floor ==
  ASSUME NEW x \in Nat, NEW d \in Nat \ {0}
  PROVE  /\ x \div d \in Nat /\ d * (x \div d) <= x /\ x < d * (x \div d) + d
         /\ \A y \in Nat : d * y <= x => y <= x \div d
<1>1. x \div d \in Nat /\ d * (x \div d) <= x /\ x < d * (x \div d) + d
  OBVIOUS
<1> DEFINE q == x \div d
<1> HIDE DEF q
<1>2. ASSUME NEW y \in Nat, d * y <= x, y > q, q \in Nat, x < d * q + d PROVE FALSE
  <2>1. y - q - 1 \in Nat /\ d * y = d * q + d + d * (y - q - 1)
    BY <1>2
  <2>2. d * (y - q - 1) \in Nat /\ d * q \in Nat
    BY <1>2, <2>1
  <2> QED
    BY <1>2, <2>1, <2>2
<1>3. q = x \div d
  BY DEF q
<1> QED
  BY <1>1, <1>2, <1>3

(* The interest of the parts is no more than the interest of the whole.     *)
LEMMA LoanSharesBound ==
  ASSUME IInv, InterestFits
  PROVE  /\ currentState = "Paidback" => Total(LoanShares) <= paybackRequired
         /\ currentState = "Canceled" => Total(LoanShares) = totalAmountInvested
<1> DEFINE p == terms.interestPermil
           w == terms.amountWanted
<1>1. p \in Nat /\ w \in Nat /\ IsFiniteSet(Users) /\ amountInvested \in [Users -> Nat]
  BY Numbers, Finite DEF IInv, TypeOK, Uint
<1>2. Total(amountInvested) = totalAmountInvested
  BY DEF IInv, FundsAddUp
<1>3. LoanShares \in [Users -> Nat] /\ Total(LoanShares) \in Nat
  BY LeftTypes
<1>4. CASE currentState = "Paidback"
  <2>1. Total(amountInvested) = w
    BY <1>2, <1>4, CurrentStates DEF IInv, FundsAddUp
  <2>2. paybackRequired = w + (w * p) \div 1000
    BY <1>1, InterestExact DEF paybackRequired
  <2>3. ASSUME NEW u \in Users
        PROVE  1000 * LoanShares[u] <= (1000 + p) * amountInvested[u]
    <3>1. amountInvested[u] \in Nat /\ amountInvested[u] <= w
      BY <1>1, InvestedPart, Numbers
    <3>2. LoanShares[u] = amountInvested[u] + (amountInvested[u] * p) \div 1000
      BY <1>4, <3>1, InterestExact DEF LoanShares, loanEntitlement
    <3> HIDE DEF p, w
    <3>3. amountInvested[u] * p \in Nat /\ 1000 \in Nat \ {0}
      BY <1>1, <3>1
    <3>4. 1000 * ((amountInvested[u] * p) \div 1000) <= amountInvested[u] * p
          /\ (amountInvested[u] * p) \div 1000 \in Nat
      BY <3>3, Floor
    <3>5. (1000 + p) * amountInvested[u] = 1000 * amountInvested[u] + amountInvested[u] * p
      BY <1>1, <3>1
    <3> QED
      BY <3>1, <3>2, <3>3, <3>4, <3>5
  <2> HIDE DEF p, w
  <2>4. 1000 * Total(LoanShares) <= (1000 + p) * w
    <3>1. 1000 \in Nat /\ 1000 + p \in Nat
      BY <1>1
    <3>2. 1000 * Total(LoanShares) <= (1000 + p) * Total(amountInvested)
      BY <1>1, <1>3, <2>3, <3>1, Proportional
    <3> QED
      BY <2>1, <3>2
  <2>5. Total(LoanShares) <= w + (w * p) \div 1000
    <3>1. (1000 + p) * w = 1000 * w + w * p /\ w * p \in Nat
      BY <1>1
    <3>2. CASE Total(LoanShares) <= w
      <4>1. (w * p) \div 1000 \in Nat
        BY <3>1, Floor
      <4> QED
        BY <1>1, <1>3, <3>2, <4>1
    <3>3. CASE Total(LoanShares) > w
      <4>1. Total(LoanShares) - w \in Nat /\ 1000 * (Total(LoanShares) - w) <= w * p
        BY <1>1, <1>3, <2>4, <3>1, <3>3
      <4>2. Total(LoanShares) - w <= (w * p) \div 1000
        BY <3>1, <4>1, Floor
      <4>3. (w * p) \div 1000 \in Nat
        BY <3>1, Floor
      <4> QED
        BY <1>1, <1>3, <4>2, <4>3
    <3> QED
      BY <1>1, <1>3, <3>2, <3>3
  <2> QED
    BY <1>4, <2>2, <2>5 DEF p, w
<1>5. CASE currentState = "Canceled"
  <2>1. LoanShares = amountInvested
    BY <1>1, <1>3, <1>5 DEF LoanShares, loanEntitlement
  <2> QED
    BY <1>2, <1>5, <2>1
<1> QED
  BY <1>4, <1>5

(* The shares of a collateral are together no more than the collateral.     *)
LEMMA CollateralSharesBound ==
  ASSUME IInv
  PROVE  currentState \in Final => Total(CollateralShares) <= receivedCollateral
<1>1. /\ receivedCollateral \in Nat /\ totalAmountInvested \in Nat /\ terms.borrower \in Users
      /\ IsFiniteSet(Users) /\ amountInvested \in [Users -> Nat]
  BY Numbers, TermsType, Finite DEF IInv, TypeOK, Uint
<1>2. CollateralShares \in [Users -> Nat] /\ Total(CollateralShares) \in Nat
  BY LeftTypes
<1>3. CASE currentState = "Defaulted"
  <2>1. Total(amountInvested) = totalAmountInvested /\ totalAmountInvested > 0
    BY <1>3, CurrentStates DEF IInv, FundsAddUp, TermsPositive
  <2>2. ASSUME NEW u \in Users
        PROVE  totalAmountInvested * CollateralShares[u] <= receivedCollateral * amountInvested[u]
    <3>1. CollateralShares[u] = collateralEntitlement(u)
      BY DEF CollateralShares
    <3>2. amountInvested[u] \in Nat /\ collateralEntitlement(u) \in Nat
      BY <1>1, Left
    <3>3. CASE collateralEntitlement(u) > 0
      <4>1. collateralEntitlement(u) * totalAmountInvested <= amountInvested[u] * receivedCollateral
        BY <1>3, <3>3, ShareBound
      <4>2. /\ collateralEntitlement(u) * totalAmountInvested = totalAmountInvested * collateralEntitlement(u)
            /\ amountInvested[u] * receivedCollateral = receivedCollateral * amountInvested[u]
        BY <1>1, <3>2
      <4> QED
        BY <3>1, <4>1, <4>2
    <3>4. CASE collateralEntitlement(u) = 0
      BY <1>1, <3>1, <3>2, <3>4
    <3> QED
      BY <3>2, <3>3, <3>4
  <2>3. totalAmountInvested * Total(CollateralShares) <= receivedCollateral * totalAmountInvested
    <3>1. totalAmountInvested * Total(CollateralShares) <= receivedCollateral * Total(amountInvested)
      BY <1>1, <1>2, <2>2, Proportional
    <3> QED
      BY <2>1, <3>1
  <2>4. Total(CollateralShares) <= receivedCollateral
    <3>1. SUFFICES ASSUME receivedCollateral + 1 <= Total(CollateralShares) PROVE FALSE
      BY <1>1, <1>2
    <3>2. (receivedCollateral + 1) * totalAmountInvested <= Total(CollateralShares) * totalAmountInvested
      BY <1>1, <1>2, <3>1, Monotone
    <3>3. (receivedCollateral + 1) * totalAmountInvested = receivedCollateral * totalAmountInvested + totalAmountInvested
          /\ Total(CollateralShares) * totalAmountInvested = totalAmountInvested * Total(CollateralShares)
          /\ receivedCollateral * totalAmountInvested \in Nat
      BY <1>1, <1>2
    <3> DEFINE all == receivedCollateral * totalAmountInvested
               part == Total(CollateralShares) * totalAmountInvested
    <3>4. part <= all /\ all \in Nat
      BY <2>3, <3>3, Zenon
    <3>5. all + totalAmountInvested <= part
      BY <3>2, <3>3, Zenon
    <3>6. part \in Nat
      BY <1>1, <1>2
    <3> HIDE DEF all, part
    <3> QED
      BY <1>1, <2>1, <3>4, <3>5, <3>6
  <2> QED
    BY <2>4
<1>4. CASE currentState \in {"Paidback", "Canceled"}
  <2>1. /\ CollateralShares[terms.borrower] = receivedCollateral
        /\ \A u \in Users \ {terms.borrower} : CollateralShares[u] = 0
    BY <1>1, <1>4 DEF CollateralShares, collateralEntitlement
  <2>2. Total(CollateralShares) = receivedCollateral
    BY <1>1, <1>2, <2>1, TotalOne
  <2> QED
    BY <1>1, <2>2
<1> QED
  BY <1>3, <1>4 DEF Final

(* What is due in each state, at most.                                      *)
DuesBounded ==
    /\ loanTokensDue \in Nat /\ collateralDue \in Nat
    /\ currentState = "Fundraising" => loanTokensDue = totalAmountInvested
    /\ currentState = "Canceled" /\ InterestFits => loanTokensDue <= totalAmountInvested
    /\ currentState = "Paidback" /\ InterestFits => loanTokensDue <= paybackRequired
    /\ currentState \in {"CollateralCollection", "Payback", "Defaulted"} => loanTokensDue = 0
    /\ currentState = "CollateralCollection" => collateralDue = 0
    /\ currentState \in {"Fundraising", "Payback"} => collateralDue = receivedCollateral
    /\ currentState \in Final => collateralDue <= receivedCollateral

LEMMA Dues == IInv => DuesBounded
<1> SUFFICES ASSUME IInv PROVE DuesBounded
  OBVIOUS
<1>1. loanTokensDue = IF currentState = "Fundraising" THEN totalAmountInvested ELSE Total(LoanLeft)
  BY DEF loanTokensDue, LoanLeft
<1>2. collateralDue = IF currentState \in {"Fundraising", "Payback"} THEN receivedCollateral ELSE Total(CollateralLeft)
  BY DEF collateralDue, CollateralLeft
<1>3. /\ Total(LoanLeft) \in Nat /\ Total(CollateralLeft) \in Nat
      /\ Total(LoanShares) \in Nat /\ Total(CollateralShares) \in Nat
      /\ Total(LoanLeft) <= Total(LoanShares) /\ Total(CollateralLeft) <= Total(CollateralShares)
  BY LeftTypes
<1>4. totalAmountInvested \in Nat /\ receivedCollateral \in Nat /\ paybackRequired \in Nat
  BY Numbers, PaybackType DEF IInv, Uint
<1>5. currentState \in {"CollateralCollection", "Payback", "Defaulted"} => Total(LoanLeft) = 0
  <2>1. SUFFICES ASSUME currentState \in {"CollateralCollection", "Payback", "Defaulted"}
                 PROVE  Total(LoanLeft) = 0
    OBVIOUS
  <2>2. LoanLeft = [u \in Users |-> 0]
    BY <2>1 DEF LoanLeft, canWithdrawLoanToken
  <2> QED
    BY <2>2, TotalZero
<1>6. currentState = "CollateralCollection" => Total(CollateralLeft) = 0
  <2>1. SUFFICES ASSUME currentState = "CollateralCollection" PROVE Total(CollateralLeft) = 0
    OBVIOUS
  <2>2. CollateralLeft = [u \in Users |-> 0]
    BY <2>1 DEF CollateralLeft, canWithdrawCollateralToken
  <2> QED
    BY <2>2, TotalZero
<1>7. InterestFits =>
         /\ currentState = "Paidback" => Total(LoanShares) <= paybackRequired
         /\ currentState = "Canceled" => Total(LoanShares) = totalAmountInvested
  BY LoanSharesBound
<1>8. currentState \in Final => Total(CollateralShares) <= receivedCollateral
  BY CollateralSharesBound
<1> QED
  BY <1>1, <1>2, <1>3, <1>4, <1>5, <1>6, <1>7, <1>8 DEF Final, DuesBounded

(* What the balances of the contract are.                                   *)
LEMMA Balances ==
  ASSUME IInv
  PROVE  \A t \in Tokens : balanceOf[t] \in [Addresses -> Uint(Word)] /\ balanceOf[t][Loan] \in Nat
BY Finite DEF IInv, TypeOK, Uint

LEMMA OthersPay ==
  ASSUME IInv, NEW t \in Tokens, NEW from \in Users, NEW to \in Addresses, NEW v \in Uint(Word),
         CanTransfer(balanceOf[t], from, to, v)
  PROVE  Moved(balanceOf[t], from, to, v)[Loan] = balanceOf[t][Loan] + (IF to = Loan THEN v ELSE 0)
<1> DEFINE bal == Moved(balanceOf[t], from, to, v)
<1>1. from \in Addresses /\ Loan \in Addresses /\ from # Loan /\ v \in Nat
  BY Finite, AddressAssumption DEF Uint
<1>2. \A x \in Tokens : balanceOf[x] \in [Addresses -> Uint(Word)] /\ balanceOf[x][Loan] \in Nat
  BY Balances
<1>3. /\ from = to => bal = balanceOf[t]
      /\ from # to => bal[to] = balanceOf[t][to] + v
      /\ \A c \in Addresses \ {from, to} : bal[c] = balanceOf[t][c]
  BY <1>1, <1>2, WidthAssumption, MovedExact
<1>4. bal[Loan] = balanceOf[t][Loan] + (IF to = Loan THEN v ELSE 0)
  <2> HIDE DEF bal
  <2> QED
    BY <1>1, <1>2, <1>3
<1> QED
  BY <1>4

LEMMA LoanPays ==
  ASSUME IInv, NEW t \in Tokens, NEW to \in Users, NEW v \in Uint(Word),
         CanTransfer(balanceOf[t], Loan, to, v)
  PROVE  Moved(balanceOf[t], Loan, to, v)[Loan] = balanceOf[t][Loan] - v
<1>1. to \in Addresses /\ Loan \in Addresses /\ to # Loan /\ v \in Nat
  BY Finite, AddressAssumption DEF Uint
<1>2. balanceOf[t] \in [Addresses -> Uint(Word)]
  BY Balances
<1> QED
  BY <1>1, <1>2, WidthAssumption, MovedExact

(* No more is due and no less is there.                                     *)
LEMMA StillCovered ==
  ASSUME IInv, IInv', Covers, loanTokensDue' <= loanTokensDue, collateralDue' <= collateralDue,
         \A t \in Tokens : balanceOf'[t][Loan] >= balanceOf[t][Loan]
  PROVE  Covers'
<1>1. DuesBounded /\ DuesBounded'
  BY Dues, PTL
<1>2. /\ loanTokensDue \in Nat /\ collateralDue \in Nat
      /\ loanTokensDue' \in Nat /\ collateralDue' \in Nat
  BY <1>1 DEF DuesBounded
<1>3. LoanToken \in Tokens /\ CollateralToken \in Tokens
  BY DEF Tokens
<1>4. \A t \in Tokens : balanceOf[t][Loan] \in Nat /\ balanceOf'[t][Loan] \in Nat
  BY Finite DEF IInv, TypeOK, Uint
<1> QED
  BY <1>2, <1>3, <1>4 DEF Covers

(* Who may withdraw what depends on the state as it is seen, the investments *)
(* and what was withdrawn.                                                  *)
LEMMA SameDues ==
  ASSUME currentState' = currentState,
         UNCHANGED <<terms, receivedCollateral, investVars, withdrawVars>>
  PROVE  loanTokensDue' = loanTokensDue /\ collateralDue' = collateralDue
BY DEF loanTokensDue, collateralDue, canWithdrawLoanToken, canWithdrawCollateralToken, loanEntitlement,
       collateralEntitlement, calculateInterest, investVars, withdrawVars

LEMMA TickCovers ==
  ASSUME IInv, IInv', InterestFits, Covers, Tick PROVE Covers'
<1>1. /\ now' = now + 1 /\ UNCHANGED <<balanceOf, terms, state, receivedCollateral, investVars,
                                      deadlineVars, withdrawVars>>
      /\ totalAmountInvested' = totalAmountInvested
  BY DEF Tick, ledgerVars, tokenVars, investVars
<1>2. InterestFits'
  BY <1>1 DEF InterestFits
<1>3. DuesBounded /\ DuesBounded'
  BY Dues, PTL
<1>4. /\ loanTokensDue \in Nat /\ collateralDue \in Nat
      /\ loanTokensDue' \in Nat /\ collateralDue' \in Nat
  BY <1>3 DEF DuesBounded
<1>5. \/ currentState' = currentState
      \/ currentState = "Fundraising" /\ currentState' = "Canceled"
      \/ currentState = "Payback" /\ currentState' = "Defaulted"
  BY <1>1, Numbers DEF currentState, deadlineVars
<1>6. loanTokensDue' <= loanTokensDue /\ collateralDue' <= collateralDue
  <2>1. CASE currentState' = currentState
    BY <1>1, <1>4, <2>1, SameDues
  <2>2. CASE currentState = "Fundraising" /\ currentState' = "Canceled"
    BY <1>1, <1>2, <1>3, <2>2 DEF DuesBounded, Final
  <2>3. CASE currentState = "Payback" /\ currentState' = "Defaulted"
    BY <1>1, <1>3, <1>4, <2>3 DEF DuesBounded, Final
  <2> QED
    BY <1>5, <2>1, <2>2, <2>3
<1>7. \A t \in Tokens : balanceOf'[t][Loan] >= balanceOf[t][Loan]
  BY <1>1, Balances
<1> QED
  BY <1>6, <1>7, StillCovered

LEMMA TokenStepCovers ==
  ASSUME IInv, IInv', Covers, TokenStep \/ UNCHANGED vars PROVE Covers'
<1>1. UNCHANGED <<now, ledgerVars>>
  BY DEF TokenStep, print, Approve, Transfer, vars
<1>2. loanTokensDue' = loanTokensDue /\ collateralDue' = collateralDue
  <2>1. currentState' = currentState
    BY <1>1 DEF currentState, ledgerVars, deadlineVars
  <2> QED
    BY <1>1, <2>1, SameDues DEF ledgerVars
<1>3. \A t \in Tokens : balanceOf[t][Loan] \in Nat
  BY Balances
<1>4. \A t \in Tokens : balanceOf'[t][Loan] >= balanceOf[t][Loan]
  <2>1. ASSUME NEW t \in Tokens, NEW u \in Users, print(t, u)
        PROVE  \A x \in Tokens : balanceOf'[x][Loan] = balanceOf[x][Loan]
    <3>1. u # Loan /\ Loan \in Addresses
      BY Finite, AddressAssumption
    <3> QED
      BY <2>1, <3>1 DEF print, IInv, TypeOK
  <2>2. ASSUME NEW x \in Transfers, Transfer(x[1], x[2], x[3], x[4])
        PROVE  \A t \in Tokens : balanceOf'[t][Loan] >= balanceOf[t][Loan]
    <3>1. x[1] \in Tokens /\ x[2] \in Users /\ x[3] \in Addresses /\ x[4] \in Uint(Word) /\ x[4] \in Nat
      BY AmountAssumption DEF Uint
    <3> DEFINE bal == Moved(balanceOf[x[1]], x[2], x[3], x[4])
    <3>2. CanTransfer(balanceOf[x[1]], x[2], x[3], x[4]) /\ balanceOf' = [balanceOf EXCEPT ![x[1]] = bal]
      BY <2>2 DEF Transfer
    <3>3. bal[Loan] = balanceOf[x[1]][Loan] + (IF x[3] = Loan THEN x[4] ELSE 0)
      BY <3>1, <3>2, OthersPay
    <3> HIDE DEF bal
    <3>4. \A t \in Tokens : balanceOf'[t][Loan] = IF t = x[1] THEN bal[Loan] ELSE balanceOf[t][Loan]
      BY <3>1, <3>2 DEF IInv, TypeOK
    <3> QED
      BY <1>3, <3>1, <3>3, <3>4
  <2>3. ASSUME NEW a \in Approvals, Approve(a[1], a[2], a[3])
        PROVE  balanceOf' = balanceOf
    BY <2>3 DEF Approve
  <2>4. CASE UNCHANGED vars
    BY <1>3, <2>4 DEF vars, tokenVars
  <2> QED
    BY <1>3, <2>1, <2>2, <2>3, <2>4 DEF TokenStep
<1>5. DuesBounded
  BY Dues
<1> QED
  BY <1>2, <1>4, <1>5, StillCovered DEF DuesBounded

LEMMA GatherCovers ==
  ASSUME IInv, IInv', NothingInvestedYet, NEW u \in Users, gatherCollateral(u) PROVE Covers'
<1> DEFINE amount == allowance[CollateralToken][u]
<1>1. /\ state = "CollateralCollection" /\ state' = "Fundraising"
      /\ receivedCollateral' = AddMod(receivedCollateral, amount, Word)
      /\ fundraisingDeadline' > now /\ now' = now
      /\ CanTransfer(balanceOf[CollateralToken], u, Loan, amount)
      /\ balanceOf' = [balanceOf EXCEPT ![CollateralToken] = Moved(@, u, Loan, amount)]
      /\ totalAmountInvested' = totalAmountInvested
  BY DEF gatherCollateral, CanTransferFrom, newState, deadlinesFit, investVars
<1>2. CollateralToken \in Tokens /\ LoanToken \in Tokens /\ amount \in Uint(Word) /\ Loan \in Addresses
  BY Finite DEF IInv, TypeOK, Tokens
<1> HIDE DEF amount
<1>3. receivedCollateral' = amount /\ totalAmountInvested' = 0
  <2>1. receivedCollateral = 0
    BY <1>1 DEF IInv, TypeOK, FundsAddUp, Uint
  <2> QED
    BY <1>1, <1>2, <2>1, WidthAssumption DEF AddMod, Uint, NothingInvestedYet
<1>4. currentState' = "Fundraising"
  <2>1. now \in Nat /\ fundraisingDeadline' \in Nat
    BY Numbers DEF IInv, TypeOK, Uint
  <2> QED
    BY <1>1, <2>1 DEF currentState
<1>5. loanTokensDue' = 0 /\ collateralDue' = amount
  <2>1. DuesBounded'
    BY Dues, PTL
  <2> QED
    BY <1>3, <1>4, <2>1 DEF DuesBounded
<1>6. \A t \in Tokens : balanceOf'[t][Loan] = balanceOf[t][Loan] + (IF t = CollateralToken THEN amount ELSE 0)
  <2> DEFINE bal == Moved(balanceOf[CollateralToken], u, Loan, amount)
  <2>1. balanceOf' = [balanceOf EXCEPT ![CollateralToken] = bal]
    BY <1>1
  <2>2. bal[Loan] = balanceOf[CollateralToken][Loan] + amount
    BY <1>1, <1>2, OthersPay
  <2> HIDE DEF bal
  <2>3. \A t \in Tokens : balanceOf'[t][Loan] = IF t = CollateralToken THEN bal[Loan] ELSE balanceOf[t][Loan]
    BY <1>2, <2>1 DEF IInv, TypeOK
  <2>4. \A t \in Tokens : balanceOf[t][Loan] \in Nat
    BY Balances
  <2> QED
    BY <2>2, <2>3, <2>4
<1>7. \A t \in Tokens : balanceOf[t][Loan] \in Nat
  BY Balances
<1> QED
  BY <1>2, <1>5, <1>6, <1>7 DEF Covers, Uint

LEMMA InvestCovers ==
  ASSUME IInv, IInv', Covers, NEW u \in Users, invest(u) PROVE Covers'
<1> DEFINE amount == investmentAmount(u)
           received == Moved(balanceOf[LoanToken], u, Loan, amount)
           handedOut == Moved(received, Loan, terms.borrower, terms.amountWanted)
<1>1. /\ amount \in Uint(Word) /\ amount \in Nat
      /\ AddMod(totalAmountInvested, amount, Word) = totalAmountInvested + amount
  BY Investment DEF Uint
<1>2. /\ state = "Fundraising" /\ currentState = "Fundraising"
      /\ totalAmountInvested' = totalAmountInvested + amount
      /\ CanTransfer(balanceOf[LoanToken], u, Loan, amount)
      /\ UNCHANGED <<now, terms, receivedCollateral, fundraisingDeadline>>
  BY <1>1, CurrentStates DEF invest, CanTransferFrom, inFundraising, IInv
<1>3. \/ /\ totalAmountInvested + amount = terms.amountWanted /\ state' = "Payback"
         /\ CanTransfer(received, Loan, terms.borrower, terms.amountWanted)
         /\ balanceOf' = [balanceOf EXCEPT ![LoanToken] = handedOut]
      \/ /\ state' = "Fundraising"
         /\ balanceOf' = [balanceOf EXCEPT ![LoanToken] = received]
  BY <1>1, <1>2 DEF invest, newState
<1>4. /\ LoanToken \in Tokens /\ CollateralToken \in Tokens
      /\ \A t \in Tokens : balanceOf[t] \in [Addresses -> Uint(Word)] /\ balanceOf[t][Loan] \in Nat
      /\ u \in Addresses /\ Loan \in Addresses /\ u # Loan
      /\ terms.borrower \in Addresses /\ terms.borrower # Loan
      /\ terms.amountWanted \in Uint(Word) /\ terms.amountWanted \in Nat /\ totalAmountInvested \in Nat
  BY Balances, Finite, AddressAssumption, TermsType, Numbers DEF Tokens, IInv, Uint
<1> HIDE DEF amount
<1>5. received \in [Addresses -> Uint(Word)] /\ received[Loan] = balanceOf[LoanToken][Loan] + amount
  BY <1>1, <1>2, <1>4, WidthAssumption, MovedExact
<1> HIDE DEF received
<1>6. DuesBounded /\ DuesBounded'
  BY Dues, PTL
<1>7. /\ loanTokensDue = totalAmountInvested /\ collateralDue = receivedCollateral
      /\ receivedCollateral \in Nat
  BY <1>2, <1>6, Numbers DEF DuesBounded
<1>8. CASE /\ state' = "Fundraising"
           /\ balanceOf' = [balanceOf EXCEPT ![LoanToken] = received]
  <2>1. currentState' = "Fundraising"
    BY <1>2, <1>8 DEF currentState
  <2>2. loanTokensDue' = totalAmountInvested + amount /\ collateralDue' = receivedCollateral
    BY <1>2, <1>6, <2>1 DEF DuesBounded
  <2>3. /\ balanceOf'[LoanToken][Loan] = balanceOf[LoanToken][Loan] + amount
        /\ CollateralToken # LoanToken => balanceOf'[CollateralToken][Loan] = balanceOf[CollateralToken][Loan]
    BY <1>4, <1>5, <1>8 DEF IInv, TypeOK
  <2> QED
    BY <1>1, <1>4, <1>7, <2>2, <2>3 DEF Covers
<1>9. CASE /\ totalAmountInvested + amount = terms.amountWanted /\ state' = "Payback"
           /\ CanTransfer(received, Loan, terms.borrower, terms.amountWanted)
           /\ balanceOf' = [balanceOf EXCEPT ![LoanToken] = handedOut]
  <2>1. handedOut[Loan] = received[Loan] - terms.amountWanted
    BY <1>4, <1>5, <1>9, WidthAssumption, MovedExact
  <2> HIDE DEF handedOut
  <2>4. \A t \in Tokens : balanceOf'[t][Loan] = IF t = LoanToken THEN handedOut[Loan] ELSE balanceOf[t][Loan]
    BY <1>4, <1>9 DEF IInv, TypeOK
  <2>2. CASE currentState' = "Payback"
    <3>1. loanTokensDue' = 0 /\ collateralDue' = receivedCollateral
      BY <1>2, <1>6, <2>2 DEF DuesBounded
    <3> QED
      BY <1>1, <1>4, <1>5, <1>7, <1>9, <2>1, <2>4, <3>1 DEF Covers
  <2>3. CASE currentState' = "Defaulted"
    <3>1. loanTokensDue' = 0 /\ collateralDue' <= receivedCollateral /\ collateralDue' \in Nat
      BY <1>2, <1>6, <2>3 DEF DuesBounded, Final
    <3> QED
      BY <1>1, <1>4, <1>5, <1>7, <1>9, <2>1, <2>4, <3>1 DEF Covers
  <2> QED
    BY <1>9, <2>2, <2>3 DEF currentState
<1> QED
  BY <1>3, <1>8, <1>9

LEMMA PaybackCovers ==
  ASSUME IInv, IInv', InterestFits, Covers, NEW u \in Users, payback(u) PROVE Covers'
<1> DEFINE amount == paybackRequired
<1>1. /\ currentState = "Payback" /\ state' = "Paidback"
      /\ CanTransfer(balanceOf[LoanToken], u, Loan, amount)
      /\ balanceOf' = [balanceOf EXCEPT ![LoanToken] = Moved(@, u, Loan, amount)]
      /\ UNCHANGED <<terms, receivedCollateral>>
  BY CurrentStates DEF payback, CanTransferFrom, inPayback, newState, IInv
<1>2. /\ amount \in Uint(Word) /\ amount \in Nat /\ receivedCollateral \in Nat
      /\ LoanToken \in Tokens /\ CollateralToken \in Tokens /\ Loan \in Addresses
  BY PaybackType, Numbers, Finite DEF IInv, Tokens, Uint
<1>3. InterestFits' /\ paybackRequired' = amount /\ currentState' = "Paidback"
  BY <1>1 DEF InterestFits, paybackRequired, calculateInterest, currentState
<1> HIDE DEF amount
<1>4. DuesBounded /\ DuesBounded'
  BY Dues, PTL
<1>5. /\ loanTokensDue = 0 /\ collateralDue = receivedCollateral
      /\ loanTokensDue' \in Nat /\ loanTokensDue' <= amount
      /\ collateralDue' \in Nat /\ collateralDue' <= receivedCollateral
  BY <1>1, <1>3, <1>4 DEF DuesBounded, Final
<1>6. \A t \in Tokens : balanceOf'[t][Loan] = balanceOf[t][Loan] + (IF t = LoanToken THEN amount ELSE 0)
  <2> DEFINE bal == Moved(balanceOf[LoanToken], u, Loan, amount)
  <2>1. balanceOf' = [balanceOf EXCEPT ![LoanToken] = bal]
    BY <1>1
  <2>2. bal[Loan] = balanceOf[LoanToken][Loan] + amount
    BY <1>1, <1>2, OthersPay
  <2> HIDE DEF bal
  <2>3. \A t \in Tokens : balanceOf'[t][Loan] = IF t = LoanToken THEN bal[Loan] ELSE balanceOf[t][Loan]
    BY <1>2, <2>1 DEF IInv, TypeOK
  <2>4. \A t \in Tokens : balanceOf[t][Loan] \in Nat
    BY Balances
  <2> QED
    BY <2>2, <2>3, <2>4
<1>7. \A t \in Tokens : balanceOf[t][Loan] \in Nat
  BY Balances
<1> QED
  BY <1>2, <1>5, <1>6, <1>7 DEF Covers

AllOrNothing ==
    /\ LoanLeft \in [Users -> Nat] /\ CollateralLeft \in [Users -> Nat]
    /\ \A u \in Users :
         /\ LoanLeft[u] = IF loanWithdrawn[u] = 0 THEN loanEntitlement(u) ELSE 0
         /\ CollateralLeft[u] = IF collateralWithdrawn[u] = 0 THEN collateralEntitlement(u) ELSE 0

LEMMA LeftNow == IInv => AllOrNothing
BY Left, LeftTypes DEF AllOrNothing, LoanLeft, CollateralLeft

LEMMA WithdrawCovers ==
  ASSUME IInv, IInv', Covers, NEW u \in Users, withdraw(u) PROVE Covers'
<1> DEFINE loan == canWithdrawLoanToken(u)
           collateral == canWithdrawCollateralToken(u)
<1>1. /\ currentState' = currentState
      /\ \A c \in Users : /\ loanEntitlement(c)' = loanEntitlement(c)
                          /\ collateralEntitlement(c)' = collateralEntitlement(c)
      /\ UNCHANGED <<terms, receivedCollateral, investVars>>
  BY Timeouts DEF withdraw
<1>2. /\ LoanLeft \in [Users -> Nat] /\ CollateralLeft \in [Users -> Nat]
      /\ \A c \in Users :
           /\ LoanLeft[c] = IF loanWithdrawn[c] = 0 THEN loanEntitlement(c) ELSE 0
           /\ CollateralLeft[c] = IF collateralWithdrawn[c] = 0 THEN collateralEntitlement(c) ELSE 0
  BY LeftNow DEF AllOrNothing
<1>3. /\ LoanLeft' \in [Users -> Nat] /\ CollateralLeft' \in [Users -> Nat]
      /\ \A c \in Users :
           /\ LoanLeft'[c] = IF loanWithdrawn'[c] = 0 THEN loanEntitlement(c) ELSE 0
           /\ CollateralLeft'[c] = IF collateralWithdrawn'[c] = 0 THEN collateralEntitlement(c) ELSE 0
  <2>1. AllOrNothing'
    BY LeftNow, PTL
  <2> QED
    BY <1>1, <2>1 DEF AllOrNothing
<1>4. /\ loan \in Uint(Word) /\ collateral \in Uint(Word) /\ loan \in Nat /\ collateral \in Nat
      /\ loan = LoanLeft[u] /\ collateral = CollateralLeft[u]
      /\ LoanToken \in Tokens /\ CollateralToken \in Tokens /\ IsFiniteSet(Users)
  BY Withdrawal, Finite DEF LoanLeft, CollateralLeft, Tokens, Uint
<1>5. /\ loan > 0 => loanWithdrawn[u] = 0 /\ AddMod(loanWithdrawn[u], loan, Word) = loanEntitlement(u)
      /\ collateral > 0 => /\ collateralWithdrawn[u] = 0
                           /\ AddMod(collateralWithdrawn[u], collateral, Word) = collateralEntitlement(u)
      /\ loan > 0 \/ collateral > 0 => currentState \in Final
  BY Withdrawal
<1>6. /\ Total(LoanLeft) \in Nat /\ Total(LoanLeft') \in Nat
      /\ Total(CollateralLeft) \in Nat /\ Total(CollateralLeft') \in Nat
  BY <1>2, <1>3, <1>4, TotalType
<1>7. currentState \in Final =>
         /\ loanTokensDue = Total(LoanLeft) /\ loanTokensDue' = Total(LoanLeft')
         /\ collateralDue = Total(CollateralLeft) /\ collateralDue' = Total(CollateralLeft')
  BY <1>1 DEF loanTokensDue, collateralDue, LoanLeft, CollateralLeft, Final
<1>8. \A t \in Tokens : balanceOf[t][Loan] \in Nat
  BY Balances
<1> HIDE DEF loan, collateral
<1>9. CASE /\ loan > 0 /\ UNCHANGED collateralWithdrawn
           /\ loanWithdrawn' = [loanWithdrawn EXCEPT ![u] = AddMod(@, loan, Word)]
           /\ CanTransfer(balanceOf[LoanToken], Loan, u, loan)
           /\ balanceOf' = [balanceOf EXCEPT ![LoanToken] = Moved(@, Loan, u, loan)]
  <2>1. loanWithdrawn' = [loanWithdrawn EXCEPT ![u] = loanEntitlement(u)]
    BY <1>5, <1>9 DEF IInv, TypeOK
  <2>2. LoanLeft'[u] = 0 /\ \A c \in Users \ {u} : LoanLeft'[c] = LoanLeft[c]
    BY <1>2, <1>3, <1>4, <1>5, <1>9, <2>1 DEF IInv, TypeOK
  <2>3. Total(LoanLeft') + LoanLeft[u] = Total(LoanLeft) + LoanLeft'[u]
    BY <1>2, <1>3, <1>4, <2>2, TotalChange
  <2>4. CollateralLeft' = CollateralLeft
    BY <1>2, <1>3, <1>9
  <2> DEFINE bal == Moved(balanceOf[LoanToken], Loan, u, loan)
  <2>5. \A t \in Tokens : balanceOf'[t][Loan] = balanceOf[t][Loan] - (IF t = LoanToken THEN loan ELSE 0)
    <3>1. balanceOf' = [balanceOf EXCEPT ![LoanToken] = bal]
      BY <1>9
    <3>2. bal[Loan] = balanceOf[LoanToken][Loan] - loan
      BY <1>4, <1>9, LoanPays
    <3> HIDE DEF bal
    <3>3. \A t \in Tokens : balanceOf'[t][Loan] = IF t = LoanToken THEN bal[Loan] ELSE balanceOf[t][Loan]
      BY <1>4, <3>1 DEF IInv, TypeOK
    <3> QED
      BY <1>4, <1>8, <3>2, <3>3
  <2> QED
    BY <1>4, <1>5, <1>6, <1>7, <1>8, <1>9, <2>2, <2>3, <2>4, <2>5 DEF Covers
<1>10. CASE /\ collateral > 0 /\ UNCHANGED loanWithdrawn
            /\ collateralWithdrawn' = [collateralWithdrawn EXCEPT ![u] = AddMod(@, collateral, Word)]
            /\ CanTransfer(balanceOf[CollateralToken], Loan, u, collateral)
            /\ balanceOf' = [balanceOf EXCEPT ![CollateralToken] = Moved(@, Loan, u, collateral)]
  <2>1. collateralWithdrawn' = [collateralWithdrawn EXCEPT ![u] = collateralEntitlement(u)]
    BY <1>5, <1>10 DEF IInv, TypeOK
  <2>2. CollateralLeft'[u] = 0 /\ \A c \in Users \ {u} : CollateralLeft'[c] = CollateralLeft[c]
    BY <1>2, <1>3, <1>4, <1>5, <1>10, <2>1 DEF IInv, TypeOK
  <2>3. Total(CollateralLeft') + CollateralLeft[u] = Total(CollateralLeft) + CollateralLeft'[u]
    BY <1>2, <1>3, <1>4, <2>2, TotalChange
  <2>4. LoanLeft' = LoanLeft
    BY <1>2, <1>3, <1>10
  <2> DEFINE bal == Moved(balanceOf[CollateralToken], Loan, u, collateral)
  <2>5. \A t \in Tokens : balanceOf'[t][Loan] = balanceOf[t][Loan] - (IF t = CollateralToken THEN collateral ELSE 0)
    <3>1. balanceOf' = [balanceOf EXCEPT ![CollateralToken] = bal]
      BY <1>10
    <3>2. bal[Loan] = balanceOf[CollateralToken][Loan] - collateral
      BY <1>4, <1>10, LoanPays
    <3> HIDE DEF bal
    <3>3. \A t \in Tokens : balanceOf'[t][Loan] = IF t = CollateralToken THEN bal[Loan] ELSE balanceOf[t][Loan]
      BY <1>4, <3>1 DEF IInv, TypeOK
    <3> QED
      BY <1>4, <1>8, <3>2, <3>3
  <2> QED
    BY <1>4, <1>5, <1>6, <1>7, <1>8, <1>10, <2>2, <2>3, <2>4, <2>5 DEF Covers
<1>11. CASE UNCHANGED <<balanceOf, withdrawVars>>
  BY <1>1, <1>11, SameDues DEF Covers
<1> QED
  BY <1>9, <1>10, <1>11 DEF withdraw, paysOut, loan, collateral

SolventInv == IInv /\ NothingInvestedYet /\ Solvent

LEMMA SolventMeansCovers == Solvent <=> (InterestFits => Covers)
BY DEF Solvent, Covers

LEMMA SolventInit == Init => SolventInv
<1> SUFFICES ASSUME Init PROVE SolventInv
  OBVIOUS
<1>1. PICK t \in Terms : openAccount(t)
  BY DEF Init
<1>2. IInv
  BY InitInv
<1>3. NothingInvestedYet
  BY <1>1 DEF NothingInvestedYet, openAccount
<1>4. currentState = "CollateralCollection"
  BY <1>1 DEF openAccount, currentState
<1>5. loanTokensDue = 0 /\ collateralDue = 0
  <2>1. DuesBounded
    BY <1>2, Dues
  <2> QED
    BY <1>4, <2>1 DEF DuesBounded
<1>6. \A x \in Tokens : balanceOf[x][Loan] \in Nat
  BY <1>2, Balances
<1>7. LoanToken \in Tokens /\ CollateralToken \in Tokens
  BY DEF Tokens
<1> QED
  BY <1>2, <1>3, <1>5, <1>6, <1>7 DEF SolventInv, Solvent

LEMMA SolventNext == SolventInv /\ [Next]_vars => SolventInv'
<1> SUFFICES ASSUME SolventInv, [Next]_vars PROVE SolventInv'
  OBVIOUS
<1>1. IInv /\ NothingInvestedYet /\ (InterestFits => Covers)
  BY SolventMeansCovers DEF SolventInv
<1>2. IInv'
  BY <1>1, StepInv
<1>3. terms' = terms
  BY DEF Next, Tick, TokenStep, LoanStep, print, Approve, Transfer, withdrawable, gatherCollateral, invest, payback,
         withdraw, vars, ledgerVars
<1>4. NothingInvestedYet'
  <2>1. CASE Tick \/ TokenStep \/ UNCHANGED vars
    BY <1>1, <2>1 DEF NothingInvestedYet, Tick, TokenStep, print, Approve, Transfer, vars, ledgerVars, investVars
  <2>2. CASE LoanStep
    <3>1. state' # "CollateralCollection" \/ UNCHANGED <<state, totalAmountInvested>>
      <4>1. CASE withdrawable
        BY <4>1 DEF withdrawable, processTimeouts, newState, legalTransition, investVars
      <4>2. ASSUME NEW u \in Users, gatherCollateral(u) \/ payback(u)
            PROVE  state' # "CollateralCollection"
        BY <4>2 DEF gatherCollateral, payback, newState, legalTransition
      <4>3. ASSUME NEW u \in Users, invest(u) PROVE state' # "CollateralCollection"
        <5>1. state = "Fundraising"
          BY <1>1, <4>3, CurrentStates DEF invest, inFundraising, IInv
        <5> QED
          BY <4>3, <5>1 DEF invest, newState
      <4>4. ASSUME NEW u \in Users, withdraw(u)
            PROVE  state' # "CollateralCollection" \/ UNCHANGED <<state, totalAmountInvested>>
        BY <4>4 DEF withdraw, processTimeouts, newState, legalTransition, investVars
      <4> QED
        BY <2>2, <4>1, <4>2, <4>3, <4>4 DEF LoanStep
    <3> QED
      BY <1>1, <3>1 DEF NothingInvestedYet
  <2> QED
    BY <2>1, <2>2 DEF Next
<1>5. ASSUME InterestFits' PROVE Covers'
  <2>1. InterestFits /\ Covers
    BY <1>1, <1>3, <1>5 DEF InterestFits
  <2>2. CASE Tick
    BY <1>1, <1>2, <2>1, <2>2, TickCovers
  <2>3. CASE TokenStep \/ UNCHANGED vars
    BY <1>1, <1>2, <2>1, <2>3, TokenStepCovers
  <2>4. CASE withdrawable
    <3>1. currentState' = currentState
      BY <1>1, <2>4, Timeouts DEF withdrawable
    <3>2. loanTokensDue' = loanTokensDue /\ collateralDue' = collateralDue
      BY <2>4, <3>1, SameDues DEF withdrawable
    <3> QED
      BY <2>1, <2>4, <3>2 DEF withdrawable, Covers, tokenVars
  <2>5. ASSUME NEW u \in Users, gatherCollateral(u) \/ invest(u) \/ payback(u) \/ withdraw(u)
        PROVE  Covers'
    BY <1>1, <1>2, <2>1, <2>5, GatherCovers, InvestCovers, PaybackCovers, WithdrawCovers
  <2> QED
    BY <2>2, <2>3, <2>4, <2>5 DEF Next, LoanStep
<1>6. Solvent'
  <2>1. Solvent' <=> (InterestFits' => Covers')
    BY DEF Solvent, Covers
  <2> QED
    BY <1>5, <2>1
<1> QED
  BY <1>2, <1>4, <1>6 DEF SolventInv

(* The contract can always pay what it owes, in whatever order it is asked   *)
(* to, with one token in both roles or with two, for any number of investors *)
(* and any interest that fits the word (InvestorLedger.sol:374-462).         *)
THEOREM AlwaysSolvent == Spec => []Solvent
<1>1. SolventInv => Solvent
  BY DEF SolventInv
<1> QED
  BY <1>1, SolventInit, SolventNext, PTL DEF Spec
-----------------------------------------------------------------------------
(* What rounding loses.                                                     *)

(* Shares rounded down, each by less than one unit, miss the whole by less   *)
(* than one unit for each of those who put something in.                    *)
LEMMA Rounding ==
  ASSUME NEW S, IsFiniteSet(S), NEW e \in [S -> Nat], NEW f \in [S -> Nat],
         NEW k \in Nat \ {0}, NEW m \in Nat, NEW whole \in Nat,
         \A a \in S : m * f[a] <= k * e[a] + (IF f[a] > 0 THEN k - 1 ELSE 0),
         k * whole <= m * Total(f), Total(f) > 0
  PROVE  whole - Total(e) < Cardinality({a \in S : f[a] > 0})
<1> DEFINE T == {a \in S : f[a] > 0}
           one == [a \in S |-> IF a \in T THEN 1 ELSE 0]
           ke == [a \in S |-> k * e[a]]
           up == [a \in S |-> (k - 1) * one[a]]
           sum == [a \in S |-> ke[a] + up[a]]
           mf == [a \in S |-> m * f[a]]
           n == Cardinality(T)
<1>1. /\ one \in [S -> Nat] /\ ke \in [S -> Nat] /\ mf \in [S -> Nat]
      /\ \A a \in S : ke[a] = k * e[a] /\ mf[a] = m * f[a]
  OBVIOUS
<1>2. \A a \in S : up[a] = (k - 1) * one[a] /\ up[a] = IF f[a] > 0 THEN k - 1 ELSE 0
  OBVIOUS
<1>3. up \in [S -> Nat] /\ k - 1 \in Nat
  BY <1>2
<1>4. /\ sum \in [S -> Nat] /\ \A a \in S : sum[a] = ke[a] + up[a]
  BY <1>1, <1>3
<1>5. T \in SUBSET S /\ IsFiniteSet(T) /\ n \in Nat
  BY FS_Subset, FS_CardinalityType
<1>6. Total(one) = n
  BY <1>5, TotalOnes
<1>7. n > 0
  <2>1. SUFFICES ASSUME n = 0 PROVE FALSE
    BY <1>5
  <2>2. T = {}
    BY <1>5, <2>1, FS_EmptySet
  <2>3. f = [a \in S |-> 0]
    BY <2>2
  <2> QED
    BY <2>3, TotalZero
<1> HIDE DEF one, ke, up, sum, mf, T, n
<1>8. Total(ke) = k * Total(e) /\ Total(mf) = m * Total(f)
  BY <1>1, TotalScaled
<1>9. Total(up) = (k - 1) * n
  BY <1>1, <1>2, <1>3, <1>6, TotalScaled
<1>10. Total(sum) = k * Total(e) + (k - 1) * n
  <2>1. Total(sum) = Total(ke) + Total(up)
    BY <1>1, <1>3, <1>4, TotalPlus
  <2> QED
    BY <1>8, <1>9, <2>1
<1>11. Total(mf) <= Total(sum)
  <2>1. \A a \in S : mf[a] <= sum[a]
    BY <1>1, <1>2, <1>4
  <2> QED
    BY <1>1, <1>4, <2>1, TotalMonotone
<1>12. Total(e) \in Nat /\ Total(f) \in Nat
  BY TotalType
<1>13. k * whole <= k * Total(e) + (k - 1) * n
  <2> DEFINE w == k * whole
             g == m * Total(f)
             h == k * Total(e) + (k - 1) * n
  <2>1. w <= g /\ g <= h
    BY <1>8, <1>10, <1>11, Zenon
  <2>2. w \in Nat /\ g \in Nat /\ h \in Nat
    <3>1. \A x, y \in Nat : x * y \in Nat /\ x + y \in Nat
      OBVIOUS
    <3>2. k \in Nat /\ k - 1 \in Nat /\ n \in Nat /\ Total(e) \in Nat /\ Total(f) \in Nat
      BY <1>3, <1>5, <1>12
    <3> QED
      BY <3>1, <3>2
  <2> HIDE DEF w, g, h
  <2>3. w <= h
    BY <2>1, <2>2
  <2> QED
    BY <2>3 DEF w, h
<1>14. whole < Total(e) + n
  <2>1. SUFFICES ASSUME Total(e) + n <= whole PROVE FALSE
    BY <1>5, <1>12
  <2>2. (Total(e) + n) * k <= whole * k
    BY <1>5, <1>12, <2>1, Monotone
  <2>3. /\ (Total(e) + n) * k = k * Total(e) + (k - 1) * n + n
        /\ whole * k = k * whole
    BY <1>5, <1>12
  <2> DEFINE h == k * Total(e) + (k - 1) * n
             w == k * whole
  <2>4. h \in Nat /\ w \in Nat
    <3>1. \A x, y \in Nat : x * y \in Nat /\ x + y \in Nat
      OBVIOUS
    <3>2. k \in Nat /\ k - 1 \in Nat /\ n \in Nat /\ Total(e) \in Nat
      BY <1>3, <1>5, <1>12
    <3> QED
      BY <3>1, <3>2
  <2>5. w <= h /\ h + n <= w
    BY <1>13, <2>2, <2>3
  <2> HIDE DEF h, w
  <2> QED
    BY <1>5, <1>7, <2>4, <2>5
<1> QED
  BY <1>5, <1>12, <1>14 DEF n, T

LEMMA PaybackDust ==
  ASSUME IInv, InterestFits, currentState = "Paidback"
  PROVE  paybackRequired - Total(LoanShares) < Cardinality({u \in Users : amountInvested[u] > 0})
<1> DEFINE p == terms.interestPermil
           w == terms.amountWanted
<1>1. p \in Nat /\ w \in Nat /\ IsFiniteSet(Users) /\ amountInvested \in [Users -> Nat] /\ paybackRequired \in Nat
  BY Numbers, Finite, PaybackType DEF IInv, TypeOK, Uint
<1>2. Total(amountInvested) = w /\ w > 0
  BY CurrentStates DEF IInv, FundsAddUp, TermsPositive
<1>3. LoanShares \in [Users -> Nat]
  BY LeftTypes
<1>4. paybackRequired = w + (w * p) \div 1000
  BY <1>1, InterestExact DEF paybackRequired
<1>5. ASSUME NEW u \in Users
      PROVE  (1000 + p) * amountInvested[u]
                <= 1000 * LoanShares[u] + (IF amountInvested[u] > 0 THEN 1000 - 1 ELSE 0)
  <2>1. amountInvested[u] \in Nat /\ amountInvested[u] <= w
    BY <1>1, InvestedPart, Numbers
  <2>2. LoanShares[u] = amountInvested[u] + (amountInvested[u] * p) \div 1000
    BY <2>1, InterestExact DEF LoanShares, loanEntitlement
  <2> HIDE DEF p, w
  <2> DEFINE a == amountInvested[u]
             ap == a * p
             q == ap \div 1000
  <2>3. ap \in Nat /\ 1000 \in Nat \ {0}
    BY <1>1, <2>1
  <2>4. q \in Nat /\ ap < 1000 * q + 1000 /\ 1000 * q <= ap
    BY <2>3, Floor
  <2>5. (1000 + p) * a = 1000 * a + ap /\ (a = 0 => ap = 0)
    BY <1>1, <2>1
  <2>6. a \in Nat /\ LoanShares[u] = a + q
    BY <2>1, <2>2
  <2> HIDE DEF ap, q
  <2> QED
    BY <2>3, <2>4, <2>5, <2>6
<1> HIDE DEF p, w
<1>6. 1000 * paybackRequired <= (1000 + p) * w
  <2> DEFINE q == (w * p) \div 1000
  <2>1. w * p \in Nat /\ 1000 \in Nat \ {0} /\ (1000 + p) * w = 1000 * w + w * p
    BY <1>1
  <2>2. q \in Nat /\ 1000 * q <= w * p
    BY <2>1, Floor
  <2>3. paybackRequired = w + q
    BY <1>4
  <2> HIDE DEF q
  <2> QED
    BY <1>1, <2>1, <2>2, <2>3
<1>7. 1000 * paybackRequired <= (1000 + p) * Total(amountInvested) /\ Total(amountInvested) > 0
  BY <1>2, <1>6
<1> DEFINE k == 1000
           m == 1000 + p
           whole == paybackRequired
<1>8. /\ k \in Nat \ {0} /\ m \in Nat /\ whole \in Nat /\ k * whole <= m * Total(amountInvested)
      /\ Total(amountInvested) > 0 /\ IsFiniteSet(Users) /\ amountInvested \in [Users -> Nat]
      /\ \A u \in Users :
            m * amountInvested[u] <= k * LoanShares[u] + (IF amountInvested[u] > 0 THEN k - 1 ELSE 0)
  BY <1>1, <1>5, <1>7
<1> HIDE DEF k, m, whole
<1>9. whole - Total(LoanShares) < Cardinality({u \in Users : amountInvested[u] > 0})
  BY <1>3, <1>8, Rounding
<1> QED
  BY <1>9 DEF whole

LEMMA CollateralDust ==
  ASSUME IInv, SharesFit, currentState = "Defaulted"
  PROVE  receivedCollateral - Total(CollateralShares) < Cardinality({u \in Users : amountInvested[u] > 0})
<1> DEFINE c == receivedCollateral
           t == totalAmountInvested
<1>1. /\ t \in Nat \ {0} /\ c \in Nat /\ IsFiniteSet(Users) /\ amountInvested \in [Users -> Nat]
      /\ Total(amountInvested) = t
  BY Numbers, Finite, CurrentStates DEF IInv, TypeOK, FundsAddUp, TermsPositive, Uint
<1>2. CollateralShares \in [Users -> Nat]
  BY LeftTypes
<1>3. ASSUME NEW u \in Users
      PROVE  c * amountInvested[u] <= t * CollateralShares[u] + (IF amountInvested[u] > 0 THEN t - 1 ELSE 0)
  <2> DEFINE a == amountInvested[u]
             ac == a * c
             q == ac \div t
  <2>1. a \in Nat /\ a <= t
    BY <1>1, InvestedPart
  <2>2. ac \in Nat /\ ac <= t * c /\ t * c < Word
    BY <1>1, <2>1, Monotone DEF SharesFit
  <2>3. CollateralShares[u] = MulMod(a, c, Word) \div t
    BY DEF CollateralShares, collateralEntitlement
  <2>4. MulMod(a, c, Word) = ac
    BY <1>1, <2>2, WidthAssumption DEF MulMod
  <2>5. CollateralShares[u] = q
    BY <2>3, <2>4
  <2>6. q \in Nat /\ ac < t * q + t /\ t * q <= ac
    BY <1>1, <2>2, Floor
  <2>7. c * a = ac /\ (a = 0 => ac = 0) /\ t * q \in Nat
    BY <1>1, <2>1, <2>6
  <2> HIDE DEF ac, q, c, t
  <2> DEFINE tq == t * q
  <2>8. ac <= tq + (IF a > 0 THEN t - 1 ELSE 0)
    <3>1. tq \in Nat /\ ac < tq + t
      BY <2>6, <2>7
    <3> HIDE DEF tq, a
    <3> QED
      BY <1>1, <2>1, <2>2, <2>7, <3>1
  <2> QED
    BY <2>5, <2>7, <2>8
<1> HIDE DEF c, t
<1>4. t * c <= c * Total(amountInvested) /\ Total(amountInvested) > 0
  BY <1>1
<1>5. c - Total(CollateralShares) < Cardinality({u \in Users : amountInvested[u] > 0})
  BY <1>1, <1>2, <1>3, <1>4, Rounding
<1> QED
  BY <1>5 DEF c

LEMMA DustFromInv == IInv => DustBounded
<1> SUFFICES ASSUME IInv, InterestFits, SharesFit
             PROVE  /\ currentState = "Paidback" =>
                         /\ Total(LoanShares) <= paybackRequired
                         /\ paybackRequired - Total(LoanShares) < Cardinality({u \in Users : amountInvested[u] > 0})
                    /\ currentState = "Defaulted" =>
                         /\ Total(CollateralShares) <= receivedCollateral
                         /\ receivedCollateral - Total(CollateralShares)
                               < Cardinality({u \in Users : amountInvested[u] > 0})
  BY DEF DustBounded, LoanShares, CollateralShares
<1> QED
  BY LoanSharesBound, CollateralSharesBound, PaybackDust, CollateralDust DEF Final

(* Investors lose less than one unit each to rounding, of the payback and of *)
(* a defaulted loan's collateral, and are never given more than there is:    *)
(* the interest is computed per investor (InvestorLedger.sol:179-181) and    *)
(* the collateral multiplied before it is divided (InvestorLedger.sol:418).  *)
THEOREM DustIsBounded == Spec => []DustBounded
<1>1. IInv => DustBounded
  BY DustFromInv
<1> QED
  BY <1>1, InitInv, StepInv, PTL DEF Spec
=============================================================================
