-------------------------- MODULE LoanClient_proofs --------------------------
(***************************************************************************)
(* Theorems about the Loan object of the library, for any number of calls   *)
(* that overlap in any way, all amounts, terms and users.                   *)
(***************************************************************************)
EXTENDS LoanClient, InvestorLedger_proofs

(* The states of a loan that was handed out and not canceled.               *)
AsPaid == {"Payback", "Paidback", "Defaulted"}

(* From a state that was read to one the loan is in later.                  *)
Leads(a, b) ==
    \/ a = b
    \/ a = "CollateralCollection"
    \/ a = "Fundraising" /\ b # "CollateralCollection"
    \/ a = "Payback" /\ b \in AsPaid

FieldNames == {Fields[i] : i \in DOMAIN Fields}
Snapshot == [FieldNames -> Nat \cup States]

Methods == {"none", "sendCollateral", "invest", "payback", "update", "withdrawAll", "possibleWithdrawals"}
Places == {"idle", "updating", "confirming", "looking", "asked"} \cup Waiting \cup Settled
Reasons == {"CollateralBackAfterPayback", "CollateralBackAfterDefaulted", "CollateralBackAfterCanceled",
            "LoanBackAfterPayback", "LoanBackAfterCanceled", "Unknown"}

CallState ==
    [op : Methods, at : Places, amount : Uint(Word), reads : 0 .. 4, seen : Snapshot,
     mined : BOOLEAN, amounts : Uint(Word) \X Uint(Word), reasons : SUBSET Reasons]

Outcome(r) ==
    IF r \in {"CollateralBackAfterPayback", "LoanBackAfterPayback"} THEN "Paidback"
    ELSE IF r \in {"CollateralBackAfterCanceled", "LoanBackAfterCanceled"} THEN "Canceled"
    ELSE "Defaulted"

(* One call x of a method, while the loan is in state s.                    *)
CallOK(x, s) ==
    /\ x \in CallState
    /\ x.at = "idle" => x = NoCall
    /\ x.at \in {"approving", "updating", "executing"} => x.op \in DOMAIN methodCalled
    /\ x.at \in {"withdrawing", "looking"} => x.op = "withdrawAll"
    /\ x.reads = 4 => x.seen["loanState"] \in States /\ Leads(x.seen["loanState"], s)
    /\ \A r \in x.reasons : r # "Unknown" => Outcome(r) = s

(* What the object knows was true, and its deadline is the loan's.          *)
Known ==
    /\ blockchainState.loanState \in States
    /\ Leads(blockchainState.loanState, currentState)
    /\ PaybackHasDeadline

Transactions ==
    {Sent(m) : m \in {"gatherCollateral", "invest", "payback", "withdraw"}} \cup
    {Approval(t, v) : t \in Tokens, v \in Uint(Word)}

(* An approval t of a call x stands for what the call asked for, and was    *)
(* sent in a state that its method requires or in a later one.              *)
ApprovalOK(x, t, s, borrower) ==
    t.method = "approve" =>
        /\ x.op \in DOMAIN methodCalled
        /\ t.token = IF x.op = "sendCollateral" THEN CollateralToken ELSE LoanToken
        /\ x.op # "payback" => t.value = x.amount
        /\ x.op = "sendCollateral" => borrower = me
        /\ x.op = "invest" => s # "CollateralCollection"
        /\ x.op = "payback" => s \in AsPaid

(* A call has at most one transaction under way, and one that waits has     *)
(* its transaction in the pool or its receipt.                              *)
Pooled ==
    /\ pool \in Seq([call : Calls, transaction : Transactions])
    /\ \A i, j \in DOMAIN pool : pool[i].call = pool[j].call => i = j
    /\ \A i \in DOMAIN pool :
          /\ call[pool[i].call].at \in Waiting \cup {"rejected"}
          /\ ApprovalOK(call[pool[i].call], pool[i].transaction, currentState, terms.borrower)
    /\ \A c \in Calls : call[c].at \in Waiting =>
          (call[c].mined <=> \A i \in DOMAIN pool : pool[i].call # c)

Approving(c) == \E i \in DOMAIN pool : pool[i].call = c /\ pool[i].transaction.method = "approve"

(* What calls of op asked for whose approval is no longer on its way.       *)
Granted(op) == [c \in Calls |-> IF call[c].op = op /\ ~Approving(c) THEN call[c].amount ELSE 0]

(* With one token in both roles the borrower's two purposes share it.       *)
Shared == LoanToken = CollateralToken /\ terms.borrower = me
Both(x, y) == x + (IF Shared THEN y ELSE 0)

Taken == Both(amountInvested[me], receivedCollateral)
Asked == Both(Total(amountsAsked("invest")), Total(amountsAsked("sendCollateral")))
GrantedInAll == Both(Total(Granted("invest")), Total(Granted("sendCollateral")))

CollateralAsked == {0} \cup {amountsAsked("sendCollateral")[c] : c \in Calls}

(* Until the loan is handed out, what was taken and what may still be taken  *)
(* are covered by approvals that arrived.                                   *)
Covered ==
    /\ state \notin AsPaid => Taken + allowance[LoanToken][me] <= GrantedInAll
    /\ Taken <= Asked
    /\ terms.borrower = me =>
          /\ state = "CollateralCollection" => allowance[CollateralToken][me] \in CollateralAsked
          /\ receivedCollateral \in CollateralAsked

ClientInv ==
    /\ IInv
    /\ call \in [Calls -> CallState]
    /\ \A c \in Calls : CallOK(call[c], currentState)
    /\ Known
    /\ Pooled
    /\ Covered

-----------------------------------------------------------------------------
(* The chain: time, and the transactions of anybody.                        *)
Moves ==
    \/ Tick \/ UNCHANGED vars
    \/ \E u \in Users : gatherCollateral(u) \/ invest(u) \/ payback(u) \/ withdraw(u)
    \/ \E t \in Tokens, u \in Users, v \in Uint(Word) : Approve(t, u, v)

LEMMA LeadsOn ==
  ASSUME NEW a, NEW b, NEW c, Leads(a, b), Leads(b, c)
  PROVE  Leads(a, c)
BY DEF Leads, AsPaid

LEMMA MovesInv == IInv /\ Moves => IInv'
<1> SUFFICES ASSUME IInv, Moves PROVE IInv'
  OBVIOUS
<1>1. CASE Tick \/ UNCHANGED vars
  BY <1>1, StepInv DEF Next
<1>2. ASSUME NEW u \in Users, gatherCollateral(u) \/ invest(u) \/ payback(u) \/ withdraw(u) PROVE IInv'
  BY <1>2, StepInv DEF Next, LoanStep
<1>3. ASSUME NEW t \in Tokens, NEW u \in Users, NEW v \in Uint(Word), Approve(t, u, v) PROVE IInv'
  BY <1>3, ApproveStep
<1> QED
  BY <1>1, <1>2, <1>3 DEF Moves

(* A loan only goes forward, and its deadline stays once it is handed out.  *)
Forward ==
    /\ UNCHANGED terms
    /\ currentState \in States /\ currentState' \in States /\ Leads(currentState, currentState')
    /\ state \in AsPaid => state' \in AsPaid /\ paybackDeadline' = paybackDeadline

LEMMA ForwardStep == IInv /\ Moves => Forward
<1> SUFFICES ASSUME IInv, Moves PROVE Forward
  OBVIOUS
<1>1. currentState \in States /\ currentState' \in States
  <2>1. TypeOK /\ TypeOK'
    BY MovesInv DEF IInv
  <2> QED
    BY <2>1, CurrentStates DEF TypeOK, currentState, States
<1>2. CASE UNCHANGED <<now, ledgerVars>>
  BY <1>1, <1>2 DEF Forward, Leads, currentState, ledgerVars, deadlineVars
<1>3. CASE Tick
  <2>1. now' = now + 1 /\ UNCHANGED <<terms, state, fundraisingDeadline, paybackDeadline>>
    BY <1>3 DEF Tick, ledgerVars, deadlineVars
  <2>2. now \in Nat /\ fundraisingDeadline \in Nat /\ paybackDeadline \in Nat
    BY Numbers
  <2> QED
    BY <1>1, <2>1, <2>2 DEF Forward, Leads, currentState, AsPaid
<1>4. ASSUME NEW u \in Users, gatherCollateral(u) PROVE Forward
  BY <1>1, <1>4 DEF gatherCollateral, Forward, Leads, currentState, AsPaid
<1>5. ASSUME NEW u \in Users, invest(u) PROVE Forward
  <2>1. currentState = "Fundraising" /\ state = "Fundraising" /\ UNCHANGED terms
    BY <1>5, CurrentStates DEF invest, inFundraising, IInv
  <2>2. state' \in {"Fundraising", "Payback"}
    BY <1>5, <2>1 DEF invest, newState
  <2>3. currentState' # "CollateralCollection"
    BY <2>2 DEF currentState
  <2> QED
    BY <1>1, <2>1, <2>3 DEF Forward, Leads, AsPaid
<1>6. ASSUME NEW u \in Users, payback(u) PROVE Forward
  <2>1. currentState = "Payback" /\ state' = "Paidback" /\ UNCHANGED <<terms, paybackDeadline>>
    BY <1>6 DEF payback, inPayback, newState, deadlineVars
  <2>2. currentState' = "Paidback"
    BY <2>1 DEF currentState
  <2> QED
    BY <1>1, <2>1, <2>2 DEF Forward, Leads, AsPaid
<1>7. ASSUME NEW u \in Users, withdraw(u) PROVE Forward
  <2>1. /\ processTimeouts
        /\ UNCHANGED <<now, terms, receivedCollateral, investVars, deadlineVars>>
    BY <1>7 DEF withdraw
  <2>2. state' = currentState /\ currentState' = currentState
    BY <2>1, Timeouts
  <2>3. state \in AsPaid => currentState \in AsPaid
    BY DEF currentState, AsPaid
  <2> QED
    BY <1>1, <2>1, <2>2, <2>3 DEF Forward, Leads, deadlineVars
<1>8. (UNCHANGED vars \/ \E t \in Tokens, u \in Users, v \in Uint(Word) : Approve(t, u, v))
         => UNCHANGED <<now, ledgerVars>>
  BY DEF Approve, vars
<1> QED
  BY <1>2, <1>3, <1>4, <1>5, <1>6, <1>7, <1>8 DEF Moves

(* The loan takes from the user's allowance what it takes from the user.    *)
TakesFromAllowance ==
    /\ state' \notin AsPaid => state \notin AsPaid
    /\ state \notin AsPaid => Taken' + allowance'[LoanToken][me] <= Taken + allowance[LoanToken][me]
    /\ Taken' <= Taken + (IF state \in AsPaid THEN 0 ELSE allowance[LoanToken][me])
    /\ terms.borrower = me =>
          /\ state' = "CollateralCollection" =>
                state = "CollateralCollection" /\ allowance'[CollateralToken][me] = allowance[CollateralToken][me]
          /\ \/ receivedCollateral' = receivedCollateral
             \/ state = "CollateralCollection" /\ receivedCollateral' = allowance[CollateralToken][me]

LEMMA UsersTokens ==
  ASSUME IInv
  PROVE  /\ me \in Users /\ LoanToken \in Tokens /\ CollateralToken \in Tokens
         /\ \A t \in Tokens, u \in Users : allowance[t][u] \in Uint(Word)
         /\ allowance[LoanToken][me] \in Nat
         /\ amountInvested[me] \in Nat /\ receivedCollateral \in Nat /\ Taken \in Nat
         /\ state = "CollateralCollection" => receivedCollateral = 0
<1>1. me \in Users /\ LoanToken \in Tokens /\ CollateralToken \in Tokens
  BY ClientAssumption DEF Tokens
<1>2. /\ \A t \in Tokens, u \in Users : allowance[t][u] \in Uint(Word)
      /\ amountInvested[me] \in Nat /\ receivedCollateral \in Nat
  BY <1>1 DEF IInv, TypeOK, Uint
<1>3. Taken \in Nat
  BY <1>2 DEF Taken, Both
<1>4. state = "CollateralCollection" => receivedCollateral = 0
  BY <1>2 DEF IInv, FundsAddUp
<1> QED
  BY <1>1, <1>2, <1>3, <1>4 DEF Uint

TakenType == Taken \in Nat /\ allowance[LoanToken][me] \in Nat

LEMMA TakenTyped == IInv => TakenType
BY UsersTokens DEF TakenType

LEMMA QuietTakes ==
  ASSUME IInv, UNCHANGED <<terms, receivedCollateral, amountInvested>>,
         state' \in AsPaid <=> state \in AsPaid,
         state' = "CollateralCollection" => state = "CollateralCollection",
         \A t \in Tokens : allowance'[t][me] = allowance[t][me]
  PROVE  TakesFromAllowance
<1>1. Taken' = Taken
  BY DEF Taken, Both, Shared
<1>2. allowance'[LoanToken][me] = allowance[LoanToken][me]
      /\ allowance'[CollateralToken][me] = allowance[CollateralToken][me]
  BY UsersTokens
<1> QED
  BY <1>1, <1>2, UsersTokens DEF TakesFromAllowance

LEMMA GatherTakes ==
  ASSUME IInv, NEW u \in Users, gatherCollateral(u)
  PROVE  TakesFromAllowance
<1> DEFINE amount == allowance[CollateralToken][u]
<1>1. /\ state = "CollateralCollection" /\ state' = "Fundraising" /\ u = terms.borrower
      /\ receivedCollateral' = AddMod(receivedCollateral, amount, Word)
      /\ allowance' = [allowance EXCEPT ![CollateralToken][u] = SubMod(@, amount, Word)]
      /\ UNCHANGED <<terms, amountInvested>>
  BY DEF gatherCollateral, newState, investVars
<1>2. amount \in Uint(Word) /\ receivedCollateral = 0 /\ amountInvested[me] \in Nat
  BY <1>1, UsersTokens
<1>3. receivedCollateral' = amount
  BY <1>1, <1>2, WidthAssumption DEF AddMod, Uint
<1>4. allowance \in [Tokens -> [Users -> Uint(Word)]] /\ me \in Users
  BY UsersTokens DEF IInv, TypeOK
<1>5. CASE u = me
  <2>1. allowance'[CollateralToken][me] = 0
    <3>1. allowance'[CollateralToken][me] = SubMod(amount, amount, Word)
      BY <1>1, <1>4, <1>5, UsersTokens
    <3> QED
      BY <1>2, <3>1 DEF SubMod, Uint
  <2>2. CollateralToken # LoanToken => allowance'[LoanToken][me] = allowance[LoanToken][me]
    BY <1>1, <1>4, <1>5, UsersTokens
  <2>3. /\ Taken = amountInvested[me]
        /\ Taken' = amountInvested[me] + (IF LoanToken = CollateralToken THEN amount ELSE 0)
    BY <1>1, <1>2, <1>3, <1>5 DEF Taken, Both, Shared
  <2>4. LoanToken = CollateralToken => amount = allowance[LoanToken][me]
    BY <1>5
  <2> HIDE DEF amount
  <2>5. amount \in Nat /\ allowance[LoanToken][me] \in Nat
    BY <1>2, UsersTokens DEF Uint
  <2>6. /\ Taken' + allowance'[LoanToken][me] <= Taken + allowance[LoanToken][me]
        /\ Taken' <= Taken + allowance[LoanToken][me]
    BY <1>2, <2>1, <2>2, <2>3, <2>4, <2>5
  <2>7. receivedCollateral' = allowance[CollateralToken][me]
    BY <1>3, <1>5 DEF amount
  <2> QED
    BY <1>1, <2>6, <2>7 DEF TakesFromAllowance, AsPaid
<1>6. CASE u # me
  <2>1. \A t \in Tokens : allowance'[t][me] = allowance[t][me]
    BY <1>1, <1>4, <1>6, UsersTokens
  <2>2. Taken' = Taken
    BY <1>1, <1>6 DEF Taken, Both, Shared
  <2>3. /\ Taken' + allowance'[LoanToken][me] <= Taken + allowance[LoanToken][me]
        /\ Taken' <= Taken + allowance[LoanToken][me]
    BY <2>1, <2>2, UsersTokens
  <2> QED
    BY <1>1, <1>6, <2>3 DEF TakesFromAllowance, AsPaid
<1> QED
  BY <1>5, <1>6

LEMMA InvestTakes ==
  ASSUME IInv, NEW u \in Users, invest(u)
  PROVE  TakesFromAllowance
<1> DEFINE amount == investmentAmount(u)
<1>1. /\ state = "Fundraising" /\ state' \in {"Fundraising", "Payback"}
      /\ amountInvested' = [amountInvested EXCEPT ![u] = AddMod(@, amount, Word)]
      /\ amount <= allowance[LoanToken][u]
      /\ allowance' = [allowance EXCEPT ![LoanToken][u] = SubMod(@, amount, Word)]
      /\ UNCHANGED <<terms, receivedCollateral>>
  BY CurrentStates DEF invest, CanTransferFrom, inFundraising, newState, IInv
<1>2. amount \in Uint(Word) /\ AddMod(amountInvested[u], amount, Word) = amountInvested[u] + amount
  BY Investment
<1> HIDE DEF amount
<1>3. /\ allowance \in [Tokens -> [Users -> Uint(Word)]] /\ amountInvested \in [Users -> Uint(Word)]
      /\ me \in Users /\ LoanToken \in Tokens
  BY UsersTokens DEF IInv, TypeOK
<1>4. CASE u = me
  <2>1. /\ amountInvested'[me] = amountInvested[me] + amount
        /\ allowance'[LoanToken][me] = SubMod(allowance[LoanToken][me], amount, Word)
    BY <1>1, <1>2, <1>3, <1>4
  <2>2. allowance'[LoanToken][me] = allowance[LoanToken][me] - amount
    BY <1>1, <1>2, <1>4, <2>1, UsersTokens DEF SubMod, Uint
  <2>3. Taken' = Taken + amount
    BY <1>1, <1>2, <2>1, UsersTokens DEF Taken, Both, Shared, Uint
  <2>4. amount \in Nat /\ amount <= allowance[LoanToken][me]
    BY <1>1, <1>2, <1>4 DEF Uint
  <2>5. /\ Taken' + allowance'[LoanToken][me] <= Taken + allowance[LoanToken][me]
        /\ Taken' <= Taken + allowance[LoanToken][me]
    BY <2>2, <2>3, <2>4, UsersTokens
  <2> QED
    BY <1>1, <2>5 DEF TakesFromAllowance, AsPaid
<1>5. CASE u # me
  <2>1. allowance'[LoanToken][me] = allowance[LoanToken][me] /\ amountInvested'[me] = amountInvested[me]
    BY <1>1, <1>3, <1>5
  <2>2. Taken' = Taken
    BY <1>1, <2>1 DEF Taken, Both, Shared
  <2>3. /\ Taken' + allowance'[LoanToken][me] <= Taken + allowance[LoanToken][me]
        /\ Taken' <= Taken + allowance[LoanToken][me]
    BY <2>1, <2>2, UsersTokens
  <2> QED
    BY <1>1, <2>3 DEF TakesFromAllowance, AsPaid
<1> QED
  BY <1>4, <1>5

LEMMA PaybackTakes ==
  ASSUME IInv, NEW u \in Users, payback(u)
  PROVE  TakesFromAllowance
<1>1. /\ state = "Payback" /\ state' = "Paidback"
      /\ UNCHANGED <<terms, receivedCollateral, amountInvested>>
  BY CurrentStates DEF payback, inPayback, newState, IInv, investVars
<1>2. Taken' = Taken
  BY <1>1 DEF Taken, Both, Shared
<1> QED
  BY <1>1, <1>2, UsersTokens DEF TakesFromAllowance, AsPaid

(* Everything that happens on the chain but the user's own approvals.       *)
OthersMove ==
    \/ Tick \/ UNCHANGED vars
    \/ \E u \in Users : gatherCollateral(u) \/ invest(u) \/ payback(u) \/ withdraw(u)
    \/ \E t \in Tokens, u \in Users \ {me}, v \in Uint(Word) : Approve(t, u, v)

LEMMA OthersTake == IInv /\ OthersMove => TakesFromAllowance
<1> SUFFICES ASSUME IInv, OthersMove PROVE TakesFromAllowance
  OBVIOUS
<1>1. CASE UNCHANGED <<allowance, ledgerVars>>
  BY <1>1, QuietTakes DEF ledgerVars, investVars
<1>2. Tick \/ UNCHANGED vars => UNCHANGED <<allowance, ledgerVars>>
  BY DEF Tick, vars, tokenVars
<1>3. ASSUME NEW t \in Tokens, NEW u \in Users \ {me}, NEW v \in Uint(Word), Approve(t, u, v)
      PROVE  TakesFromAllowance
  <2>1. \A x \in Tokens : allowance'[x][me] = allowance[x][me]
    BY <1>3, UsersTokens DEF Approve, IInv, TypeOK
  <2> QED
    BY <1>3, <2>1, QuietTakes DEF Approve, ledgerVars, investVars
<1>4. ASSUME NEW u \in Users, withdraw(u) PROVE TakesFromAllowance
  <2>1. /\ processTimeouts
        /\ UNCHANGED <<now, allowance, terms, receivedCollateral, investVars, deadlineVars>>
    BY <1>4 DEF withdraw
  <2>2. state' = currentState
    BY <2>1, Timeouts
  <2>3. /\ state' \in AsPaid <=> state \in AsPaid
        /\ state' = "CollateralCollection" => state = "CollateralCollection"
    BY <2>2 DEF currentState, AsPaid
  <2> QED
    BY <2>1, <2>3, QuietTakes DEF investVars
<1> QED
  BY <1>1, <1>2, <1>3, <1>4, GatherTakes, InvestTakes, PaybackTakes DEF OthersMove

LEMMA OthersMoveMoves == OthersMove => Moves
BY DEF OthersMove, Moves

-----------------------------------------------------------------------------
(* What was true of a call, of an approval and of the object stays true     *)
(* while the loan goes forward.                                             *)
LEMMA CallForward ==
  ASSUME NEW x, NEW s, NEW t, CallOK(x, s), Leads(s, t)
  PROVE  CallOK(x, t)
<1>1. x.reads = 4 => Leads(x.seen["loanState"], t)
  BY LeadsOn DEF CallOK
<1>2. \A r \in x.reasons : r # "Unknown" => Outcome(r) = t
  <2>1. s \in {"Paidback", "Canceled", "Defaulted"} => t = s
    BY DEF Leads, AsPaid
  <2>2. \A r \in x.reasons : r # "Unknown" => Outcome(r) = s
    BY DEF CallOK
  <2>3. \A r : Outcome(r) \in {"Paidback", "Canceled", "Defaulted"}
    BY DEF Outcome
  <2> QED
    BY <2>1, <2>2, <2>3
<1> QED
  BY <1>1, <1>2 DEF CallOK

LEMMA ApprovalForward ==
  ASSUME NEW x, NEW p, NEW s, NEW t, NEW b, ApprovalOK(x, p, s, b), Leads(s, t)
  PROVE  ApprovalOK(x, p, t, b)
<1>1. /\ s # "CollateralCollection" => t # "CollateralCollection"
      /\ s \in AsPaid => t \in AsPaid
  BY DEF Leads, AsPaid
<1> QED
  BY <1>1 DEF ApprovalOK

LEMMA PaidStates ==
  /\ currentState \in AsPaid <=> state \in AsPaid
  /\ currentState = "CollateralCollection" <=> state = "CollateralCollection"
BY DEF currentState, AsPaid

LEMMA KnownForward ==
  ASSUME Known, Forward, UNCHANGED blockchainState
  PROVE  Known'
<1>1. Leads(blockchainState.loanState, currentState')
  BY LeadsOn DEF Known, Forward
<1>2. ASSUME blockchainState.loanState = "Payback"
      PROVE  blockchainState.paybackDeadline = paybackDeadline'
  <2>1. currentState \in AsPaid
    BY <1>2 DEF Known, Leads, AsPaid
  <2> QED
    BY <1>2, <2>1, PaidStates DEF Known, PaybackHasDeadline, Forward
<1> QED
  BY <1>1, <1>2 DEF Known, PaybackHasDeadline

-----------------------------------------------------------------------------
(* What the calls asked for only grows: a call keeps its method and amount. *)
Kept ==
    /\ call' \in [Calls -> CallState]
    /\ \A c \in Calls : call[c].at = "idle" \/ (call'[c].op = call[c].op /\ call'[c].amount = call[c].amount)

LEMMA CallsFinite == IsFiniteSet(Calls)
<1>1. 1 \in Int /\ MaxCalls \in Int
  BY ClientAssumption
<1> QED
  BY <1>1, FS_Interval DEF Calls

LEMMA AskedType ==
  ASSUME call \in [Calls -> CallState], NEW op
  PROVE  /\ amountsAsked(op) \in [Calls -> Nat] /\ Total(amountsAsked(op)) \in Nat
         /\ Granted(op) \in [Calls -> Nat] /\ Total(Granted(op)) \in Nat
         /\ Total(Granted(op)) <= Total(amountsAsked(op))
<1>1. \A c \in Calls : call[c].amount \in Nat
  BY DEF CallState, Uint
<1>2. amountsAsked(op) \in [Calls -> Nat] /\ Granted(op) \in [Calls -> Nat]
  BY <1>1 DEF amountsAsked, Granted
<1>3. \A c \in Calls : Granted(op)[c] <= amountsAsked(op)[c]
  BY <1>1 DEF amountsAsked, Granted
<1> QED
  BY <1>2, <1>3, CallsFinite, TotalType, TotalMonotone

LEMMA AskedTypeNext ==
  ASSUME call' \in [Calls -> CallState], NEW op
  PROVE  /\ amountsAsked(op)' \in [Calls -> Nat] /\ Total(amountsAsked(op)') \in Nat
         /\ Granted(op)' \in [Calls -> Nat] /\ Total(Granted(op)') \in Nat
<1>1. \A c \in Calls : call'[c].amount \in Nat
  BY DEF CallState, Uint
<1>2. amountsAsked(op)' \in [Calls -> Nat] /\ Granted(op)' \in [Calls -> Nat]
  BY <1>1 DEF amountsAsked, Granted
<1> QED
  BY <1>2, CallsFinite, TotalType

LEMMA IdleAsksNothing ==
  ASSUME ClientInv, NEW c \in Calls, call[c].at = "idle"
  PROVE  call[c].op = "none" /\ call[c] = NoCall /\ \A i \in DOMAIN pool : pool[i].call # c
<1>1. call[c] = NoCall
  BY DEF ClientInv, CallOK
<1>2. \A i \in DOMAIN pool : pool[i].call # c
  BY DEF ClientInv, Pooled, Waiting
<1> QED
  BY <1>1, <1>2 DEF NoCall

LEMMA AskedGrows ==
  ASSUME ClientInv, Kept, NEW op \in {"invest", "sendCollateral"}
  PROVE  /\ \A c \in Calls : amountsAsked(op)[c] = 0 \/ amountsAsked(op)'[c] = amountsAsked(op)[c]
         /\ Total(amountsAsked(op)) <= Total(amountsAsked(op)')
<1>1. call \in [Calls -> CallState] /\ call' \in [Calls -> CallState]
  BY DEF ClientInv, Kept
<1>2. \A c \in Calls : amountsAsked(op)[c] = 0 \/ amountsAsked(op)'[c] = amountsAsked(op)[c]
  BY IdleAsksNothing DEF Kept, amountsAsked
<1>3. /\ amountsAsked(op) \in [Calls -> Nat] /\ amountsAsked(op)' \in [Calls -> Nat]
  BY <1>1, AskedType, AskedTypeNext
<1>4. \A c \in Calls : amountsAsked(op)[c] <= amountsAsked(op)'[c]
  BY <1>2, <1>3
<1> QED
  BY <1>2, <1>3, <1>4, CallsFinite, TotalMonotone

(* No approval of a call that was made before comes on its way.             *)
NoneComes == \A c \in Calls : Approving(c)' => Approving(c) \/ call[c].at = "idle"

LEMMA GrantedGrows ==
  ASSUME ClientInv, Kept, NoneComes, NEW op \in {"invest", "sendCollateral"}
  PROVE  Total(Granted(op)) <= Total(Granted(op)')
<1>1. call \in [Calls -> CallState] /\ call' \in [Calls -> CallState]
  BY DEF ClientInv, Kept
<1>2. Granted(op) \in [Calls -> Nat] /\ Granted(op)' \in [Calls -> Nat]
  BY <1>1, AskedType, AskedTypeNext
<1>3. \A c \in Calls : Granted(op)[c] <= Granted(op)'[c]
  <2>1. SUFFICES ASSUME NEW c \in Calls PROVE Granted(op)[c] <= Granted(op)'[c]
    OBVIOUS
  <2>2. CASE call[c].at = "idle"
    <3>1. Granted(op)[c] = 0 /\ Granted(op)'[c] \in Nat
      BY <1>2, <2>2, IdleAsksNothing DEF Granted
    <3> QED
      BY <3>1
  <2>3. CASE call[c].at # "idle"
    <3>1. call'[c].op = call[c].op /\ call'[c].amount = call[c].amount /\ (Approving(c)' => Approving(c))
      BY <2>3 DEF Kept, NoneComes
    <3>2. Granted(op)[c] \in Nat /\ Granted(op)'[c] \in Nat
      BY <1>2
    <3>3. /\ Granted(op)[c] = IF call[c].op = op /\ ~Approving(c) THEN call[c].amount ELSE 0
          /\ Granted(op)'[c] = IF call'[c].op = op /\ ~Approving(c)' THEN call'[c].amount ELSE 0
      BY DEF Granted
    <3> QED
      BY <3>1, <3>2, <3>3
  <2> QED
    BY <2>2, <2>3
<1> QED
  BY <1>2, <1>3, CallsFinite, TotalMonotone

LEMMA InAll ==
  ASSUME ClientInv, Kept, UNCHANGED terms
  PROVE  /\ Asked \in Nat /\ Asked' \in Nat /\ Asked <= Asked'
         /\ GrantedInAll \in Nat /\ GrantedInAll' \in Nat /\ GrantedInAll <= Asked
         /\ NoneComes => GrantedInAll <= GrantedInAll'
         /\ CollateralAsked \subseteq CollateralAsked'
<1> DEFINE ops == {"invest", "sendCollateral"}
<1>1. call \in [Calls -> CallState] /\ call' \in [Calls -> CallState]
  BY DEF ClientInv, Kept
<1>2. \A op \in ops : /\ Total(amountsAsked(op)) \in Nat /\ Total(amountsAsked(op)') \in Nat
                      /\ Total(Granted(op)) \in Nat /\ Total(Granted(op)') \in Nat
                      /\ Total(Granted(op)) <= Total(amountsAsked(op))
  BY <1>1, AskedType, AskedTypeNext
<1>3. \A op \in ops : /\ Total(amountsAsked(op)) <= Total(amountsAsked(op)')
                      /\ NoneComes => Total(Granted(op)) <= Total(Granted(op)')
  BY AskedGrows, GrantedGrows
<1>4. Shared' = Shared
  BY DEF Shared
<1>5. /\ Asked = Both(Total(amountsAsked("invest")), Total(amountsAsked("sendCollateral")))
      /\ Asked' = Both(Total(amountsAsked("invest")'), Total(amountsAsked("sendCollateral")'))
      /\ GrantedInAll = Both(Total(Granted("invest")), Total(Granted("sendCollateral")))
      /\ GrantedInAll' = Both(Total(Granted("invest")'), Total(Granted("sendCollateral")'))
  BY <1>4 DEF Asked, GrantedInAll, Both
<1>6. \A x, y, u, v \in Nat : /\ Both(x, y) \in Nat
                              /\ x <= u /\ y <= v => Both(x, y) <= Both(u, v)
  BY DEF Both
<1>7. CollateralAsked \subseteq CollateralAsked'
  BY AskedGrows DEF CollateralAsked
<1> QED
  BY <1>2, <1>3, <1>5, <1>6, <1>7

LEMMA CoveredKept ==
  ASSUME ClientInv, IInv', Kept, NoneComes, UNCHANGED terms, TakesFromAllowance
  PROVE  Covered'
<1>1. /\ Asked \in Nat /\ Asked' \in Nat /\ Asked <= Asked'
      /\ GrantedInAll \in Nat /\ GrantedInAll' \in Nat /\ GrantedInAll <= Asked
      /\ GrantedInAll <= GrantedInAll' /\ CollateralAsked \subseteq CollateralAsked'
  BY InAll
<1>2. Taken \in Nat /\ allowance[LoanToken][me] \in Nat
  BY UsersTokens DEF ClientInv
<1>3. Taken' \in Nat /\ allowance'[LoanToken][me] \in Nat
  <2>1. TakenType'
    BY TakenTyped, PTL
  <2> QED
    BY <2>1, ClientAssumption DEF TakenType
<1>4. /\ state \notin AsPaid => Taken + allowance[LoanToken][me] <= GrantedInAll
      /\ Taken <= Asked
  BY DEF ClientInv, Covered
<1>5. state' \notin AsPaid => Taken' + allowance'[LoanToken][me] <= GrantedInAll'
  BY <1>1, <1>2, <1>3, <1>4 DEF TakesFromAllowance
<1>6. Taken' <= Asked'
  BY <1>1, <1>2, <1>3, <1>4 DEF TakesFromAllowance
<1>7. terms'.borrower = me =>
          /\ state' = "CollateralCollection" => allowance'[CollateralToken][me] \in CollateralAsked'
          /\ receivedCollateral' \in CollateralAsked'
  BY <1>1 DEF ClientInv, Covered, TakesFromAllowance
<1> QED
  BY <1>5, <1>6, <1>7 DEF Covered

-----------------------------------------------------------------------------
(* Steps of the client, which leave the chain alone.                        *)
LEMMA ClientFrame ==
  ASSUME ClientInv, UNCHANGED vars, Kept, NoneComes
  PROVE  IInv' /\ Covered' /\ currentState' = currentState /\ terms' = terms
<1>1. OthersMove /\ IInv
  BY DEF OthersMove, ClientInv
<1>2. IInv' /\ TakesFromAllowance
  BY <1>1, OthersMoveMoves, MovesInv, OthersTake
<1>3. currentState' = currentState /\ terms' = terms
  BY DEF currentState, vars, ledgerVars, deadlineVars
<1> QED
  BY <1>2, <1>3, CoveredKept

LEMMA CallsKept ==
  ASSUME ClientInv, NEW c \in Calls, NEW new, call' = [call EXCEPT ![c] = new],
         new \in CallState,
         call[c].at # "idle" => new.op = call[c].op /\ new.amount = call[c].amount
  PROVE  Kept
BY DEF Kept, ClientInv

LEMMA Entry ==
  ASSUME ClientInv, NEW i \in DOMAIN pool
  PROVE  /\ pool[i] \in [call : Calls, transaction : Transactions]
         /\ pool[i].call \in Calls /\ pool[i].transaction \in Transactions
         /\ call[pool[i].call].at \in Waiting \cup {"rejected"}
         /\ ApprovalOK(call[pool[i].call], pool[i].transaction, currentState, terms.borrower)
<1> DEFINE E == [call : Calls, transaction : Transactions]
<1>1. pool[i] \in E
  <2>1. pool \in Seq(E)
    BY DEF ClientInv, Pooled
  <2> HIDE DEF E
  <2> QED
    BY <2>1
<1>2. pool[i].call \in Calls /\ pool[i].transaction \in Transactions
  BY <1>1
<1> QED
  BY <1>1, <1>2 DEF ClientInv, Pooled

LEMMA Settles ==
  ASSUME ClientInv, UNCHANGED <<vars, pool>>, Known', NEW c \in Calls, NEW new,
         call' = [call EXCEPT ![c] = new], CallOK(new, currentState),
         call[c].at # "idle" => new.op = call[c].op /\ new.amount = call[c].amount,
         new.at \notin Waiting,
         new.at = "rejected" \/ \A i \in DOMAIN pool : pool[i].call # c
  PROVE  ClientInv'
<1>1. Kept
  BY CallsKept DEF CallOK
<1>2. NoneComes
  BY DEF NoneComes, Approving
<1>3. IInv' /\ Covered' /\ currentState' = currentState /\ terms' = terms
  BY <1>1, <1>2, ClientFrame
<1>4. /\ call'[c] = new /\ \A d \in Calls \ {c} : call'[d] = call[d]
  BY DEF ClientInv
<1>5. \A d \in Calls : CallOK(call'[d], currentState')
  BY <1>3, <1>4 DEF ClientInv
<1>6. Pooled'
  <2>1. /\ pool' \in Seq([call : Calls, transaction : Transactions])
        /\ \A i, j \in DOMAIN pool : pool[i].call = pool[j].call => i = j
    BY DEF ClientInv, Pooled
  <2>2. ASSUME NEW i \in DOMAIN pool
        PROVE  /\ call'[pool[i].call].at \in Waiting \cup {"rejected"}
               /\ ApprovalOK(call'[pool[i].call], pool[i].transaction, currentState', terms'.borrower)
    <3>1. /\ pool[i].call \in Calls /\ call[pool[i].call].at \in Waiting \cup {"rejected"}
          /\ ApprovalOK(call[pool[i].call], pool[i].transaction, currentState, terms.borrower)
      BY Entry
    <3>2. CASE pool[i].call # c
      BY <1>3, <1>4, <3>1, <3>2
    <3>3. CASE pool[i].call = c
      <4>1. new.at = "rejected" /\ new.op = call[c].op /\ new.amount = call[c].amount
        BY <3>1, <3>3 DEF Waiting
      <4> QED
        BY <1>3, <1>4, <3>1, <3>3, <4>1 DEF ApprovalOK
    <3> QED
      BY <3>2, <3>3
  <2>3. ASSUME NEW d \in Calls, call'[d].at \in Waiting
        PROVE  call'[d].mined <=> \A i \in DOMAIN pool : pool[i].call # d
    <3>1. d # c
      BY <1>4, <2>3
    <3> QED
      BY <1>4, <2>3, <3>1 DEF ClientInv, Pooled
  <2> QED
    BY <2>1, <2>2, <2>3 DEF Pooled
<1> QED
  BY <1>1, <1>3, <1>5, <1>6 DEF ClientInv, Kept

LEMMA Sends ==
  ASSUME ClientInv, UNCHANGED vars, Known', NEW c \in Calls, NEW new, NEW t \in Transactions,
         call' = [call EXCEPT ![c] = new], pool' = Append(pool, [call |-> c, transaction |-> t]),
         CallOK(new, currentState),
         call[c].at # "idle" => new.op = call[c].op /\ new.amount = call[c].amount,
         new.at \in Waiting, new.mined = FALSE,
         \A i \in DOMAIN pool : pool[i].call # c,
         ApprovalOK(new, t, currentState, terms.borrower),
         t.method = "approve" => call[c].at = "idle"
  PROVE  ClientInv'
<1> DEFINE entry == [call |-> c, transaction |-> t]
           n == Len(pool) + 1
<1>1. Kept
  BY CallsKept DEF CallOK
<1>2. /\ pool \in Seq([call : Calls, transaction : Transactions])
      /\ entry \in [call : Calls, transaction : Transactions]
  BY DEF ClientInv, Pooled
<1>3. /\ pool' \in Seq([call : Calls, transaction : Transactions])
      /\ DOMAIN pool = 1 .. Len(pool) /\ DOMAIN pool' = 1 .. n /\ Len(pool) \in Nat
      /\ pool'[n] = entry /\ \A i \in DOMAIN pool : pool'[i] = pool[i]
  BY <1>2
<1>4. \A i \in DOMAIN pool' : i \in DOMAIN pool \/ i = n
  BY <1>3
<1> HIDE DEF n, entry
<1>5. NoneComes
  BY <1>3, <1>4 DEF NoneComes, Approving, entry
<1>6. IInv' /\ Covered' /\ currentState' = currentState /\ terms' = terms
  BY <1>1, <1>5, ClientFrame
<1>7. /\ call'[c] = new /\ \A d \in Calls \ {c} : call'[d] = call[d]
  BY DEF ClientInv
<1>8. \A d \in Calls : CallOK(call'[d], currentState')
  BY <1>6, <1>7 DEF ClientInv
<1>9. Pooled'
  <2>1. \A i, j \in DOMAIN pool' : pool'[i].call = pool'[j].call => i = j
    <3>1. \A i, j \in DOMAIN pool : pool[i].call = pool[j].call => i = j
      BY DEF ClientInv, Pooled
    <3> QED
      BY <1>3, <1>4, <3>1 DEF entry
  <2>2. ASSUME NEW i \in DOMAIN pool'
        PROVE  /\ call'[pool'[i].call].at \in Waiting \cup {"rejected"}
               /\ ApprovalOK(call'[pool'[i].call], pool'[i].transaction, currentState', terms'.borrower)
    <3>1. CASE i = n
      <4>1. pool'[i].call = c /\ pool'[i].transaction = t
        BY <1>3, <3>1 DEF entry
      <4> QED
        BY <1>6, <1>7, <4>1
    <3>2. CASE i \in DOMAIN pool
      <4>1. /\ pool[i].call \in Calls \ {c} /\ call[pool[i].call].at \in Waiting \cup {"rejected"}
            /\ ApprovalOK(call[pool[i].call], pool[i].transaction, currentState, terms.borrower)
        BY <3>2, Entry
      <4> QED
        BY <1>3, <1>6, <1>7, <3>2, <4>1
    <3> QED
      BY <1>4, <3>1, <3>2
  <2>3. ASSUME NEW d \in Calls, call'[d].at \in Waiting
        PROVE  call'[d].mined <=> \A i \in DOMAIN pool' : pool'[i].call # d
    <3>1. CASE d = c
      <4>1. n \in DOMAIN pool' /\ pool'[n].call = c
        BY <1>3 DEF n, entry
      <4> QED
        BY <1>7, <3>1, <4>1
    <3>2. CASE d # c
      <4>1. call[d].mined <=> \A i \in DOMAIN pool : pool[i].call # d
        BY <1>7, <2>3, <3>2 DEF ClientInv, Pooled
      <4>2. pool'[n].call # d /\ n \in DOMAIN pool' /\ DOMAIN pool \subseteq DOMAIN pool'
        BY <1>3, <3>2 DEF n, entry
      <4>3. (\A i \in DOMAIN pool : pool[i].call # d) <=> (\A i \in DOMAIN pool' : pool'[i].call # d)
        BY <1>3, <1>4, <4>2
      <4> QED
        BY <1>7, <3>2, <4>1, <4>3
    <3> QED
      BY <3>1, <3>2
  <2> QED
    BY <1>3, <2>1, <2>2, <2>3 DEF Pooled
<1> QED
  BY <1>1, <1>6, <1>8, <1>9 DEF ClientInv, Kept

-----------------------------------------------------------------------------
(* One lemma for each step of a call.                                       *)
LEMMA Fresh == Unread \in Snapshot /\ DOMAIN Unread = FieldNames /\ NoCall \in CallState
<1>1. Unread \in Snapshot /\ DOMAIN Unread = FieldNames
  BY DEF Unread, Snapshot, FieldNames
<1>2. 0 \in Uint(Word)
  BY WidthAssumption DEF Uint
<1> QED
  BY <1>1, <1>2 DEF NoCall, CallState, Methods, Places

LEMMA Resets ==
  ASSUME NEW x \in CallState, NEW at \in Places
  PROVE  LET y == [x EXCEPT !.at = at, !.mined = FALSE, !.reads = 0, !.seen = Unread]
         IN /\ y \in CallState /\ y.at = at /\ y.mined = FALSE /\ y.reads = 0
            /\ y.op = x.op /\ y.amount = x.amount /\ y.reasons = x.reasons
<1> DEFINE y == [x EXCEPT !.at = at, !.mined = FALSE, !.reads = 0, !.seen = Unread]
<1>1. Unread \in Snapshot /\ FALSE \in BOOLEAN
  BY Fresh
<1>2. y.at = at /\ y.mined = FALSE /\ y.reads = 0
      /\ y.op = x.op /\ y.amount = x.amount /\ y.reasons = x.reasons
  BY DEF CallState
<1>3. y \in CallState
  <2> DEFINE z == [x EXCEPT !.at = at, !.mined = FALSE]
             v == [z EXCEPT !.reads = 0]
             w == [v EXCEPT !.seen = Unread]
  <2>1. z \in CallState
    BY DEF CallState
  <2> HIDE DEF z
  <2>2. v \in CallState
    BY <2>1 DEF CallState
  <2> HIDE DEF v
  <2>3. w \in CallState
    BY <1>1, <2>2 DEF CallState
  <2>4. y = w
    BY DEF z, v, CallState
  <2> QED
    BY <2>3, <2>4
<1> QED
  BY <1>2, <1>3

LEMMA KnownStays == Known /\ UNCHANGED <<vars, blockchainState>> => Known'
BY DEF Known, PaybackHasDeadline, currentState, vars, ledgerVars, deadlineVars

(* Sending: the call waits for its transaction, or is rejected.             *)
LEMMA Mutates ==
  ASSUME ClientInv, UNCHANGED vars, Known', NEW c \in Calls, NEW x \in CallState, NEW t \in Transactions,
         NEW at \in Waiting, mutate(c, x, t, at),
         at \in {"approving", "executing"} => x.op \in DOMAIN methodCalled,
         at = "withdrawing" => x.op = "withdrawAll",
         \A r \in x.reasons : r # "Unknown" => Outcome(r) = currentState,
         call[c].at # "idle" => x.op = call[c].op /\ x.amount = call[c].amount,
         \A i \in DOMAIN pool : pool[i].call # c,
         ApprovalOK(x, t, currentState, terms.borrower),
         t.method = "approve" => call[c].at = "idle"
  PROVE  ClientInv'
<1>1. CASE /\ pool' = Append(pool, [call |-> c, transaction |-> t])
           /\ call' = [call EXCEPT ![c] = [x EXCEPT !.at = at, !.mined = FALSE, !.reads = 0, !.seen = Unread]]
  <2> DEFINE new == [x EXCEPT !.at = at, !.mined = FALSE, !.reads = 0, !.seen = Unread]
  <2>1. /\ new \in CallState /\ new.at = at /\ new.mined = FALSE /\ new.reads = 0
        /\ new.op = x.op /\ new.amount = x.amount /\ new.reasons = x.reasons
    BY Resets DEF Places
  <2>2. call' = [call EXCEPT ![c] = new]
    BY <1>1
  <2> HIDE DEF new
  <2>3. CallOK(new, currentState)
    BY <2>1 DEF CallOK, Waiting
  <2>4. ApprovalOK(new, t, currentState, terms.borrower)
    BY <2>1 DEF ApprovalOK
  <2> QED
    BY <1>1, <2>1, <2>2, <2>3, <2>4, Sends
<1>2. CASE /\ UNCHANGED pool
           /\ call' = [call EXCEPT ![c] = [x EXCEPT !.at = "rejected", !.mined = FALSE, !.reads = 0, !.seen = Unread]]
  <2> DEFINE new == [x EXCEPT !.at = "rejected", !.mined = FALSE, !.reads = 0, !.seen = Unread]
  <2>1. /\ new \in CallState /\ new.at = "rejected" /\ new.mined = FALSE /\ new.reads = 0
        /\ new.op = x.op /\ new.amount = x.amount /\ new.reasons = x.reasons
    BY Resets DEF Places, Settled
  <2>2. call' = [call EXCEPT ![c] = new]
    BY <1>2
  <2> HIDE DEF new
  <2>3. CallOK(new, currentState)
    BY <2>1 DEF CallOK
  <2>4. new.at \notin Waiting
    BY <2>1 DEF Waiting
  <2> QED
    BY <1>2, <2>1, <2>2, <2>3, <2>4, Settles
<1> QED
  BY <1>1, <1>2 DEF mutate, set

(* A call that is not waiting for a receipt has nothing in the pool.        *)
LEMMA NothingSent ==
  ASSUME ClientInv, NEW c \in Calls, call[c].at \notin Waiting \cup {"rejected"} \/ (call[c].at \in Waiting /\ call[c].mined)
  PROVE  \A i \in DOMAIN pool : pool[i].call # c
BY Entry DEF ClientInv, Pooled

LEMMA WaitStep ==
  ASSUME ClientInv, NEW c \in Calls, waitTxMined(c)
  PROVE  ClientInv'
<1> DEFINE at == CASE call[c].at = "approving" -> "updating"
                   [] call[c].at = "executing" -> "confirming"
                   [] call[c].at = "withdrawing" -> "looking"
           new == [call[c] EXCEPT !.mined = FALSE, !.at = at]
<1>1. /\ call[c].at \in {"approving", "executing", "withdrawing"} /\ call[c].mined
      /\ call' = [call EXCEPT ![c] = new] /\ UNCHANGED <<vars, blockchainState, pool>>
  BY DEF waitTxMined, set, Waiting
<1>2. /\ call[c].at = "approving" => at = "updating"
      /\ call[c].at = "executing" => at = "confirming"
      /\ call[c].at = "withdrawing" => at = "looking"
  OBVIOUS
<1>3. call[c] \in CallState /\ CallOK(call[c], currentState)
  BY DEF ClientInv
<1> HIDE DEF at
<1>4. at \in Places /\ at \notin Waiting /\ at # "idle"
  BY <1>1, <1>2 DEF Places, Waiting
<1>5. /\ new \in CallState /\ new.at = at /\ new.reads = call[c].reads /\ new.seen = call[c].seen
      /\ new.op = call[c].op /\ new.amount = call[c].amount /\ new.reasons = call[c].reasons
  BY <1>3, <1>4 DEF CallState
<1> HIDE DEF new
<1>6. CallOK(new, currentState)
  BY <1>1, <1>2, <1>3, <1>4, <1>5 DEF CallOK
<1>7. \A i \in DOMAIN pool : pool[i].call # c
  BY <1>1, NothingSent DEF Waiting
<1>8. Known'
  BY <1>1, KnownStays DEF ClientInv
<1> QED
  BY <1>1, <1>4, <1>5, <1>6, <1>7, <1>8, Settles

(* A call that is over keeps what it was asked and what it said.            *)
LEMMA SettleState ==
  ASSUME NEW x, NEW s, CallOK(x, s), NEW at \in Settled
  PROVE  LET y == [NoCall EXCEPT !.op = x.op, !.amount = x.amount, !.reasons = x.reasons, !.at = at]
         IN CallOK(y, s) /\ y.op = x.op /\ y.amount = x.amount /\ y.at = at
<1> DEFINE y == [NoCall EXCEPT !.op = x.op, !.amount = x.amount, !.reasons = x.reasons, !.at = at]
<1>1. x.op \in Methods /\ x.amount \in Uint(Word) /\ x.reasons \in SUBSET Reasons
  BY DEF CallOK, CallState
<1>2. at \in Places /\ at \notin {"idle", "approving", "updating", "executing", "withdrawing", "looking"}
  BY DEF Places, Settled
<1>3. /\ y \in CallState /\ y.op = x.op /\ y.amount = x.amount /\ y.reasons = x.reasons /\ y.at = at
      /\ y.reads = 0
  <2>1. NoCall \in CallState /\ NoCall.reads = 0
    BY Fresh DEF NoCall
  <2> QED
    BY <1>1, <1>2, <2>1 DEF CallState
<1> HIDE DEF y
<1>4. CallOK(y, s)
  BY <1>2, <1>3 DEF CallOK
<1> QED
  BY <1>3, <1>4 DEF y

LEMMA TimeoutStep ==
  ASSUME ClientInv, NEW c \in Calls, timeout(c)
  PROVE  ClientInv'
<1> DEFINE new == [NoCall EXCEPT !.op = call[c].op, !.amount = call[c].amount,
                                 !.reasons = call[c].reasons, !.at = "rejected"]
<1>1. call' = [call EXCEPT ![c] = new] /\ UNCHANGED <<vars, blockchainState, pool>>
  BY DEF timeout, settle, set
<1>2. CallOK(call[c], currentState)
  BY DEF ClientInv
<1>3. CallOK(new, currentState) /\ new.op = call[c].op /\ new.amount = call[c].amount /\ new.at = "rejected"
  BY <1>2, SettleState DEF Settled
<1> HIDE DEF new
<1>4. Known'
  BY <1>1, KnownStays DEF ClientInv
<1> QED
  BY <1>1, <1>3, <1>4, Settles DEF Waiting

LEMMA BeginStep ==
  ASSUME ClientInv, NEW c \in Calls, NEW op \in DOMAIN methodCalled, NEW amount \in Amounts, begin(c, op, amount)
  PROVE  ClientInv'
<1> DEFINE started == [call[c] EXCEPT !.op = op, !.amount = amount]
           token == IF op = "sendCollateral" THEN CollateralToken ELSE LoanToken
           t == Approval(token, amountApproved(op, amount))
<1>1. /\ call[c].at = "idle" /\ UNCHANGED <<vars, blockchainState>>
      /\ op \in {"sendCollateral", "invest", "payback"} /\ amount \in Uint(Word)
  BY ClientAssumption DEF begin, methodCalled
<1>2. call[c] = NoCall /\ NoCall \in CallState /\ \A i \in DOMAIN pool : pool[i].call # c
  BY <1>1, IdleAsksNothing, Fresh
<1>3. /\ started \in CallState /\ started.op = op /\ started.amount = amount
      /\ started.reasons = {} /\ started.reads = 0
  <2>1. op \in Methods
    BY <1>1 DEF Methods
  <2>2. NoCall.reasons = {} /\ NoCall.reads = 0
    BY DEF NoCall
  <2>3. /\ started.op = op /\ started.amount = amount
        /\ started.reasons = NoCall.reasons /\ started.reads = NoCall.reads
    BY <1>2 DEF CallState
  <2>4. started \in CallState
    BY <1>1, <1>2, <2>1 DEF CallState
  <2> QED
    BY <2>2, <2>3, <2>4
<1>4. Known'
  BY <1>1, KnownStays DEF ClientInv
<1> HIDE DEF started
<1>5. CASE set(c, [started EXCEPT !.at = "rejected"]) /\ UNCHANGED pool
  <2> DEFINE new == [started EXCEPT !.at = "rejected"]
  <2>1. /\ new \in CallState /\ new.at = "rejected" /\ new.reads = 0 /\ new.reasons = {}
    BY <1>3 DEF CallState, Places, Settled
  <2>2. call' = [call EXCEPT ![c] = new]
    BY <1>5 DEF set
  <2> HIDE DEF new
  <2>3. CallOK(new, currentState) /\ new.at \notin Waiting
    BY <2>1 DEF CallOK, Waiting
  <2> QED
    BY <1>1, <1>4, <1>5, <2>1, <2>2, <2>3, Settles
<1>6. CASE /\ mutate(c, started, t, "approving") /\ blockchainState.loanState = stateRequired[op]
           /\ op = "sendCollateral" => me = terms.borrower
  <2>1. token \in Tokens /\ amountApproved(op, amount) \in Uint(Word)
    BY <1>1, UsersTokens, PaybackType DEF ClientInv, IInv, amountApproved
  <2>2. /\ t \in Transactions /\ t.method = "approve" /\ t.token = token
        /\ t.value = amountApproved(op, amount)
    BY <2>1 DEF Transactions, Approval
  <2>3. /\ op = "invest" => currentState # "CollateralCollection"
        /\ op = "payback" => currentState \in AsPaid
    BY <1>6 DEF ClientInv, Known, Leads, stateRequired, AsPaid
  <2> HIDE DEF t
  <2>4. ApprovalOK(started, t, currentState, terms.borrower)
    <3>1. op # "payback" => amountApproved(op, amount) = amount
      BY DEF amountApproved
    <3> QED
      BY <1>3, <1>6, <2>2, <2>3, <3>1 DEF ApprovalOK
  <2>5. "approving" \in Waiting
    BY DEF Waiting
  <2> QED
    BY <1>1, <1>2, <1>3, <1>4, <1>6, <2>2, <2>4, <2>5, Mutates
<1> QED
  BY <1>5, <1>6 DEF begin, started, t

LEMMA UpdateStep ==
  ASSUME ClientInv, NEW c \in Calls, update(c)
  PROVE  ClientInv'
<1> DEFINE new == [call[c] EXCEPT !.op = "update", !.at = "confirming"]
<1>1. /\ call[c].at = "idle" /\ call' = [call EXCEPT ![c] = new]
      /\ UNCHANGED <<vars, blockchainState, pool>>
  BY DEF update, set
<1>2. call[c] = NoCall /\ NoCall \in CallState /\ \A i \in DOMAIN pool : pool[i].call # c
  BY <1>1, IdleAsksNothing, Fresh
<1>3. new \in CallState /\ new.at = "confirming" /\ new.reads = 0 /\ new.reasons = {}
  <2>1. "confirming" \in Places /\ "update" \in Methods
    BY DEF Places, Methods
  <2>2. new \in CallState
    BY <1>2, <2>1 DEF CallState
  <2>3. new.at = "confirming" /\ new.reads = NoCall.reads /\ new.reasons = NoCall.reasons
    BY <1>2 DEF CallState
  <2> QED
    BY <2>2, <2>3 DEF NoCall
<1> HIDE DEF new
<1>4. CallOK(new, currentState) /\ new.at \notin Waiting
  BY <1>3 DEF CallOK, Waiting
<1>5. Known'
  BY <1>1, KnownStays DEF ClientInv
<1> QED
  BY <1>1, <1>2, <1>4, <1>5, Settles

LEMMA AmountsType ==
  ASSUME ClientInv
  PROVE  withdrawableAmounts \in Uint(Word) \X Uint(Word)
BY UsersTokens, Withdrawal DEF ClientInv, withdrawableAmounts

LEMMA AskStep ==
  ASSUME ClientInv, NEW c \in Calls, possibleWithdrawals(c)
  PROVE  ClientInv'
<1> DEFINE new == [call[c] EXCEPT !.op = "possibleWithdrawals", !.at = "asked", !.amounts = withdrawableAmounts]
<1>1. /\ call[c].at = "idle" /\ call' = [call EXCEPT ![c] = new]
      /\ UNCHANGED <<vars, blockchainState, pool>>
  BY DEF possibleWithdrawals, set
<1>2. call[c] = NoCall /\ NoCall \in CallState /\ \A i \in DOMAIN pool : pool[i].call # c
  BY <1>1, IdleAsksNothing, Fresh
<1>3. new \in CallState /\ new.at = "asked" /\ new.reads = 0 /\ new.reasons = {}
  <2>1. "asked" \in Places /\ "possibleWithdrawals" \in Methods
    BY DEF Places, Methods
  <2>2. new \in CallState
    BY <1>2, <2>1, AmountsType DEF CallState
  <2>3. new.at = "asked" /\ new.reads = NoCall.reads /\ new.reasons = NoCall.reasons
    BY <1>2 DEF CallState
  <2> QED
    BY <2>2, <2>3 DEF NoCall
<1> HIDE DEF new
<1>4. CallOK(new, currentState) /\ new.at \notin Waiting
  BY <1>3 DEF CallOK, Waiting
<1>5. Known'
  BY <1>1, KnownStays DEF ClientInv
<1> QED
  BY <1>1, <1>2, <1>4, <1>5, Settles

LEMMA WithdrawAllStep ==
  ASSUME ClientInv, NEW c \in Calls, withdrawAll(c)
  PROVE  ClientInv'
<1> DEFINE started == [call[c] EXCEPT !.op = "withdrawAll"]
           asking == [started EXCEPT !.amounts = withdrawableAmounts]
           over == [started EXCEPT !.at = "resolved"]
<1>1. call[c].at \in {"idle", "looking"} /\ UNCHANGED <<vars, blockchainState>>
  BY DEF withdrawAll
<1>2. /\ call[c] \in CallState /\ CallOK(call[c], currentState)
      /\ call[c].at = "looking" => call[c].op = "withdrawAll"
      /\ \A i \in DOMAIN pool : pool[i].call # c
  BY <1>1, NothingSent DEF ClientInv, CallOK, Waiting
<1>3. /\ started \in CallState /\ started.op = "withdrawAll" /\ started.amount = call[c].amount
      /\ started.reasons = call[c].reasons /\ started.reads = call[c].reads /\ started.seen = call[c].seen
  BY <1>2 DEF CallState, Methods
<1>4. Known'
  BY <1>1, KnownStays DEF ClientInv
<1> HIDE DEF started
<1>5. CASE set(c, over) /\ UNCHANGED pool
  <2>1. /\ over \in CallState /\ over.at = "resolved" /\ over.op = "withdrawAll"
        /\ over.amount = started.amount /\ over.reasons = started.reasons /\ over.reads = started.reads
        /\ over.seen = started.seen
    BY <1>3 DEF CallState, Places, Settled
  <2>2. call' = [call EXCEPT ![c] = over]
    BY <1>5 DEF set
  <2> HIDE DEF over
  <2>3. CallOK(over, currentState) /\ over.at \notin Waiting
    BY <1>2, <1>3, <2>1 DEF CallOK, Waiting
  <2> QED
    BY <1>1, <1>2, <1>3, <1>4, <1>5, <2>1, <2>2, <2>3, Settles
<1>6. CASE mutate(c, asking, Sent("withdraw"), "withdrawing")
  <2>1. /\ asking \in CallState /\ asking.op = "withdrawAll" /\ asking.amount = started.amount
        /\ asking.reasons = started.reasons
    BY <1>3, AmountsType DEF CallState
  <2>2. Sent("withdraw") \in Transactions /\ Sent("withdraw").method # "approve"
    BY DEF Transactions, Sent
  <2>3. \A r \in asking.reasons : r # "Unknown" => Outcome(r) = currentState
    BY <1>2, <1>3, <2>1 DEF CallOK
  <2> HIDE DEF asking
  <2>4. ApprovalOK(asking, Sent("withdraw"), currentState, terms.borrower) /\ "withdrawing" \in Waiting
    BY <2>2 DEF ApprovalOK, Waiting
  <2> QED
    BY <1>1, <1>2, <1>3, <1>4, <1>6, <2>1, <2>2, <2>3, <2>4, Mutates
<1> QED
  BY <1>5, <1>6 DEF withdrawAll, started

LEMMA ReportStep ==
  ASSUME ClientInv, NEW c \in Calls, report(c)
  PROVE  ClientInv'
<1> DEFINE new == [call[c] EXCEPT !.at = "resolved", !.reasons = reasonsGiven(c)]
           known == blockchainState.loanState
<1>1. /\ call[c].at = "asked" /\ call' = [call EXCEPT ![c] = new]
      /\ UNCHANGED <<vars, blockchainState, pool>>
  BY DEF report, set
<1>2. /\ call[c] \in CallState /\ CallOK(call[c], currentState)
      /\ \A i \in DOMAIN pool : pool[i].call # c
  BY <1>1, NothingSent DEF ClientInv, Waiting
<1>3. /\ reasonsGiven(c) \subseteq {loanReason(known), collateralReason(known)}
      /\ reasonsGiven(c) \in SUBSET Reasons
  BY DEF reasonsGiven, loanReason, collateralReason, Reasons
<1>4. \A r \in reasonsGiven(c) : r # "Unknown" => Outcome(r) = currentState
  <2>1. known \in {"Paidback", "Canceled", "Defaulted"} => currentState = known
    BY DEF ClientInv, Known, Leads, AsPaid
  <2>2. \A r \in {loanReason(known), collateralReason(known)} :
           r # "Unknown" => Outcome(r) = known /\ known \in {"Paidback", "Canceled", "Defaulted"}
    BY DEF loanReason, collateralReason, Outcome
  <2> QED
    BY <1>3, <2>1, <2>2
<1>5. /\ new.at = "resolved" /\ new.op = call[c].op /\ new.amount = call[c].amount
      /\ new.reads = call[c].reads /\ new.seen = call[c].seen /\ new.reasons = reasonsGiven(c)
  BY <1>2 DEF CallState
<1>6. new \in CallState
  <2>1. "resolved" \in Places
    BY DEF Places, Settled
  <2> QED
    BY <1>2, <1>3, <2>1 DEF CallState
<1> HIDE DEF new
<1>7. CallOK(new, currentState) /\ new.at \notin Waiting
  BY <1>2, <1>4, <1>5, <1>6 DEF CallOK, Waiting
<1>8. Known'
  BY <1>1, KnownStays DEF ClientInv
<1> QED
  BY <1>1, <1>2, <1>5, <1>7, <1>8, Settles

LEMMA Reading ==
  /\ DOMAIN Fields = 1 .. 5 /\ Len(Fields) = 5
  /\ Fields[4] = "loanState" /\ Fields[5] = "paybackDeadline"
  /\ \A n \in 1 .. 5 : Fields[n] \in FieldNames
  /\ "loanState" \in FieldNames /\ "paybackDeadline" \in FieldNames
<1>1. /\ DOMAIN Fields = 1 .. 5 /\ Len(Fields) = 5
      /\ Fields[4] = "loanState" /\ Fields[5] = "paybackDeadline"
  BY DEF Fields
<1> QED
  BY <1>1 DEF FieldNames

LEMMA Chain ==
  ASSUME IInv
  PROVE  /\ onChain \in Snapshot /\ onChain["loanState"] = currentState /\ currentState \in States
         /\ onChain["paybackDeadline"] = paybackDeadline
<1>1. onChain["loanState"] = currentState /\ onChain["paybackDeadline"] = paybackDeadline
  BY DEF onChain
<1>2. currentState \in States
  BY CurrentStates DEF IInv
<1>3. FieldNames = {"amountInvested", "collateralReceived", "fundraisingDeadline", "loanState", "paybackDeadline"}
  <2>1. DOMAIN Fields = 1 .. 5
    BY Reading
  <2> QED
    BY <2>1 DEF FieldNames, Fields
<1>4. onChain \in Snapshot
  BY <1>2, <1>3, Numbers DEF onChain, Snapshot
<1> QED
  BY <1>1, <1>2, <1>4

LEMMA ReadStep ==
  ASSUME ClientInv, NEW c \in Calls, updateStateFromBlockchain(c)
  PROVE  ClientInv'
<1> DEFINE n == call[c].reads + 1
           seen == [call[c].seen EXCEPT ![Fields[n]] = onChain[Fields[n]]]
           read == [call[c] EXCEPT !.reads = n, !.seen = seen]
<1>1. /\ call[c].at \in {"updating", "confirming"} /\ UNCHANGED vars
      /\ \/ n < 5 /\ set(c, read) /\ UNCHANGED <<blockchainState, pool>>
         \/ /\ n = 5 /\ blockchainState' = seen
            /\ \/ /\ call[c].at = "updating"
                  /\ mutate(c, read, Sent(methodCalled[read.op]), "executing")
               \/ call[c].at = "confirming" /\ settle(c, "resolved") /\ UNCHANGED pool
  BY Reading DEF updateStateFromBlockchain
<1>2. /\ call[c] \in CallState /\ CallOK(call[c], currentState) /\ IInv
      /\ \A i \in DOMAIN pool : pool[i].call # c
  BY <1>1, NothingSent DEF ClientInv, Waiting
<1>3. n \in 1 .. 5 /\ call[c].seen \in Snapshot
  BY <1>2 DEF CallState
<1> HIDE DEF n
<1>4. seen \in Snapshot
  BY <1>2, <1>3, Chain, Reading DEF Snapshot
<1>5. /\ n = 4 => seen["loanState"] = currentState
      /\ n = 5 => /\ seen["loanState"] = call[c].seen["loanState"]
                  /\ seen["paybackDeadline"] = paybackDeadline
  BY <1>2, <1>3, Chain, Reading DEF Snapshot
<1> HIDE DEF seen
<1>6. CASE n < 5 /\ set(c, read) /\ UNCHANGED <<blockchainState, pool>>
  <2>1. /\ read.at = call[c].at /\ read.op = call[c].op /\ read.amount = call[c].amount
        /\ read.reads = n /\ read.seen = seen /\ read.reasons = call[c].reasons
    BY <1>2 DEF CallState
  <2>2. read \in CallState
    <3> DEFINE z == [call[c] EXCEPT !.reads = n]
               w == [z EXCEPT !.seen = seen]
    <3>1. z \in CallState
      BY <1>2, <1>3, <1>6 DEF CallState
    <3> HIDE DEF z
    <3>2. w \in CallState
      BY <1>4, <3>1 DEF CallState
    <3>3. read = w
      BY <1>2 DEF z, CallState
    <3> QED
      BY <3>2, <3>3
  <2>3. call' = [call EXCEPT ![c] = read]
    BY <1>6 DEF set
  <2> HIDE DEF read
  <2>4. CallOK(read, currentState)
    <3>1. read.reads = 4 => read.seen["loanState"] \in States /\ Leads(read.seen["loanState"], currentState)
      BY <1>2, <1>5, <2>1, Chain DEF Leads
    <3> QED
      BY <1>1, <1>2, <2>1, <2>2, <3>1 DEF CallOK
  <2>5. Known' /\ read.at \notin Waiting
    BY <1>1, <1>6, <2>1, KnownStays DEF ClientInv, Waiting
  <2> QED
    BY <1>1, <1>2, <1>6, <2>1, <2>3, <2>4, <2>5, Settles
<1>7. ASSUME n = 5, blockchainState' = seen PROVE Known'
  <2>1. call[c].reads = 4
    BY <1>2, <1>7 DEF n, CallState
  <2>2. /\ seen["loanState"] \in States /\ Leads(seen["loanState"], currentState)
        /\ seen["paybackDeadline"] = paybackDeadline
    BY <1>2, <1>5, <1>7, <2>1 DEF CallOK
  <2>3. currentState' = currentState /\ paybackDeadline' = paybackDeadline
    BY <1>1 DEF currentState, vars, ledgerVars, deadlineVars
  <2> QED
    BY <1>7, <2>2, <2>3 DEF Known, PaybackHasDeadline
<1>8. CASE /\ n = 5 /\ blockchainState' = seen /\ call[c].at = "updating"
           /\ mutate(c, read, Sent(methodCalled[read.op]), "executing")
  <2>1. call[c].op \in DOMAIN methodCalled
    BY <1>2, <1>8 DEF CallOK
  <2>2. read.op = call[c].op
    BY <1>2 DEF CallState
  <2> DEFINE t == Sent(methodCalled[call[c].op])
  <2>3. t \in Transactions /\ t.method # "approve"
    BY <2>1 DEF methodCalled, Transactions, Sent
  <2>4. \A at : [read EXCEPT !.at = at, !.mined = FALSE, !.reads = 0, !.seen = Unread] =
                [call[c] EXCEPT !.at = at, !.mined = FALSE, !.reads = 0, !.seen = Unread]
    BY <1>2 DEF CallState
  <2>5. mutate(c, call[c], t, "executing")
    BY <1>8, <2>2, <2>4 DEF mutate
  <2> HIDE DEF read, t
  <2>6. ApprovalOK(call[c], t, currentState, terms.borrower) /\ "executing" \in Waiting
    BY <2>3 DEF ApprovalOK, Waiting
  <2>7. \A r \in call[c].reasons : r # "Unknown" => Outcome(r) = currentState
    BY <1>2 DEF CallOK
  <2> QED
    BY <1>1, <1>2, <1>7, <1>8, <2>1, <2>3, <2>5, <2>6, <2>7, Mutates
<1>9. CASE n = 5 /\ blockchainState' = seen /\ settle(c, "resolved") /\ UNCHANGED pool
  <2> DEFINE new == [NoCall EXCEPT !.op = call[c].op, !.amount = call[c].amount,
                                   !.reasons = call[c].reasons, !.at = "resolved"]
  <2>1. CallOK(new, currentState) /\ new.op = call[c].op /\ new.amount = call[c].amount /\ new.at = "resolved"
    BY <1>2, SettleState DEF Settled
  <2>2. call' = [call EXCEPT ![c] = new]
    BY <1>9 DEF settle, set
  <2> HIDE DEF new
  <2> QED
    BY <1>1, <1>2, <1>7, <1>9, <2>1, <2>2, Settles DEF Waiting
<1> QED
  BY <1>1, <1>6, <1>8, <1>9

-----------------------------------------------------------------------------
(* The chain moves.                                                         *)
LEMMA ElsewhereStep ==
  ASSUME ClientInv, OthersMove, UNCHANGED <<call, pool>>, Known'
  PROVE  ClientInv'
<1>1. IInv /\ Moves
  BY OthersMoveMoves DEF ClientInv
<1>2. IInv' /\ Forward /\ TakesFromAllowance
  BY <1>1, MovesInv, ForwardStep, OthersTake
<1>3. terms' = terms /\ Leads(currentState, currentState')
  BY <1>2 DEF Forward
<1>4. Kept /\ NoneComes
  BY DEF Kept, NoneComes, Approving, ClientInv
<1>5. Covered'
  BY <1>2, <1>3, <1>4, CoveredKept
<1>6. \A c \in Calls : CallOK(call'[c], currentState')
  BY <1>3, CallForward DEF ClientInv
<1>7. Pooled'
  <2>1. \A i \in DOMAIN pool :
           ApprovalOK(call[pool[i].call], pool[i].transaction, currentState', terms'.borrower)
    BY <1>3, Entry, ApprovalForward
  <2> QED
    BY <2>1 DEF ClientInv, Pooled
<1> QED
  BY <1>2, <1>4, <1>5, <1>6, <1>7 DEF ClientInv, Kept

LEMMA LoadStep == ClientInv /\ loadLoans => ClientInv'
<1> SUFFICES ASSUME ClientInv, loadLoans PROVE ClientInv'
  OBVIOUS
<1>1. OthersMove /\ UNCHANGED <<vars, call, pool>> /\ blockchainState' = onChain
  BY DEF loadLoans, OthersMove
<1>2. /\ onChain["loanState"] = currentState /\ currentState \in States
      /\ onChain["paybackDeadline"] = paybackDeadline
  BY Chain DEF ClientInv
<1>3. currentState' = currentState /\ paybackDeadline' = paybackDeadline
  BY <1>1 DEF currentState, vars, ledgerVars, deadlineVars
<1>4. Known'
  BY <1>1, <1>2, <1>3 DEF Known, PaybackHasDeadline, Leads
<1> QED
  BY <1>1, <1>4, ElsewhereStep

(* The user's next transaction leaves the pool with its receipt.            *)
Receipt ==
    /\ pool # << >> /\ pool' = Tail(pool) /\ UNCHANGED blockchainState
    /\ IF call[pool[1].call].at \in Waiting
       THEN call' = [call EXCEPT ![pool[1].call] = [call[pool[1].call] EXCEPT !.mined = TRUE]]
       ELSE UNCHANGED call

LEMMA Shorter ==
  ASSUME ClientInv, pool # << >>, pool' = Tail(pool)
  PROVE  /\ 1 \in DOMAIN pool
         /\ pool' \in Seq([call : Calls, transaction : Transactions])
         /\ \A i \in DOMAIN pool' : i + 1 \in DOMAIN pool /\ i + 1 # 1 /\ pool'[i] = pool[i + 1]
         /\ \A j \in DOMAIN pool : j = 1 \/ \E i \in DOMAIN pool' : j = i + 1
<1> DEFINE E == [call : Calls, transaction : Transactions]
<1>1. pool \in Seq(E)
  BY DEF ClientInv, Pooled
<1> HIDE DEF E
<1>2. /\ Len(pool) \in Nat \ {0} /\ DOMAIN pool = 1 .. Len(pool) /\ pool' \in Seq(E)
      /\ DOMAIN pool' = 1 .. (Len(pool) - 1) /\ \A i \in DOMAIN pool' : pool'[i] = pool[i + 1]
  BY <1>1
<1>3. \A j \in DOMAIN pool : j = 1 \/ (j - 1 \in DOMAIN pool' /\ j = (j - 1) + 1)
  BY <1>2
<1> QED
  BY <1>2, <1>3 DEF E

LEMMA AfterReceipt ==
  ASSUME ClientInv, Receipt, NEW first, first = pool[1].call
  PROVE  /\ Kept /\ first \in Calls
         /\ \A d \in Calls : /\ call'[d].op = call[d].op /\ call'[d].amount = call[d].amount
                             /\ call'[d].at = call[d].at
                             /\ d # first => call'[d] = call[d]
                             /\ \A s : CallOK(call[d], s) => CallOK(call'[d], s)
         /\ call[first].at \in Waiting => call'[first].mined
         /\ \A i \in DOMAIN pool' : pool'[i].call # first
         /\ \A d \in Calls \ {first} : Approving(d)' <=> Approving(d)
         /\ ~Approving(first)' /\ (Approving(first) <=> pool[1].transaction.method = "approve")
<1>1. /\ 1 \in DOMAIN pool
      /\ \A i \in DOMAIN pool' : i + 1 \in DOMAIN pool /\ i + 1 # 1 /\ pool'[i] = pool[i + 1]
      /\ \A j \in DOMAIN pool : j = 1 \/ \E i \in DOMAIN pool' : j = i + 1
  BY Shorter DEF Receipt
<1>2. first \in Calls
  BY <1>1, Entry
<1>3. \A i, j \in DOMAIN pool : pool[i].call = pool[j].call => i = j
  BY DEF ClientInv, Pooled
<1>4. \A i \in DOMAIN pool' : pool'[i].call # first
  BY <1>1, <1>3
<1>5. ~Approving(first)' /\ (Approving(first) <=> pool[1].transaction.method = "approve")
  BY <1>1, <1>3, <1>4 DEF Approving
<1>6. \A d \in Calls \ {first} : Approving(d)' <=> Approving(d)
  BY <1>1 DEF Approving
<1> DEFINE x == call[first]
           y == [x EXCEPT !.mined = TRUE]
<1>7. /\ x \in CallState /\ y \in CallState /\ y.mined /\ y.at = x.at /\ y.op = x.op /\ y.amount = x.amount
      /\ y.reads = x.reads /\ y.seen = x.seen /\ y.reasons = x.reasons
  BY <1>2 DEF ClientInv, CallState
<1>8. x.at \in Waiting => \A s : CallOK(x, s) => CallOK(y, s)
  BY <1>7 DEF CallOK, Waiting
<1>9. \/ x.at \in Waiting /\ call' = [call EXCEPT ![first] = y]
      \/ x.at \notin Waiting /\ call' = call
  BY DEF Receipt
<1>10. \A d \in Calls : /\ d # first => call'[d] = call[d]
                        /\ (call'[first] = y /\ x.at \in Waiting) \/ call'[first] = x
  BY <1>2, <1>9 DEF ClientInv
<1> HIDE DEF x, y
<1>11. \A d \in Calls : /\ call'[d].op = call[d].op /\ call'[d].amount = call[d].amount
                        /\ call'[d].at = call[d].at /\ call'[d] \in CallState
                        /\ \A s : CallOK(call[d], s) => CallOK(call'[d], s)
  <2>1. ASSUME NEW d \in Calls, d # first
        PROVE  /\ call'[d].op = call[d].op /\ call'[d].amount = call[d].amount
               /\ call'[d].at = call[d].at /\ call'[d] \in CallState
               /\ \A s : CallOK(call[d], s) => CallOK(call'[d], s)
    BY <1>10, <2>1 DEF ClientInv
  <2>2. /\ call'[first].op = x.op /\ call'[first].amount = x.amount
        /\ call'[first].at = x.at /\ call'[first] \in CallState
        /\ \A s : CallOK(x, s) => CallOK(call'[first], s)
    BY <1>2, <1>7, <1>8, <1>10
  <2> QED
    BY <2>1, <2>2 DEF x
<1>12. Kept
  <2>1. DOMAIN call' = Calls /\ call' = [d \in Calls |-> call'[d]]
    BY <1>9 DEF ClientInv
  <2> QED
    BY <1>11, <2>1 DEF Kept
<1>13. x.at \in Waiting => call'[first].mined
  BY <1>2, <1>7, <1>9 DEF ClientInv
<1> QED
  BY <1>2, <1>4, <1>5, <1>6, <1>10, <1>11, <1>12, <1>13 DEF x

(* Everything but what the loan took.                                       *)
LEMMA ReceiptStep ==
  ASSUME ClientInv, Receipt, Moves
  PROVE  /\ IInv' /\ call' \in [Calls -> CallState] /\ Known' /\ Pooled'
         /\ \A c \in Calls : CallOK(call'[c], currentState')
<1> DEFINE first == pool[1].call
<1>1. /\ Kept /\ first \in Calls
      /\ \A d \in Calls : /\ call'[d].op = call[d].op /\ call'[d].amount = call[d].amount
                          /\ call'[d].at = call[d].at
                          /\ d # first => call'[d] = call[d]
                          /\ \A s : CallOK(call[d], s) => CallOK(call'[d], s)
      /\ call[first].at \in Waiting => call'[first].mined
      /\ \A i \in DOMAIN pool' : pool'[i].call # first
  BY AfterReceipt
<1>2. IInv' /\ Forward
  BY MovesInv, ForwardStep DEF ClientInv
<1>3. terms' = terms /\ Leads(currentState, currentState')
  BY <1>2 DEF Forward
<1>4. Known'
  BY <1>2, KnownForward DEF ClientInv, Receipt
<1>5. \A c \in Calls : CallOK(call'[c], currentState')
  BY <1>1, <1>3, CallForward DEF ClientInv
<1>6. /\ pool' \in Seq([call : Calls, transaction : Transactions])
      /\ \A i \in DOMAIN pool' : i + 1 \in DOMAIN pool /\ pool'[i] = pool[i + 1]
      /\ \A j \in DOMAIN pool : j = 1 \/ \E i \in DOMAIN pool' : j = i + 1
  BY Shorter DEF Receipt
<1>7. \A i, j \in DOMAIN pool' : pool'[i].call = pool'[j].call => i = j
  <2>1. \A i, j \in DOMAIN pool : pool[i].call = pool[j].call => i = j
    BY DEF ClientInv, Pooled
  <2>2. \A i \in DOMAIN pool' : i \in Nat
    BY <1>6
  <2> QED
    BY <1>6, <2>1, <2>2
<1>8. ASSUME NEW i \in DOMAIN pool'
      PROVE  /\ call'[pool'[i].call].at \in Waiting \cup {"rejected"}
             /\ ApprovalOK(call'[pool'[i].call], pool'[i].transaction, currentState', terms'.borrower)
  <2> DEFINE d == pool[i + 1].call
             p == pool[i + 1].transaction
  <2>1. i + 1 \in DOMAIN pool /\ pool'[i] = pool[i + 1]
    BY <1>6
  <2>2. /\ d \in Calls /\ call[d].at \in Waiting \cup {"rejected"}
        /\ ApprovalOK(call[d], p, currentState, terms.borrower)
    BY <2>1, Entry
  <2> HIDE DEF d, p
  <2>3. ApprovalOK(call[d], p, currentState', terms'.borrower)
    BY <1>3, <2>2, ApprovalForward
  <2>4. ApprovalOK(call'[d], p, currentState', terms'.borrower)
    BY <1>1, <2>2, <2>3 DEF ApprovalOK
  <2> QED
    BY <1>1, <2>1, <2>2, <2>4 DEF d, p
<1>9. ASSUME NEW d \in Calls, call'[d].at \in Waiting
      PROVE  call'[d].mined <=> \A i \in DOMAIN pool' : pool'[i].call # d
  <2>1. CASE d = first
    BY <1>1, <1>9, <2>1
  <2>2. CASE d # first
    <3>1. call'[d] = call[d] /\ (call[d].mined <=> \A i \in DOMAIN pool : pool[i].call # d)
      BY <1>1, <1>9, <2>2 DEF ClientInv, Pooled
    <3>2. (\A i \in DOMAIN pool : pool[i].call # d) <=> (\A i \in DOMAIN pool' : pool'[i].call # d)
      BY <1>6, <2>2
    <3> QED
      BY <3>1, <3>2
  <2> QED
    BY <2>1, <2>2
<1>10. Pooled'
  BY <1>6, <1>7, <1>8, <1>9 DEF Pooled
<1> QED
  BY <1>1, <1>2, <1>4, <1>5, <1>10 DEF Kept

(* An approval that arrives is covered by what its call asked for.          *)
LEMMA ApproveCovers ==
  ASSUME ClientInv, Receipt, IInv',
         NEW t, t = pool[1].transaction, t.method = "approve", Approve(t.token, me, t.value)
  PROVE  Covered'
<1>0. PICK first : first = pool[1].call
  OBVIOUS
<1> DEFINE amount == call[first].amount
           op == call[first].op
<1>1. /\ first \in Calls /\ t \in Transactions /\ call[first].at # "idle"
      /\ ApprovalOK(call[first], t, currentState, terms.borrower)
  BY <1>0, Shorter, Entry DEF Receipt, Waiting
<1>2. /\ op \in {"sendCollateral", "invest", "payback"} /\ amount \in Nat
      /\ t.token = IF op = "sendCollateral" THEN CollateralToken ELSE LoanToken
      /\ op # "payback" => t.value = amount
      /\ op = "sendCollateral" => terms.borrower = me
      /\ op = "invest" => state # "CollateralCollection"
      /\ op = "payback" => state \in AsPaid
  <2>1. call[first] \in CallState
    BY <1>1 DEF ClientInv
  <2> QED
    BY <1>1, <2>1, PaidStates DEF ApprovalOK, methodCalled, CallState, Uint
<1>3. /\ Kept
      /\ \A d \in Calls : /\ call'[d].op = call[d].op /\ call'[d].amount = call[d].amount
                          /\ d # first => (Approving(d)' <=> Approving(d))
      /\ ~Approving(first)' /\ Approving(first)
  <2>1. pool[1].transaction.method = "approve"
    OBVIOUS
  <2>2. /\ Kept
        /\ \A d \in Calls : call'[d].op = call[d].op /\ call'[d].amount = call[d].amount
        /\ \A d \in Calls \ {first} : Approving(d)' <=> Approving(d)
        /\ ~Approving(first)' /\ (Approving(first) <=> pool[1].transaction.method = "approve")
    BY <1>0, AfterReceipt
  <2> QED
    BY <2>1, <2>2
<1>4. NoneComes
  BY <1>3 DEF NoneComes
<1>5. /\ allowance' = [allowance EXCEPT ![t.token][me] = t.value]
      /\ UNCHANGED <<terms, state, receivedCollateral, amountInvested>>
  BY DEF Approve, ledgerVars, investVars
<1>6. /\ me \in Users /\ LoanToken \in Tokens /\ CollateralToken \in Tokens
      /\ allowance \in [Tokens -> [Users -> Uint(Word)]]
  BY UsersTokens DEF ClientInv, IInv, TypeOK
<1>7. /\ allowance'[t.token][me] = t.value
      /\ \A x \in Tokens : x # t.token => allowance'[x][me] = allowance[x][me]
  BY <1>2, <1>5, <1>6
<1>8. Taken' = Taken /\ Shared' = Shared
  BY <1>5 DEF Taken, Both, Shared
<1>9. /\ Asked \in Nat /\ Asked' \in Nat /\ Asked <= Asked'
      /\ GrantedInAll \in Nat /\ GrantedInAll' \in Nat /\ GrantedInAll <= GrantedInAll'
      /\ CollateralAsked \subseteq CollateralAsked'
  BY <1>3, <1>4, <1>5, InAll
<1>10. Taken \in Nat /\ allowance[LoanToken][me] \in Nat
  BY UsersTokens DEF ClientInv
<1>11. /\ state \notin AsPaid => Taken + allowance[LoanToken][me] <= GrantedInAll
       /\ Taken <= Asked
       /\ terms.borrower = me =>
             /\ state = "CollateralCollection" => allowance[CollateralToken][me] \in CollateralAsked
             /\ receivedCollateral \in CollateralAsked
  BY DEF ClientInv, Covered
(* The approval's amount moves over to what was granted.                    *)
<1>12. ASSUME op = "invest" \/ (op = "sendCollateral" /\ Shared)
       PROVE  GrantedInAll' = GrantedInAll + amount
  <2>1. call \in [Calls -> CallState] /\ call' \in [Calls -> CallState]
    BY <1>3 DEF ClientInv, Kept
  <2>2. \A m : /\ Granted(m) \in [Calls -> Nat] /\ Granted(m)' \in [Calls -> Nat]
               /\ Total(Granted(m)) \in Nat /\ Total(Granted(m)') \in Nat
    BY <2>1, AskedType, AskedTypeNext
  <2>3. ASSUME NEW m
        PROVE  /\ \A d \in Calls \ {first} : Granted(m)'[d] = Granted(m)[d]
               /\ Granted(m)[first] = 0 /\ Granted(m)'[first] = IF m = op THEN amount ELSE 0
    <3>1. \A d \in Calls :
             /\ Granted(m)[d] = IF call[d].op = m /\ ~Approving(d) THEN call[d].amount ELSE 0
             /\ Granted(m)'[d] = IF call'[d].op = m /\ ~Approving(d)' THEN call'[d].amount ELSE 0
      BY DEF Granted
    <3>2. \A d \in Calls \ {first} : Granted(m)'[d] = Granted(m)[d]
      BY <1>3, <3>1
    <3>3. Granted(m)[first] = 0
      BY <1>1, <1>3, <3>1
    <3>4. Granted(m)'[first] = IF call'[first].op = m THEN call'[first].amount ELSE 0
      BY <1>1, <1>3, <3>1
    <3> QED
      BY <1>1, <1>3, <3>2, <3>3, <3>4
  <2>4. \A m : Total(Granted(m)') = Total(Granted(m)) + (IF m = op THEN amount ELSE 0)
    <3>1. SUFFICES ASSUME NEW m PROVE Total(Granted(m)') = Total(Granted(m)) + (IF m = op THEN amount ELSE 0)
      OBVIOUS
    <3>2. Total(Granted(m)') + Granted(m)[first] = Total(Granted(m)) + Granted(m)'[first]
      BY <1>1, <2>2, <2>3, CallsFinite, TotalChange
    <3> QED
      BY <1>2, <2>2, <2>3, <3>2
  <2>5. /\ Total(Granted("invest")') = Total(Granted("invest")) + (IF op = "invest" THEN amount ELSE 0)
        /\ Total(Granted("sendCollateral")') =
              Total(Granted("sendCollateral")) + (IF op = "sendCollateral" THEN amount ELSE 0)
    BY <2>4
  <2>6. /\ GrantedInAll = Both(Total(Granted("invest")), Total(Granted("sendCollateral")))
        /\ GrantedInAll' = Both(Total(Granted("invest")'), Total(Granted("sendCollateral")'))
    BY <1>8 DEF GrantedInAll, Both
  <2>7. /\ Total(Granted("invest")) \in Nat /\ Total(Granted("sendCollateral")) \in Nat
    BY <2>2
  <2> QED
    BY <1>2, <1>12, <2>5, <2>6, <2>7 DEF Both
<1>13. state' \notin AsPaid => Taken' + allowance'[LoanToken][me] <= GrantedInAll'
  <2>1. SUFFICES ASSUME state \notin AsPaid PROVE Taken + allowance'[LoanToken][me] <= GrantedInAll'
    BY <1>5, <1>8
  <2>2. op # "payback"
    BY <1>2, <2>1
  <2>3. CASE op = "invest" \/ (op = "sendCollateral" /\ Shared)
    <3>1. allowance'[LoanToken][me] = amount
      BY <1>2, <1>7, <2>2, <2>3 DEF Shared
    <3> QED
      BY <1>2, <1>9, <1>10, <1>11, <1>12, <2>1, <2>3, <3>1
  <2>4. CASE op = "sendCollateral" /\ ~Shared
    <3>1. allowance'[LoanToken][me] = allowance[LoanToken][me]
      BY <1>2, <1>6, <1>7, <2>4 DEF Shared
    <3> QED
      BY <1>9, <1>10, <1>11, <2>1, <3>1
  <2> QED
    BY <1>2, <2>2, <2>3, <2>4
<1>14. Taken' <= Asked'
  BY <1>8, <1>9, <1>10, <1>11
<1>15. terms'.borrower = me =>
          /\ state' = "CollateralCollection" => allowance'[CollateralToken][me] \in CollateralAsked'
          /\ receivedCollateral' \in CollateralAsked'
  <2>1. CASE op = "sendCollateral"
    <3>1. amountsAsked("sendCollateral")'[first] = amount
      BY <1>1, <1>3, <2>1 DEF amountsAsked
    <3>2. amount \in CollateralAsked'
      BY <1>1, <3>1 DEF CollateralAsked
    <3> QED
      BY <1>2, <1>5, <1>7, <1>9, <1>11, <2>1, <3>2
  <2>2. CASE op # "sendCollateral"
    BY <1>2, <1>5, <1>9, <1>11, <2>2 DEF AsPaid
  <2> QED
    BY <2>1, <2>2
<1> QED
  BY <1>13, <1>14, <1>15 DEF Covered

(* What is mined is the user's, and has its effect or none.                 *)
LEMMA MineKinds ==
  ASSUME ClientInv, mine, NEW t, t = pool[1].transaction
  PROVE  /\ Receipt
         /\ \/ OthersMove
            \/ t.method = "approve" /\ t.token \in Tokens /\ t.value \in Uint(Word) /\ Approve(t.token, me, t.value)
<1> DEFINE first == pool[1]
<1>1. /\ pool # << >> /\ pool' = Tail(pool) /\ UNCHANGED blockchainState
      /\ execute(t) \/ UNCHANGED vars
      /\ IF call[first.call].at \in Waiting THEN set(first.call, [call[first.call] EXCEPT !.mined = TRUE])
         ELSE UNCHANGED call
  <2>1. pool # << >> => Head(pool) = pool[1]
    BY DEF ClientInv, Pooled
  <2> QED
    BY <2>1 DEF mine, reverted
<1>2. Receipt
  BY <1>1 DEF Receipt, set
<1>3. t \in Transactions
  BY <1>2, Shorter, Entry DEF Receipt
<1>4. me \in Users /\ \A x : x \in Uint(Word) => x \in Uint(Word)
  BY UsersTokens DEF ClientInv
<1> HIDE DEF first
<1>5. \/ OthersMove
      \/ t.method = "approve" /\ t.token \in Tokens /\ t.value \in Uint(Word) /\ Approve(t.token, me, t.value)
  <2>1. CASE UNCHANGED vars
    BY <2>1 DEF OthersMove
  <2>2. ASSUME NEW m \in {"gatherCollateral", "invest", "payback", "withdraw"}, t = Sent(m), execute(t)
        PROVE  OthersMove
    <3>1. t.method = m
      BY <2>2 DEF Sent
    <3>2. gatherCollateral(me) \/ invest(me) \/ payback(me) \/ withdraw(me)
      BY <2>2, <3>1 DEF execute
    <3> QED
      BY <1>4, <3>2 DEF OthersMove
  <2>3. ASSUME NEW x \in Tokens, NEW v \in Uint(Word), t = Approval(x, v), execute(t)
        PROVE  t.method = "approve" /\ t.token \in Tokens /\ t.value \in Uint(Word) /\ Approve(t.token, me, t.value)
    <3>1. t.method = "approve" /\ t.token = x /\ t.value = v
      BY <2>3 DEF Approval
    <3> QED
      BY <2>3, <3>1 DEF execute
  <2> QED
    BY <1>1, <1>3, <2>1, <2>2, <2>3 DEF Transactions
<1> QED
  BY <1>2, <1>5

LEMMA MineMoves == ClientInv /\ mine => Moves
<1> SUFFICES ASSUME ClientInv, mine PROVE Moves
  OBVIOUS
<1>1. PICK t : t = pool[1].transaction
  OBVIOUS
<1>2. \/ OthersMove
      \/ t.token \in Tokens /\ t.value \in Uint(Word) /\ Approve(t.token, me, t.value)
  BY <1>1, MineKinds
<1>3. me \in Users
  BY UsersTokens DEF ClientInv
<1> QED
  BY <1>2, <1>3, OthersMoveMoves DEF Moves

LEMMA MineStep == ClientInv /\ mine => ClientInv'
<1> SUFFICES ASSUME ClientInv, mine PROVE ClientInv'
  OBVIOUS
<1>1. PICK t : t = pool[1].transaction
  OBVIOUS
<1>2. Receipt
  BY <1>1, MineKinds
<1>5. \/ OthersMove
      \/ t.method = "approve" /\ Approve(t.token, me, t.value)
  BY <1>1, MineKinds
<1>6. Moves
  BY MineMoves
<1>7. /\ IInv' /\ call' \in [Calls -> CallState] /\ Known' /\ Pooled'
      /\ \A c \in Calls : CallOK(call'[c], currentState')
  BY <1>2, <1>6, ReceiptStep
<1>8. Covered'
  <2>1. CASE OthersMove
    <3>1. TakesFromAllowance /\ Forward
      BY <1>6, <2>1, OthersTake, ForwardStep DEF ClientInv
    <3>2. Kept /\ NoneComes
      BY <1>2, AfterReceipt DEF NoneComes
    <3> QED
      BY <1>7, <3>1, <3>2, CoveredKept DEF Forward
  <2>2. CASE t.method = "approve" /\ Approve(t.token, me, t.value)
    BY <1>1, <1>2, <1>7, <2>2, ApproveCovers
  <2> QED
    BY <1>5, <2>1, <2>2
<1> QED
  BY <1>7, <1>8 DEF ClientInv

LEMMA ElsewhereMoves == elsewhere => OthersMove
<1> SUFFICES ASSUME elsewhere PROVE OthersMove
  OBVIOUS
<1>1. CASE Tick
  BY <1>1 DEF OthersMove
<1>2. ASSUME NEW a \in Approvals, a[2] \in Others, Approve(a[1], a[2], a[3]) PROVE OthersMove
  <2>1. a[1] \in Tokens /\ a[2] \in Users \ {me} /\ a[3] \in Uint(Word)
    BY <1>2, AmountAssumption, ClientAssumption
  <2> QED
    BY <1>2, <2>1 DEF OthersMove
<1>3. ASSUME NEW u \in Others, gatherCollateral(u) \/ invest(u) \/ payback(u) \/ withdraw(u) PROVE OthersMove
  BY <1>3, ClientAssumption DEF OthersMove
<1> QED
  BY <1>1, <1>2, <1>3 DEF elsewhere

-----------------------------------------------------------------------------
LEMMA ClientInitInv == ClientInit => ClientInv
<1> SUFFICES ASSUME ClientInit PROVE ClientInv
  OBVIOUS
<1>1. IInv /\ blockchainState = onChain /\ call = [c \in Calls |-> NoCall] /\ pool = << >>
  BY InitInv DEF ClientInit
<1>2. NoCall \in CallState
  BY Fresh
<1>3. call \in [Calls -> CallState] /\ \A c \in Calls : CallOK(call[c], currentState)
  <2>1. NoCall.at = "idle" /\ NoCall.reads = 0 /\ NoCall.reasons = {}
    BY DEF NoCall
  <2> QED
    BY <1>1, <1>2, <2>1 DEF CallOK
<1>4. Known
  BY <1>1, Chain DEF Known, PaybackHasDeadline, Leads
<1>5. Pooled
  <2>1. /\ pool \in Seq([call : Calls, transaction : Transactions]) /\ DOMAIN pool = {}
    BY <1>1
  <2>2. \A c \in Calls : call[c].at \notin Waiting
    BY <1>1 DEF NoCall, Waiting
  <2> QED
    BY <2>1, <2>2 DEF Pooled
<1>6. Covered
  <2>1. /\ me \in Users /\ LoanToken \in Tokens /\ CollateralToken \in Tokens
    BY <1>1, UsersTokens
  <2>2. PICK t \in Terms : openAccount(t)
    BY DEF ClientInit, Init
  <2>3. /\ allowance[LoanToken][me] = 0 /\ allowance[CollateralToken][me] = 0
        /\ amountInvested[me] = 0 /\ receivedCollateral = 0
    BY <2>1, <2>2 DEF ClientInit, Init, openAccount
  <2>4. Taken = 0
    BY <2>3 DEF Taken, Both
  <2>5. \A op : Total(amountsAsked(op)) \in Nat /\ Total(Granted(op)) \in Nat
    BY <1>3, AskedType
  <2>6. Asked \in Nat /\ GrantedInAll \in Nat
    BY <2>5 DEF Asked, GrantedInAll, Both
  <2> QED
    BY <2>3, <2>4, <2>6 DEF Covered, CollateralAsked
<1> QED
  BY <1>1, <1>3, <1>4, <1>5, <1>6 DEF ClientInv

LEMMA ClientNextInv == ClientInv /\ [ClientNext]_allVars => ClientInv'
<1> SUFFICES ASSUME ClientInv, [ClientNext]_allVars PROVE ClientInv'
  OBVIOUS
<1>1. ASSUME NEW c \in Calls, start(c) PROVE ClientInv'
  BY <1>1, BeginStep, UpdateStep, WithdrawAllStep, AskStep DEF start
<1>2. ASSUME NEW c \in Calls, continue(c) PROVE ClientInv'
  BY <1>2, WaitStep, TimeoutStep, ReadStep, WithdrawAllStep, ReportStep DEF continue
<1>3. CASE loadLoans \/ mine
  BY <1>3, LoadStep, MineStep
<1>4. CASE elsewhere
  <2>1. OthersMove /\ UNCHANGED <<call, pool, blockchainState>>
    BY <1>4, ElsewhereMoves DEF elsewhere, clientVars
  <2>2. Known'
    BY <2>1, OthersMoveMoves, ForwardStep, KnownForward DEF ClientInv
  <2> QED
    BY <2>1, <2>2, ElsewhereStep
<1>5. CASE UNCHANGED allVars
  <2>1. UNCHANGED <<vars, call, pool, blockchainState>>
    BY <1>5 DEF allVars, clientVars
  <2>2. OthersMove /\ Known'
    BY <2>1, KnownStays DEF OthersMove, ClientInv
  <2> QED
    BY <2>1, <2>2, ElsewhereStep
<1> QED
  BY <1>1, <1>2, <1>3, <1>4, <1>5 DEF ClientNext

(* However calls overlap, a call has one transaction under way at most, and  *)
(* waits for it exactly while it has no receipt (blockchain.ts:239-269).    *)
THEOREM ClientTypeCorrect == ClientSpec => []ClientTypeOK
<1>1. ClientInv => ClientTypeOK
  <2> SUFFICES ASSUME ClientInv PROVE ClientTypeOK
    OBVIOUS
  <2>1. \A c \in Calls :
           /\ call[c].at \in {"idle", "updating", "confirming", "looking", "asked"} \cup Waiting \cup Settled
           /\ call[c].reads \in 0 .. Len(Fields) - 1
    <3>1. Len(Fields) - 1 = 4
      BY Reading
    <3> QED
      BY <3>1 DEF ClientInv, CallState, Places
  <2> QED
    BY <2>1 DEF ClientInv, ClientTypeOK, Known, Pooled
<1> QED
  BY <1>1, ClientInitInv, ClientNextInv, PTL DEF ClientSpec

(* The loan takes no more of the user's tokens than the user's calls asked   *)
(* for, however they overlap, fail, time out and have their transactions    *)
(* mined late (loan.ts:246-295).                                            *)
THEOREM NothingElseTaken == ClientSpec => []TakesWhatWasAsked
<1>1. ClientInv => TakesWhatWasAsked
  BY DEF ClientInv, Covered, TakesWhatWasAsked, Taken, Asked, Both, Shared, CollateralAsked
<1> QED
  BY <1>1, ClientInitInv, ClientNextInv, PTL DEF ClientSpec

(* The object never shows a loan in Payback without its deadline, although   *)
(* it reads the two apart and updates overlap (loan.ts:226-237).            *)
THEOREM DeadlineKnown == ClientSpec => []PaybackHasDeadline
<1>1. ClientInv => PaybackHasDeadline
  BY DEF ClientInv, Known
<1> QED
  BY <1>1, ClientInitInv, ClientNextInv, PTL DEF ClientSpec

(* A reason that is not "Unknown" is the right one, although it is derived   *)
(* from a state read at another time (loan.ts:339-376).                     *)
THEOREM ReasonsRight == ClientSpec => []RightReason
<1>1. ClientInv => RightReason
  <2> SUFFICES ASSUME ClientInv PROVE RightReason
    OBVIOUS
  <2>1. \A c \in Calls : \A r \in call[c].reasons :
           r \in Reasons /\ (r # "Unknown" => Outcome(r) = currentState)
    BY DEF ClientInv, CallOK, CallState
  <2> QED
    BY <2>1 DEF RightReason, Outcome, Reasons
<1> QED
  BY <1>1, ClientInitInv, ClientNextInv, PTL DEF ClientSpec

(* Driven by the library, whose approvals come at any time and in any       *)
(* amount, the contract keeps its promise (InvestorLedger.sol:240-462).      *)
THEOREM ClientKeepsPromise == ClientSpec /\ []InterestFits => KeepsPromise
<1>1. ClientInit => Promise!Init
  BY InitPromises DEF ClientInit
<1>2. ClientInv /\ ClientInv' /\ InterestFits /\ [ClientNext]_allVars => [Promise!Next]_(Promise!vars)
  <2> SUFFICES ASSUME ClientInv, ClientInv', InterestFits, [ClientNext]_allVars
               PROVE  [Promise!Next]_(Promise!vars)
    OBVIOUS
  <2>1. IInv /\ IInv'
    BY DEF ClientInv
  <2>2. Moves
    <3>1. ASSUME NEW c \in Calls, start(c) \/ continue(c) PROVE UNCHANGED vars
      BY <3>1 DEF start, continue, begin, update, withdrawAll, possibleWithdrawals, waitTxMined, timeout,
                  updateStateFromBlockchain, report
    <3>2. CASE loadLoans \/ UNCHANGED allVars
      BY <3>2 DEF loadLoans, allVars, Moves
    <3>3. CASE elsewhere
      BY <3>3, ElsewhereMoves, OthersMoveMoves
    <3>4. CASE mine
      BY <3>4, MineMoves
    <3> QED
      BY <3>1, <3>2, <3>3, <3>4 DEF ClientNext, Moves
  <2>3. CASE \E t \in Tokens, u \in Users, v \in Uint(Word) : Approve(t, u, v)
    <3>1. UNCHANGED <<now, ledgerVars>>
      BY <2>3 DEF Approve
    <3>2. UNCHANGED promiseVars
      BY <3>1 DEF promiseVars, phaseDeadline, currentState, ledgerVars, investVars, deadlineVars, withdrawVars
    <3> QED
      BY <3>2, StutterPromise
  <2>4. CASE [Next]_vars
    BY <2>1, <2>4, StepKeepsPromise
  <2> QED
    BY <2>2, <2>3, <2>4 DEF Moves, Next, LoanStep
<1> QED
  BY <1>1, <1>2, ClientInitInv, ClientNextInv, PTL DEF ClientSpec, KeepsPromise, Promise!Spec
-----------------------------------------------------------------------------
(* What a withdrawal leaves to the user.                                    *)

(* With something due, the loan is over; a withdrawal that was mined has     *)
(* paid the loan tokens, or the collateral when no loan tokens were due.     *)
Paying(x) ==
    x.at \in {"withdrawing", "looking"} /\ x.amounts # <<0, 0>> =>
        /\ currentState \in Final
        /\ x.amounts[1] = 0 => canWithdrawLoanToken(me) = 0
        /\ x.at = "looking" \/ x.mined =>
              IF x.amounts[1] > 0 THEN canWithdrawLoanToken(me) = 0
              ELSE canWithdrawCollateralToken(me) = 0

WithdrawalsSent ==
    \A i \in DOMAIN pool : call[pool[i].call].at = "withdrawing" => pool[i].transaction = Sent("withdraw")

(* A call that will resolve without having looked is another method's.       *)
OtherMethod(x) == x.at \in {"confirming", "asked"} => x.op # "withdrawAll"

WithdrawInv ==
    /\ ClientInv /\ NothingInvestedYet /\ Solvent
    /\ WithdrawalsSent
    /\ \A c \in Calls : Paying(call[c]) /\ OtherMethod(call[c])

(* Once a loan is over, what is not due to somebody never will be.           *)
NothingComesDue ==
    currentState \in Final =>
        /\ currentState' = currentState
        /\ canWithdrawLoanToken(me) = 0 => canWithdrawLoanToken(me)' = 0
        /\ canWithdrawCollateralToken(me) = 0 => canWithdrawCollateralToken(me)' = 0

LEMMA FinalStays == IInv /\ Moves /\ currentState \in Final => currentState' = currentState
BY ForwardStep DEF Forward, Leads, AsPaid, Final

(* What is due is all or nothing of a share that nobody changes.             *)
UsersDue ==
    /\ canWithdrawLoanToken(me) = IF loanWithdrawn[me] = 0 THEN loanEntitlement(me) ELSE 0
    /\ canWithdrawCollateralToken(me) = IF collateralWithdrawn[me] = 0 THEN collateralEntitlement(me) ELSE 0

LEMMA Due == IInv => UsersDue
BY UsersTokens, Left DEF UsersDue

LEMMA WithdrawLeaves ==
  ASSUME IInv, IInv', NEW u \in Users, withdraw(u)
  PROVE  /\ canWithdrawLoanToken(me) = 0 => canWithdrawLoanToken(me)' = 0
         /\ canWithdrawCollateralToken(me) = 0 => canWithdrawCollateralToken(me)' = 0
         /\ u = me /\ canWithdrawLoanToken(me) > 0 => canWithdrawLoanToken(me)' = 0
         /\ u = me /\ canWithdrawLoanToken(me) = 0 => canWithdrawCollateralToken(me)' = 0
<1> DEFINE loan == canWithdrawLoanToken(u)
           collateral == canWithdrawCollateralToken(u)
<1>1. me \in Users /\ UsersDue /\ UsersDue'
  BY UsersTokens, Due, PTL
<1>2. loanEntitlement(me)' = loanEntitlement(me) /\ collateralEntitlement(me)' = collateralEntitlement(me)
  BY <1>1, Timeouts DEF withdraw
<1>3. /\ loan \in Nat /\ collateral \in Nat
      /\ loan > 0 => loanWithdrawn[u] = 0 /\ AddMod(loanWithdrawn[u], loan, Word) = loanEntitlement(u)
      /\ collateral > 0 => /\ collateralWithdrawn[u] = 0
                           /\ AddMod(collateralWithdrawn[u], collateral, Word) = collateralEntitlement(u)
  BY Withdrawal DEF Uint
<1>4. /\ loanWithdrawn \in [Users -> Uint(Word)] /\ collateralWithdrawn \in [Users -> Uint(Word)]
      /\ loanEntitlement(me) \in Nat /\ collateralEntitlement(me) \in Nat
  BY <1>1, EntitlementType DEF IInv, TypeOK, Uint
<1> HIDE DEF loan, collateral
<1>5. /\ loanWithdrawn'[me] = IF u = me /\ loan > 0 THEN loanEntitlement(me) ELSE loanWithdrawn[me]
      /\ collateralWithdrawn'[me] = IF u = me /\ loan = 0 /\ collateral > 0 THEN collateralEntitlement(me)
                                    ELSE collateralWithdrawn[me]
  <2>1. \/ /\ loan > 0 /\ UNCHANGED collateralWithdrawn
           /\ loanWithdrawn' = [loanWithdrawn EXCEPT ![u] = AddMod(@, loan, Word)]
        \/ /\ loan = 0 /\ collateral > 0 /\ UNCHANGED loanWithdrawn
           /\ collateralWithdrawn' = [collateralWithdrawn EXCEPT ![u] = AddMod(@, collateral, Word)]
        \/ loan = 0 /\ collateral = 0 /\ UNCHANGED <<loanWithdrawn, collateralWithdrawn>>
    BY DEF withdraw, loan, collateral, withdrawVars
  <2> QED
    BY <1>1, <1>3, <1>4, <2>1
<1>6. u = me => loan = canWithdrawLoanToken(me) /\ collateral = canWithdrawCollateralToken(me)
  BY DEF loan, collateral
<1>7. /\ canWithdrawLoanToken(me)' = IF loanWithdrawn'[me] = 0 THEN loanEntitlement(me) ELSE 0
      /\ canWithdrawCollateralToken(me)' = IF collateralWithdrawn'[me] = 0 THEN collateralEntitlement(me) ELSE 0
  BY <1>1, <1>2 DEF UsersDue
<1> QED
  BY <1>1, <1>3, <1>4, <1>5, <1>6, <1>7 DEF UsersDue

LEMMA NoneComesDue == IInv /\ Moves => NothingComesDue
<1> SUFFICES ASSUME IInv, Moves, currentState \in Final PROVE NothingComesDue
  BY DEF NothingComesDue
<1>1. currentState' = currentState /\ IInv'
  BY FinalStays, MovesInv
<1>2. CASE UNCHANGED ledgerVars \/ Tick
  <2>1. UNCHANGED <<terms, receivedCollateral, amountInvested, totalAmountInvested, loanWithdrawn, collateralWithdrawn>>
    BY <1>2 DEF Tick, ledgerVars, investVars, withdrawVars
  <2>2. /\ canWithdrawLoanToken(me)' = canWithdrawLoanToken(me)
        /\ canWithdrawCollateralToken(me)' = canWithdrawCollateralToken(me)
    BY <1>1, <2>1 DEF canWithdrawLoanToken, canWithdrawCollateralToken, loanEntitlement, collateralEntitlement,
                      calculateInterest
  <2> QED
    BY <1>1, <2>2 DEF NothingComesDue
<1>3. ASSUME NEW u \in Users, gatherCollateral(u) \/ invest(u) \/ payback(u) PROVE FALSE
  BY <1>3 DEF gatherCollateral, invest, payback, inFundraising, inPayback, currentState, Final
<1>4. ASSUME NEW u \in Users, withdraw(u) PROVE NothingComesDue
  BY <1>1, <1>4, WithdrawLeaves DEF NothingComesDue
<1>5. UNCHANGED vars \/ (\E t \in Tokens, u \in Users, v \in Uint(Word) : Approve(t, u, v)) => UNCHANGED ledgerVars
  BY DEF Approve, vars
<1> QED
  BY <1>2, <1>3, <1>4, <1>5 DEF Moves

(* The contract can make a transfer of what it holds.                       *)
LEMMA CanPay ==
  ASSUME IInv, NEW t \in Tokens, NEW u \in Users, NEW v \in Nat, v <= balanceOf[t][Loan]
  PROVE  CanTransfer(balanceOf[t], Loan, u, v)
<1> DEFINE b == balanceOf[t]
           g == [b EXCEPT ![Loan] = 0]
<1>1. /\ u \in Addresses /\ Loan \in Addresses /\ u # Loan /\ u # NullAddress /\ IsFiniteSet(Addresses)
      /\ b \in [Addresses -> Uint(Word)] /\ Total(b) = totalSupply[t] /\ totalSupply[t] \in Uint(Word)
  BY Finite, AddressAssumption DEF IInv, TypeOK, Conservation
<1>2. /\ b \in [Addresses -> Nat] /\ g \in [Addresses -> Nat] /\ g[Loan] = 0 /\ g[u] = b[u]
      /\ \A a \in Addresses \ {Loan} : g[a] = b[a]
  BY <1>1 DEF Uint
<1> HIDE DEF b, g
<1>3. Total(g) + b[Loan] = Total(b) + 0
  BY <1>1, <1>2, TotalChange
<1>4. g[u] <= Total(g) /\ Total(g) \in Nat /\ Total(b) \in Nat
  BY <1>1, <1>2, TotalBound, TotalType
<1>5. /\ Total(b) \in Nat /\ b[u] + b[Loan] <= Total(b) /\ Total(b) < Word /\ b[u] \in Nat /\ b[Loan] \in Nat /\ v <= b[Loan]
      /\ Word \in Nat
  BY <1>1, <1>2, <1>3, <1>4, WidthAssumption DEF Uint, b
<1>6. AddMod(b[u], v, Word) = b[u] + v
  BY <1>5 DEF AddMod
<1>7. b[u] + v >= b[u] /\ b[Loan] >= v
  BY <1>5
<1>8. CanTransfer(b, Loan, u, v)
  BY <1>1, <1>6, <1>7 DEF CanTransfer
<1> QED
  BY <1>8 DEF b

(* A solvent contract never reverts a withdrawal.                           *)
LEMMA PaysOut ==
  ASSUME IInv, Solvent, InterestFits
  PROVE  paysOut(me)
<1> DEFINE loan == canWithdrawLoanToken(me)
           collateral == canWithdrawCollateralToken(me)
<1>1. /\ me \in Users /\ LoanToken \in Tokens /\ CollateralToken \in Tokens /\ IsFiniteSet(Users)
      /\ balanceOf[LoanToken][Loan] \in Nat /\ balanceOf[CollateralToken][Loan] \in Nat
  BY UsersTokens, Finite, Balances
<1>2. /\ loanTokensDue \in Nat /\ collateralDue \in Nat /\ Covers
  BY Dues, SolventMeansCovers DEF DuesBounded
<1>3. loanTokensDue <= balanceOf[LoanToken][Loan] /\ collateralDue <= balanceOf[CollateralToken][Loan]
  BY <1>1, <1>2 DEF Covers
<1>4. /\ LoanLeft \in [Users -> Nat] /\ CollateralLeft \in [Users -> Nat]
      /\ LoanLeft[me] = loan /\ CollateralLeft[me] = collateral
  BY <1>1, LeftTypes DEF LoanLeft, CollateralLeft
<1>5. /\ LoanLeft[me] <= Total(LoanLeft) /\ CollateralLeft[me] <= Total(CollateralLeft)
      /\ Total(LoanLeft) \in Nat /\ Total(CollateralLeft) \in Nat
  BY <1>1, <1>4, TotalBound, TotalType
<1>6. /\ loan > 0 => loanTokensDue = Total(LoanLeft)
      /\ collateral > 0 => collateralDue = Total(CollateralLeft)
  BY <1>1, Withdrawal DEF loanTokensDue, collateralDue, LoanLeft, CollateralLeft, Final
<1> HIDE DEF loan, collateral
<1>7. /\ loan \in Nat /\ loan > 0 => loan <= balanceOf[LoanToken][Loan]
      /\ collateral \in Nat /\ collateral > 0 => collateral <= balanceOf[CollateralToken][Loan]
      /\ loan \in Nat /\ collateral \in Nat
  BY <1>1, <1>2, <1>3, <1>4, <1>5, <1>6
<1>8. /\ loan > 0 => CanTransfer(balanceOf[LoanToken], Loan, me, loan)
      /\ collateral > 0 => CanTransfer(balanceOf[CollateralToken], Loan, me, collateral)
  BY <1>1, <1>7, CanPay
<1> QED
  BY <1>7, <1>8 DEF paysOut, loan, collateral

LEMMA PayingStays ==
  ASSUME NEW x, Paying(x), NothingComesDue
  PROVE  Paying(x)'
BY DEF Paying, NothingComesDue

(* The chain under the library stays solvent.                               *)
LEMMA SolventMoves == IInv /\ NothingInvestedYet /\ Solvent /\ Moves => NothingInvestedYet' /\ Solvent'
<1> SUFFICES ASSUME IInv, NothingInvestedYet, Solvent, Moves PROVE NothingInvestedYet' /\ Solvent'
  OBVIOUS
<1>1. CASE [Next]_vars
  BY <1>1, SolventNext DEF SolventInv
<1>2. ASSUME NEW t \in Tokens, NEW u \in Users, NEW v \in Uint(Word), Approve(t, u, v)
      PROVE  NothingInvestedYet' /\ Solvent'
  <2>1. UNCHANGED <<now, balanceOf, ledgerVars>>
    BY <1>2 DEF Approve
  <2>2. /\ currentState' = currentState
        /\ UNCHANGED <<terms, state, receivedCollateral, investVars, withdrawVars, totalAmountInvested>>
    BY <2>1 DEF currentState, ledgerVars, deadlineVars, investVars
  <2>3. loanTokensDue' = loanTokensDue /\ collateralDue' = collateralDue
    BY <2>2, SameDues
  <2> QED
    BY <2>1, <2>2, <2>3 DEF NothingInvestedYet, Solvent, InterestFits
<1> QED
  BY <1>1, <1>2 DEF Moves, Next, LoanStep

(* A step of one call.                                                      *)
LEMMA OneCall ==
  ASSUME WithdrawInv, ClientInv', UNCHANGED vars, NEW c \in Calls, NEW new,
         call' = [call EXCEPT ![c] = new], Paying(new), OtherMethod(new),
         new.at = "withdrawing" => \A i \in DOMAIN pool : pool[i].call # c,
         \/ UNCHANGED pool
         \/ \E t : /\ pool' = Append(pool, [call |-> c, transaction |-> t])
                   /\ new.at = "withdrawing" => t = Sent("withdraw")
  PROVE  WithdrawInv'
<1>1. ClientInv /\ IInv /\ NothingInvestedYet /\ Solvent /\ Moves
  BY DEF WithdrawInv, ClientInv, Moves
<1>2. NothingInvestedYet' /\ Solvent' /\ NothingComesDue
  BY <1>1, SolventMoves, NoneComesDue
<1>3. /\ call'[c] = new /\ \A d \in Calls \ {c} : call'[d] = call[d]
      /\ call \in [Calls -> CallState]
  BY <1>1 DEF ClientInv
<1>4. \A d \in Calls : Paying(call[d]) /\ OtherMethod(call[d])
  BY DEF WithdrawInv
<1>5. ASSUME NEW x, Paying(x) PROVE Paying(x)'
  BY <1>2, <1>5, PayingStays
<1>6. ASSUME NEW d \in Calls PROVE Paying(call[d])' /\ OtherMethod(call[d])'
  <2>1. PICK x : x = call'[d]
    OBVIOUS
  <2>2. Paying(x) /\ OtherMethod(x)
    BY <1>3, <1>4, <2>1
  <2>3. Paying(x)'
    BY <1>5, <2>2
  <2> QED
    BY <2>1, <2>2, <2>3 DEF Paying, OtherMethod
<1>7. WithdrawalsSent'
  <2>1. ASSUME NEW i \in DOMAIN pool, call'[pool[i].call].at = "withdrawing"
        PROVE  pool[i].transaction = Sent("withdraw")
    <3>1. pool[i].call \in Calls
      BY <1>1, Entry
    <3>2. pool[i].call # c
      BY <1>3, <2>1
    <3> QED
      BY <1>3, <2>1, <3>1, <3>2 DEF WithdrawInv, WithdrawalsSent
  <2>2. CASE UNCHANGED pool
    BY <2>1, <2>2 DEF WithdrawalsSent
  <2>3. ASSUME NEW t, pool' = Append(pool, [call |-> c, transaction |-> t]),
               new.at = "withdrawing" => t = Sent("withdraw")
        PROVE  WithdrawalsSent'
    <3> DEFINE E == [call : Calls, transaction : Transactions]
               e == [call |-> c, transaction |-> t]
    <3>1. pool \in Seq(E)
      BY <1>1 DEF ClientInv, Pooled
    <3>2. e.call = c /\ e.transaction = t
      OBVIOUS
    <3> HIDE DEF E, e
    <3>3. \A i \in DOMAIN pool' : (i \in DOMAIN pool /\ pool'[i] = pool[i]) \/ pool'[i] = e
      BY <2>3, <3>1 DEF e
    <3> QED
      BY <1>3, <2>1, <2>3, <3>2, <3>3 DEF WithdrawalsSent
  <2> QED
    BY <2>2, <2>3
<1> QED
  BY <1>2, <1>6, <1>7 DEF WithdrawInv

(* The steps of a call that neither sends a withdrawal nor looks at what is  *)
(* left, or whose end is another method's.                                  *)
OtherStep(c) ==
    \E new : /\ call' = [call EXCEPT ![c] = new]
             /\ new.at \notin {"withdrawing", "looking"} /\ OtherMethod(new)
             /\ new.at = "resolved" => new.op # "withdrawAll"
             /\ \/ UNCHANGED pool
                \/ \E t : pool' = Append(pool, [call |-> c, transaction |-> t])

LEMMA SendingIsOther ==
  ASSUME NEW c \in Calls, NEW x \in CallState, NEW t, NEW at \in {"approving", "executing"},
         mutate(c, x, t, at)
  PROVE  OtherStep(c)
<1>1. PICK to \in {at, "rejected"} :
         /\ call' = [call EXCEPT ![c] = [x EXCEPT !.at = to, !.mined = FALSE, !.reads = 0, !.seen = Unread]]
         /\ \/ UNCHANGED pool
            \/ pool' = Append(pool, [call |-> c, transaction |-> t])
  BY DEF mutate, set
<1> DEFINE new == [x EXCEPT !.at = to, !.mined = FALSE, !.reads = 0, !.seen = Unread]
<1>2. new.at = to
  BY DEF CallState
<1>3. call' = [call EXCEPT ![c] = new]
  BY <1>1
<1> HIDE DEF new
<1> QED
  BY <1>1, <1>2, <1>3 DEF OtherStep, OtherMethod

LEMMA SettlingIsOther ==
  ASSUME ClientInv, NEW c \in Calls, NEW to \in Settled, settle(c, to), UNCHANGED pool,
         to = "resolved" => call[c].op # "withdrawAll"
  PROVE  OtherStep(c)
<1> DEFINE new == [NoCall EXCEPT !.op = call[c].op, !.amount = call[c].amount,
                                 !.reasons = call[c].reasons, !.at = to]
<1>1. call' = [call EXCEPT ![c] = new]
  BY DEF settle, set
<1>2. new.op = call[c].op /\ new.at = to
  BY Fresh DEF CallState
<1> HIDE DEF new
<1> QED
  BY <1>1, <1>2 DEF OtherStep, OtherMethod, Settled

LEMMA CallStepKinds ==
  ASSUME WithdrawInv, NEW c \in Calls, start(c) \/ continue(c)
  PROVE  /\ UNCHANGED vars
         /\ \/ OtherStep(c)
            \/ waitTxMined(c) /\ call[c].at = "withdrawing"
            \/ withdrawAll(c)
<1>1. UNCHANGED vars
  <2>1. \A op, amount : begin(c, op, amount) => UNCHANGED vars
    BY Zenon DEF begin
  <2>2. update(c) \/ possibleWithdrawals(c) \/ report(c) => UNCHANGED vars
    BY Zenon DEF update, possibleWithdrawals, report
  <2>3. waitTxMined(c) \/ timeout(c) => UNCHANGED vars
    BY Zenon DEF waitTxMined, timeout
  <2>4. updateStateFromBlockchain(c) \/ withdrawAll(c) => UNCHANGED vars
    BY Zenon DEF updateStateFromBlockchain, withdrawAll
  <2> QED
    BY <2>1, <2>2, <2>3, <2>4 DEF start, continue
<1> DEFINE x == call[c]
<1>2. ClientInv /\ x \in CallState /\ CallOK(x, currentState) /\ OtherMethod(x)
  BY DEF WithdrawInv, ClientInv
<1>3. ASSUME NEW op \in DOMAIN methodCalled, NEW amount \in Amounts, begin(c, op, amount) PROVE OtherStep(c)
  <2> DEFINE started == [x EXCEPT !.op = op, !.amount = amount]
  <2>1. started \in CallState
    <3>1. op \in Methods /\ amount \in Uint(Word)
      BY ClientAssumption DEF methodCalled, Methods
    <3> QED
      BY <1>2, <3>1 DEF CallState
  <2> HIDE DEF started
  <2>2. CASE set(c, [started EXCEPT !.at = "rejected"]) /\ UNCHANGED pool
    <3> DEFINE new == [started EXCEPT !.at = "rejected"]
    <3>1. new.at = "rejected" /\ call' = [call EXCEPT ![c] = new]
      BY <2>1, <2>2 DEF CallState, set
    <3> HIDE DEF new
    <3> QED
      BY <2>2, <3>1 DEF OtherStep, OtherMethod
  <2>3. ASSUME NEW t, mutate(c, started, t, "approving") PROVE OtherStep(c)
    BY <2>1, <2>3, SendingIsOther
  <2> QED
    BY <1>3, <2>2, <2>3 DEF begin, started
<1>4. ASSUME update(c) PROVE OtherStep(c)
  <2> DEFINE new == [x EXCEPT !.op = "update", !.at = "confirming"]
  <2>1. new.at = "confirming" /\ new.op = "update" /\ call' = [call EXCEPT ![c] = new] /\ UNCHANGED pool
    BY <1>2, <1>4 DEF update, set, CallState
  <2> HIDE DEF new
  <2> QED
    BY <2>1 DEF OtherStep, OtherMethod
<1>5. ASSUME possibleWithdrawals(c) PROVE OtherStep(c)
  <2> DEFINE new == [x EXCEPT !.op = "possibleWithdrawals", !.at = "asked", !.amounts = withdrawableAmounts]
  <2>1. /\ new.at = "asked" /\ new.op = "possibleWithdrawals"
        /\ call' = [call EXCEPT ![c] = new] /\ UNCHANGED pool
    BY <1>2, <1>5 DEF possibleWithdrawals, set, CallState
  <2> HIDE DEF new
  <2> QED
    BY <2>1 DEF OtherStep, OtherMethod
<1>6. ASSUME waitTxMined(c), x.at # "withdrawing" PROVE OtherStep(c)
  <2> DEFINE at == CASE x.at = "approving" -> "updating"
                     [] x.at = "executing" -> "confirming"
                     [] x.at = "withdrawing" -> "looking"
             new == [x EXCEPT !.mined = FALSE, !.at = at]
  <2>1. x.at \in {"approving", "executing"} /\ call' = [call EXCEPT ![c] = new] /\ UNCHANGED pool
    BY <1>6 DEF waitTxMined, set, Waiting
  <2>2. at \in {"updating", "confirming"}
    BY <2>1
  <2> HIDE DEF at
  <2>3. new.at = at /\ new.op = x.op
    BY <1>2 DEF CallState
  <2>4. x.op # "withdrawAll"
    BY <1>2, <2>1 DEF CallOK, methodCalled
  <2> HIDE DEF new
  <2> QED
    BY <2>1, <2>2, <2>3, <2>4 DEF OtherStep, OtherMethod
<1>7. ASSUME timeout(c) PROVE OtherStep(c)
  BY <1>2, <1>7, SettlingIsOther DEF timeout, Settled
<1>8. ASSUME updateStateFromBlockchain(c) PROVE OtherStep(c)
  <2> DEFINE n == x.reads + 1
             seen == [x.seen EXCEPT ![Fields[n]] = onChain[Fields[n]]]
             read == [x EXCEPT !.reads = n, !.seen = seen]
  <2>1. /\ x.at \in {"updating", "confirming"}
        /\ \/ n < 5 /\ set(c, read) /\ UNCHANGED pool
           \/ n = 5 /\ x.at = "updating" /\ mutate(c, read, Sent(methodCalled[read.op]), "executing")
           \/ x.at = "confirming" /\ settle(c, "resolved") /\ UNCHANGED pool
    BY <1>8, Reading DEF updateStateFromBlockchain
  <2>2. n \in 1 .. 5 /\ x.seen \in Snapshot /\ seen \in Snapshot
    <3>1. n \in 1 .. 5 /\ x.seen \in Snapshot
      BY <1>2 DEF CallState
    <3>2. onChain \in Snapshot
      BY <1>2, Chain DEF ClientInv
    <3> HIDE DEF n
    <3> QED
      BY <3>1, <3>2, Reading DEF Snapshot
  <2> HIDE DEF seen
  <2>3. read.at = x.at /\ read.op = x.op
    BY <1>2 DEF CallState
  <2>4. CASE set(c, read) /\ UNCHANGED pool
    <3>1. call' = [call EXCEPT ![c] = read]
      BY <2>4 DEF set
    <3> HIDE DEF read
    <3> QED
      BY <1>2, <2>1, <2>3, <2>4, <3>1 DEF OtherStep, OtherMethod
  <2>5. ASSUME NEW t, mutate(c, read, t, "executing") PROVE OtherStep(c)
    <3>1. \A to : [read EXCEPT !.at = to, !.mined = FALSE, !.reads = 0, !.seen = Unread] =
                  [x EXCEPT !.at = to, !.mined = FALSE, !.reads = 0, !.seen = Unread]
      BY <1>2 DEF CallState
    <3> HIDE DEF read, x
    <3>2. mutate(c, x, t, "executing")
      BY <2>5, <3>1, Zenon DEF mutate
    <3> QED
      BY <1>2, <3>2, SendingIsOther
  <2>6. CASE x.at = "confirming" /\ settle(c, "resolved") /\ UNCHANGED pool
    BY <1>2, <2>6, SettlingIsOther DEF OtherMethod, Settled
  <2> QED
    BY <2>1, <2>4, <2>5, <2>6
<1>9. ASSUME report(c) PROVE OtherStep(c)
  <2> DEFINE new == [x EXCEPT !.at = "resolved", !.reasons = reasonsGiven(c)]
  <2>1. new.at = "resolved" /\ new.op = x.op /\ call' = [call EXCEPT ![c] = new] /\ UNCHANGED pool
    BY <1>2, <1>9 DEF report, set, CallState
  <2>2. x.op # "withdrawAll"
    BY <1>2, <1>9 DEF report, OtherMethod
  <2> HIDE DEF new
  <2> QED
    BY <2>1, <2>2 DEF OtherStep, OtherMethod
<1> HIDE DEF x
<1>10. waitTxMined(c) /\ x.at = "withdrawing" => waitTxMined(c) /\ call[c].at = "withdrawing"
  BY DEF x
<1> QED
  BY <1>1, <1>3, <1>4, <1>5, <1>6, <1>7, <1>8, <1>9, <1>10 DEF start, continue

LEMMA CallKeepsWithdrawals ==
  ASSUME WithdrawInv, ClientInv', NEW c \in Calls, start(c) \/ continue(c)
  PROVE  WithdrawInv'
<1>1. UNCHANGED vars
  BY CallStepKinds
<1> DEFINE x == call[c]
<1>2. /\ x \in CallState /\ CallOK(x, currentState) /\ Paying(x) /\ ClientInv /\ IInv
      /\ me \in Users /\ withdrawableAmounts \in Uint(Word) \X Uint(Word)
  BY UsersTokens, AmountsType DEF WithdrawInv, ClientInv
<1>3. CASE OtherStep(c)
  <2>1. PICK new : /\ call' = [call EXCEPT ![c] = new]
                   /\ new.at \notin {"withdrawing", "looking"} /\ OtherMethod(new)
                   /\ \/ UNCHANGED pool
                      \/ \E t : pool' = Append(pool, [call |-> c, transaction |-> t])
    BY <1>3 DEF OtherStep
  <2>2. Paying(new)
    BY <2>1 DEF Paying
  <2> QED
    BY <1>1, <2>1, <2>2, OneCall
<1>4. CASE waitTxMined(c) /\ call[c].at = "withdrawing"
  <2> DEFINE new == [x EXCEPT !.mined = FALSE, !.at = "looking"]
  <2>1. x.at = "withdrawing" /\ x.mined /\ UNCHANGED pool /\ call' = [call EXCEPT ![c] = new]
    BY <1>4 DEF waitTxMined, set
  <2>2. new.at = "looking" /\ new.amounts = x.amounts
    BY <1>2 DEF CallState
  <2> HIDE DEF new
  <2>3. Paying(new) /\ OtherMethod(new)
    BY <1>2, <2>1, <2>2 DEF Paying, OtherMethod
  <2> QED
    BY <1>1, <2>1, <2>2, <2>3, OneCall
<1>5. CASE withdrawAll(c)
  <2> DEFINE started == [x EXCEPT !.op = "withdrawAll"]
             asking == [started EXCEPT !.amounts = withdrawableAmounts]
  <2>1. /\ x.at \in {"idle", "looking"}
        /\ \/ set(c, [started EXCEPT !.at = "resolved"]) /\ UNCHANGED pool
           \/ mutate(c, asking, Sent("withdraw"), "withdrawing")
    BY <1>5 DEF withdrawAll
  <2>2. \A i \in DOMAIN pool : pool[i].call # c
    BY <1>2, <2>1, NothingSent DEF Waiting
  <2>3. started \in CallState
    BY <1>2 DEF CallState, Methods
  <2>4. asking \in CallState /\ asking.amounts = withdrawableAmounts
    <3> HIDE DEF started
    <3> QED
      BY <1>2, <2>3 DEF CallState
  <2> HIDE DEF started, asking
  <2>5. CASE set(c, [started EXCEPT !.at = "resolved"]) /\ UNCHANGED pool
    <3> DEFINE new == [started EXCEPT !.at = "resolved"]
    <3>1. new.at = "resolved" /\ call' = [call EXCEPT ![c] = new]
      BY <2>3, <2>5 DEF CallState, set
    <3> HIDE DEF new
    <3>2. Paying(new) /\ OtherMethod(new)
      BY <3>1 DEF Paying, OtherMethod
    <3> QED
      BY <1>1, <2>2, <2>5, <3>1, <3>2, OneCall
  <2>6. CASE mutate(c, asking, Sent("withdraw"), "withdrawing")
    <3>1. PICK to \in {"withdrawing", "rejected"} :
             /\ call' = [call EXCEPT ![c] = [asking EXCEPT !.at = to, !.mined = FALSE, !.reads = 0, !.seen = Unread]]
             /\ \/ UNCHANGED pool
                \/ pool' = Append(pool, [call |-> c, transaction |-> Sent("withdraw")])
      BY <2>6 DEF mutate, set
    <3> DEFINE new == [asking EXCEPT !.at = to, !.mined = FALSE, !.reads = 0, !.seen = Unread]
    <3>2. new.at = to /\ new.mined = FALSE /\ new.amounts = withdrawableAmounts
      BY <2>4 DEF CallState
    <3>3. call' = [call EXCEPT ![c] = new]
      BY <3>1
    <3> HIDE DEF new
    <3>4. Paying(new) /\ OtherMethod(new)
      <4>1. new.amounts[1] = canWithdrawLoanToken(me) /\ new.amounts[2] = canWithdrawCollateralToken(me)
        BY <3>2 DEF withdrawableAmounts
      <4>2. /\ canWithdrawLoanToken(me) \in Nat /\ canWithdrawCollateralToken(me) \in Nat
            /\ canWithdrawLoanToken(me) > 0 \/ canWithdrawCollateralToken(me) > 0 => currentState \in Final
        BY <1>2, Withdrawal DEF Uint
      <4>3. new.amounts # <<0, 0>> => currentState \in Final
        BY <3>2, <4>2 DEF withdrawableAmounts
      <4> QED
        BY <3>1, <3>2, <4>1, <4>3 DEF Paying, OtherMethod
    <3> QED
      BY <1>1, <2>2, <3>1, <3>3, <3>4, OneCall
  <2> QED
    BY <2>1, <2>5, <2>6
<1> QED
  BY <1>3, <1>4, <1>5, CallStepKinds

(* The call of a transaction that is mined.                                 *)
LEMMA WithdrawalMined ==
  ASSUME WithdrawInv, InterestFits, mine, NEW x, x = call[pool[1].call], x.at = "withdrawing"
  PROVE  withdraw(me)
<1>1. 1 \in DOMAIN pool /\ ClientInv /\ Head(pool) = pool[1]
  <2>1. ClientInv /\ pool # << >> /\ pool' = Tail(pool)
    BY DEF WithdrawInv, mine
  <2>2. 1 \in DOMAIN pool
    BY <2>1, Shorter
  <2> QED
    BY <2>1, <2>2 DEF ClientInv, Pooled
<1>2. pool[1].transaction = Sent("withdraw")
  BY <1>1 DEF WithdrawInv, WithdrawalsSent
<1>3. paysOut(me)
  BY <1>1, PaysOut DEF WithdrawInv, ClientInv
<1>4. execute(Sent("withdraw")) \/ reverted(Sent("withdraw"))
  BY <1>1, <1>2 DEF mine
<1>5. Sent("withdraw").method = "withdraw"
  BY DEF Sent
<1>6. ~reverted(Sent("withdraw"))
  BY <1>3, <1>5 DEF reverted
<1> QED
  BY <1>4, <1>5, <1>6 DEF execute

LEMMA MineKeepsWithdrawals ==
  ASSUME WithdrawInv, ClientInv', InterestFits, mine
  PROVE  WithdrawInv'
<1>1. ClientInv /\ IInv /\ IInv' /\ NothingInvestedYet /\ Solvent
  BY DEF WithdrawInv, ClientInv
<1>2. PICK t : t = pool[1].transaction
  OBVIOUS
<1>3. Receipt /\ Moves
  BY <1>1, <1>2, MineKinds, MineMoves
<1>4. NothingInvestedYet' /\ Solvent' /\ NothingComesDue
  BY <1>1, <1>3, SolventMoves, NoneComesDue
<1>5. PICK first : first = pool[1].call
  OBVIOUS
<1>6. /\ first \in Calls
      /\ \A d \in Calls : /\ call'[d].op = call[d].op /\ call'[d].at = call[d].at
                          /\ d # first => call'[d] = call[d]
  BY <1>1, <1>3, <1>5, AfterReceipt
<1>7. /\ 1 \in DOMAIN pool
      /\ \A i \in DOMAIN pool' : i + 1 \in DOMAIN pool /\ pool'[i] = pool[i + 1]
  BY <1>1, <1>3, Shorter DEF Receipt
<1>8. ASSUME NEW x, Paying(x) PROVE Paying(x)'
  BY <1>4, <1>8, PayingStays
<1>9. ASSUME NEW d \in Calls, d # first PROVE Paying(call[d])'
  <2>1. PICK x : x = call[d]
    OBVIOUS
  <2>2. Paying(x)'
    BY <1>8, <2>1 DEF WithdrawInv
  <2> QED
    BY <1>6, <1>9, <2>1, <2>2
<1>10. Paying(call[first])'
  <2>1. PICK x : x = call[first]
    OBVIOUS
  <2>2. PICK y : y = call'[first]
    OBVIOUS
  <2>3. y.at = x.at /\ Paying(x) /\ x \in CallState
    BY <1>1, <1>6, <2>1, <2>2 DEF WithdrawInv, ClientInv
  <2>4. CASE x.at # "withdrawing"
    <3>1. x.at \in Waiting \cup {"rejected"}
      BY <1>1, <1>5, <1>7, <2>1, Entry
    <3>2. y.at \notin {"withdrawing", "looking"}
      BY <2>3, <2>4, <3>1 DEF Waiting
    <3> QED
      BY <2>2, <3>2 DEF Paying
  <2>5. CASE x.at = "withdrawing"
    <3>1. withdraw(me) /\ me \in Users
      BY <1>1, <1>5, <2>1, <2>5, WithdrawalMined, UsersTokens
    <3>2. y.amounts = x.amounts
      <4>1. call' = [call EXCEPT ![first] = [x EXCEPT !.mined = TRUE]]
        BY <1>3, <1>5, <2>1, <2>5 DEF Receipt, Waiting
      <4>2. y = [x EXCEPT !.mined = TRUE]
        BY <1>1, <1>6, <2>2, <4>1 DEF ClientInv
      <4> QED
        BY <2>3, <4>2 DEF CallState
    <3>3. SUFFICES ASSUME x.amounts # <<0, 0>>
                   PROVE  /\ (currentState \in Final)'
                          /\ x.amounts[1] = 0 => canWithdrawLoanToken(me)' = 0
                          /\ IF x.amounts[1] > 0 THEN canWithdrawLoanToken(me)' = 0
                             ELSE canWithdrawCollateralToken(me)' = 0
      BY <2>2, <3>2 DEF Paying
    <3>4. currentState \in Final /\ (x.amounts[1] = 0 => canWithdrawLoanToken(me) = 0)
      BY <2>3, <2>5, <3>3 DEF Paying
    <3>5. (currentState \in Final)'
      BY <1>4, <3>4 DEF NothingComesDue
    <3>6. /\ canWithdrawLoanToken(me) \in Nat /\ x.amounts[1] \in Nat
      BY <1>1, <2>3, <3>1, Withdrawal DEF CallState, Uint
    <3>7. /\ canWithdrawLoanToken(me) = 0 => canWithdrawLoanToken(me)' = 0 /\ canWithdrawCollateralToken(me)' = 0
          /\ canWithdrawLoanToken(me) > 0 => canWithdrawLoanToken(me)' = 0
      BY <1>1, <3>1, WithdrawLeaves
    <3> QED
      BY <3>4, <3>5, <3>6, <3>7
  <2> QED
    BY <2>4, <2>5
<1>11. WithdrawalsSent'
  <2>1. ASSUME NEW i \in DOMAIN pool', call'[pool'[i].call].at = "withdrawing"
        PROVE  pool'[i].transaction = Sent("withdraw")
    <3>1. i + 1 \in DOMAIN pool /\ pool'[i] = pool[i + 1]
      BY <1>7
    <3>2. pool[i + 1].call \in Calls
      BY <1>1, <3>1, Entry
    <3> QED
      BY <1>6, <2>1, <3>1, <3>2 DEF WithdrawInv, WithdrawalsSent
  <2> QED
    BY <2>1 DEF WithdrawalsSent
<1>12. \A d \in Calls : OtherMethod(call'[d])
  BY <1>6 DEF WithdrawInv, OtherMethod
<1> QED
  BY <1>4, <1>9, <1>10, <1>11, <1>12 DEF WithdrawInv, OtherMethod

LEMMA OthersKeepWithdrawals ==
  ASSUME WithdrawInv, ClientInv', Moves, UNCHANGED <<call, pool>>
  PROVE  WithdrawInv'
<1>1. NothingInvestedYet' /\ Solvent' /\ NothingComesDue
  BY SolventMoves, NoneComesDue DEF WithdrawInv, ClientInv
<1>2. ASSUME NEW x, Paying(x) PROVE Paying(x)'
  BY <1>1, <1>2, PayingStays
<1>3. ASSUME NEW c \in Calls PROVE Paying(call[c])'
  <2>1. PICK x : x = call[c]
    OBVIOUS
  <2>2. Paying(x)'
    BY <1>2, <2>1 DEF WithdrawInv
  <2> QED
    BY <2>1, <2>2
<1> QED
  BY <1>1, <1>3 DEF WithdrawInv, WithdrawalsSent, OtherMethod

LEMMA WithdrawInit == ClientInit => WithdrawInv
<1> SUFFICES ASSUME ClientInit PROVE WithdrawInv
  OBVIOUS
<1>1. ClientInv /\ NothingInvestedYet /\ Solvent
  BY ClientInitInv, SolventInit DEF ClientInit, SolventInv
<1>2. call = [c \in Calls |-> NoCall] /\ pool = << >>
  BY DEF ClientInit
<1>3. \A c \in Calls : Paying(call[c]) /\ OtherMethod(call[c])
  BY <1>2 DEF NoCall, Paying, OtherMethod
<1>4. WithdrawalsSent
  BY <1>2 DEF WithdrawalsSent
<1> QED
  BY <1>1, <1>3, <1>4 DEF WithdrawInv

LEMMA WithdrawNext == WithdrawInv /\ InterestFits /\ [ClientNext]_allVars => WithdrawInv'
<1> SUFFICES ASSUME WithdrawInv, InterestFits, [ClientNext]_allVars PROVE WithdrawInv'
  OBVIOUS
<1>1. ClientInv'
  BY ClientNextInv DEF WithdrawInv
<1>2. CASE loadLoans \/ UNCHANGED allVars
  <2>1. Moves /\ UNCHANGED <<call, pool>>
    BY <1>2 DEF loadLoans, allVars, clientVars, Moves
  <2> QED
    BY <1>1, <2>1, OthersKeepWithdrawals
<1>3. CASE elsewhere
  <2>1. Moves /\ UNCHANGED <<call, pool>>
    BY <1>3, ElsewhereMoves, OthersMoveMoves DEF elsewhere, clientVars
  <2> QED
    BY <1>1, <2>1, OthersKeepWithdrawals
<1>4. CASE mine
  BY <1>1, <1>4, MineKeepsWithdrawals
<1>5. ASSUME NEW c \in Calls, start(c) \/ continue(c) PROVE WithdrawInv'
  BY <1>1, <1>5, CallKeepsWithdrawals
<1> QED
  BY <1>2, <1>3, <1>4, <1>5 DEF ClientNext

(* When withdrawAll resolves, nothing is left: neither token, whoever else   *)
(* withdraws meanwhile and although one transaction pays one token only      *)
(* (loan.ts:381-395).  The interest has to fit the word: otherwise the       *)
(* contract may lack the funds, and two equal answers mean nothing.          *)
THEOREM EverythingWithdrawn == ClientSpec /\ []InterestFits => WithdrawsAll
<1>1. ASSUME WithdrawInv, [ClientNext]_allVars,
             NEW c \in Calls, call'[c].op = "withdrawAll", call'[c].at = "resolved", call[c].at # "resolved"
      PROVE  withdrawableAmounts = <<0, 0>>
  <2>0. ClientInv /\ \A d \in Calls : Paying(call[d])
    BY <1>1 DEF WithdrawInv
  <2>1. /\ call \in [Calls -> CallState] /\ ClientInv /\ Paying(call[c])
        /\ \A d \in Calls : CallOK(call[d], currentState)
    <3>1. call \in [Calls -> CallState] /\ \A d \in Calls : CallOK(call[d], currentState)
      BY <2>0 DEF ClientInv
    <3> QED
      BY <2>0, <3>1
  <2>2. ~mine
    <3>1. SUFFICES ASSUME mine PROVE FALSE
      OBVIOUS
    <3>2. PICK t, first : t = pool[1].transaction /\ first = pool[1].call
      OBVIOUS
    <3>3. call'[c].at = call[c].at
      BY <2>1, <3>1, <3>2, MineKinds, AfterReceipt
    <3> QED
      BY <1>1, <3>3
  <2>3. ~loadLoans /\ ~elsewhere /\ ~UNCHANGED allVars
    BY <1>1 DEF loadLoans, elsewhere, allVars, clientVars
  <2>4. PICK d \in Calls : start(d) \/ continue(d)
    BY <1>1, <2>2, <2>3 DEF ClientNext
  <2>5. \/ OtherStep(d)
        \/ waitTxMined(d) /\ call[d].at = "withdrawing"
        \/ withdrawAll(d)
    BY <1>1, <2>4, CallStepKinds
  <2>6. CASE OtherStep(d)
    BY <1>1, <2>1, <2>6 DEF OtherStep
  <2>7. CASE waitTxMined(d) /\ call[d].at = "withdrawing"
    <3> DEFINE new == [call[d] EXCEPT !.mined = FALSE, !.at = "looking"]
    <3>1. new.at = "looking" /\ call' = [call EXCEPT ![d] = new]
      BY <2>1, <2>7 DEF waitTxMined, set, CallState
    <3> HIDE DEF new
    <3> QED
      BY <1>1, <2>1, <3>1
  <2>8. CASE withdrawAll(d)
    <3> DEFINE x == call[d]
               started == [x EXCEPT !.op = "withdrawAll"]
               asking == [started EXCEPT !.amounts = withdrawableAmounts]
    <3>1. /\ x.at \in {"idle", "looking"}
          /\ \/ unchangedAmounts(d) /\ set(d, [started EXCEPT !.at = "resolved"])
             \/ mutate(d, asking, Sent("withdraw"), "withdrawing")
      BY <2>8 DEF withdrawAll
    <3>2. x \in CallState /\ Paying(x) /\ CallOK(x, currentState)
      BY <2>0, <2>1
    <3>3. started \in CallState
      BY <3>2 DEF CallState, Methods
    <3>4. asking \in CallState
      <4> HIDE DEF started
      <4> QED
        BY <2>1, <3>3, AmountsType DEF CallState
    <3>5. d = c
      BY <1>1, <2>1, <3>1 DEF set, mutate
    <3> HIDE DEF started, asking
    <3>6. ~mutate(d, asking, Sent("withdraw"), "withdrawing")
      <4>1. SUFFICES ASSUME mutate(d, asking, Sent("withdraw"), "withdrawing") PROVE FALSE
        OBVIOUS
      <4>2. PICK to \in {"withdrawing", "rejected"} :
               call' = [call EXCEPT ![d] = [asking EXCEPT !.at = to, !.mined = FALSE, !.reads = 0, !.seen = Unread]]
        BY <4>1 DEF mutate, set
      <4> DEFINE new == [asking EXCEPT !.at = to, !.mined = FALSE, !.reads = 0, !.seen = Unread]
      <4>3. new.at = to /\ call' = [call EXCEPT ![d] = new]
        BY <3>4, <4>2 DEF CallState
      <4> HIDE DEF new
      <4> QED
        BY <1>1, <2>1, <3>5, <4>2, <4>3
    <3>7. withdrawableAmounts = x.amounts
      BY <3>1, <3>6 DEF unchangedAmounts
    <3>8. CASE x.at = "idle"
      BY <3>2, <3>7, <3>8 DEF CallOK, NoCall
    <3>9. CASE x.at = "looking"
      <4>1. SUFFICES ASSUME x.amounts # <<0, 0>> PROVE FALSE
        BY <3>7
      <4>2. IF x.amounts[1] > 0 THEN canWithdrawLoanToken(me) = 0 ELSE canWithdrawCollateralToken(me) = 0
        BY <3>2, <3>9, <4>1 DEF Paying
      <4>3. /\ x.amounts = <<canWithdrawLoanToken(me), canWithdrawCollateralToken(me)>>
            /\ canWithdrawLoanToken(me) \in Nat
        BY <2>1, <3>7, UsersTokens, Withdrawal DEF withdrawableAmounts, ClientInv, Uint
      <4> HIDE DEF x
      <4> QED
        BY <4>1, <4>2, <4>3
    <3> QED
      BY <3>1, <3>8, <3>9
  <2> QED
    BY <2>5, <2>6, <2>7, <2>8
<1>2. WithdrawInv /\ [ClientNext]_allVars =>
         [\A c \in Calls :
             call'[c].op = "withdrawAll" /\ call'[c].at = "resolved" /\ call[c].at # "resolved"
               => withdrawableAmounts = <<0, 0>>]_allVars
  BY <1>1
<1> QED
  BY <1>2, WithdrawInit, WithdrawNext, PTL DEF ClientSpec, WithdrawsAll
=============================================================================
