----------------------------- MODULE LoanClient -----------------------------
(***************************************************************************)
(* getline.ts: one Loan object of one user, over the contract on the chain  *)
(* (InvestorLedger).  Calls of its asynchronous methods interleave with     *)
(* each other, with the chain and with everybody else's transactions; a     *)
(* step of a call runs from one await to the next.  Transactions of the     *)
(* user are mined in the order they were sent; a call waits for the receipt *)
(* of its own for a minute.  A transaction that is reverted has a receipt   *)
(* too, and mutate does not look at its status.                            *)
(***************************************************************************)
EXTENDS InvestorLedger, Sequences

CONSTANTS
    me,             \* the user of the library
    MaxCalls,       \* bound: how many calls of its methods are made
    Ops,            \* the methods called
    Amounts,        \* the arguments of sendCollateral and invest
    Others          \* users whose transactions come from elsewhere

ASSUME ClientAssumption ==
    /\ MaxCalls \in Nat /\ Amounts \subseteq Uint(Word)
    /\ me \in Users /\ Others \subseteq Users \ {me}

VARIABLES
    blockchainState,    \* what the object knows of the contract
    call,               \* where each call is, and its local variables
    pool                \* the user's transactions that are not mined

(* Numbered in the order in which they are made.                           *)
Calls == 1 .. MaxCalls

clientVars == <<blockchainState, call, pool>>

Fields_StateLast ==
    <<"amountInvested", "collateralReceived", "fundraisingDeadline", "paybackDeadline", "loanState">>

(* The five calls of updateStateFromBlockchain, one after the other.        *)
Fields == <<"amountInvested", "collateralReceived", "fundraisingDeadline", "loanState", "paybackDeadline">>

onChain ==
    [amountInvested |-> totalAmountInvested, collateralReceived |-> receivedCollateral,
     fundraisingDeadline |-> fundraisingDeadline, loanState |-> currentState,
     paybackDeadline |-> paybackDeadline]

Unread == [f \in {Fields[i] : i \in DOMAIN Fields} |-> 0]
NoCall == [op |-> "none", at |-> "idle", amount |-> 0, reads |-> 0, seen |-> Unread, mined |-> FALSE,
           amounts |-> <<0, 0>>, reasons |-> {}]

ClientInit ==
    /\ Init
    /\ blockchainState = onChain
    /\ call = [c \in Calls |-> NoCall]
    /\ pool = << >>

(* Another Loan object is handed out, after its first update                 *)
(* (client.ts:202-218): no call of its methods is under way.                *)
loadLoans ==
    /\ "loadLoans" \in Ops
    /\ \A c \in Calls : call[c].at = "idle"
    /\ blockchainState' = onChain
    /\ UNCHANGED <<vars, call, pool>>

set(c, new) == call' = [call EXCEPT ![c] = new]
settle(c, outcome) ==
    set(c, [NoCall EXCEPT !.op = call[c].op, !.amount = call[c].amount,
                          !.reasons = call[c].reasons, !.at = outcome])

(* Send a transaction and wait for its receipt - unless sending it fails.   *)
mutate(c, current, transaction, at) ==
    \/ /\ pool' = Append(pool, [call |-> c, transaction |-> transaction])
       /\ set(c, [current EXCEPT !.at = at, !.mined = FALSE, !.reads = 0, !.seen = Unread])
    \/ /\ set(c, [current EXCEPT !.at = "rejected", !.mined = FALSE, !.reads = 0, !.seen = Unread])
       /\ UNCHANGED pool

Waiting == {"approving", "executing", "withdrawing"}

waitTxMined_Early(c) ==
    /\ call[c].at = "approving"
    /\ set(c, [call[c] EXCEPT !.mined = FALSE, !.at = "updating"])
    /\ UNCHANGED <<vars, blockchainState, pool>>

waitTxMined(c) ==
    /\ call[c].at \in Waiting /\ call[c].mined
    /\ set(c, [call[c] EXCEPT !.mined = FALSE,
                              !.at = CASE call[c].at = "approving" -> "updating"
                                       [] call[c].at = "executing" -> "confirming"
                                       [] call[c].at = "withdrawing" -> "looking"])
    /\ UNCHANGED <<vars, blockchainState, pool>>

timeout_Never(c) == FALSE

(* A minute without a receipt: the transaction may still be mined.          *)
timeout(c) ==
    /\ call[c].at \in Waiting
    /\ settle(c, "rejected")
    /\ UNCHANGED <<vars, blockchainState, pool>>

Sent(m) == [method |-> m]
Approval(token, v) == [method |-> "approve", token |-> token, value |-> v]

stateRequired == [sendCollateral |-> "CollateralCollection", invest |-> "Fundraising", payback |-> "Payback"]
methodCalled == [sendCollateral |-> "gatherCollateral", invest |-> "invest", payback |-> "payback"]

amountApproved_Whole(op, amount) == IF op = "payback" THEN paybackRequired ELSE terms.amountWanted

amountApproved(op, amount) == IF op = "payback" THEN paybackRequired ELSE amount

(* sendCollateral, invest and payback check the state the object knows,     *)
(* then approve.                                                           *)
begin(c, op, amount) ==
    /\ op \in DOMAIN methodCalled
    /\ call[c].at = "idle"
    /\ LET started == [call[c] EXCEPT !.op = op, !.amount = amount]
       IN IF blockchainState.loanState # stateRequired[op] \/ (op = "sendCollateral" /\ me # terms.borrower)
          THEN set(c, [started EXCEPT !.at = "rejected"]) /\ UNCHANGED pool
          ELSE mutate(c, started,
                      Approval(IF op = "sendCollateral" THEN CollateralToken ELSE LoanToken,
                               amountApproved(op, amount)),
                      "approving")
    /\ UNCHANGED <<vars, blockchainState>>

(* One read of updateStateFromBlockchain.  The last one assigns the object  *)
(* that was read; then comes the transaction, or the call is through.       *)
updateStateFromBlockchain(c) ==
    LET n == call[c].reads + 1
        seen == [call[c].seen EXCEPT ![Fields[n]] = onChain[Fields[n]]]
        read == [call[c] EXCEPT !.reads = n, !.seen = seen]
    IN /\ call[c].at \in {"updating", "confirming"}
       /\ \/ /\ n < Len(Fields)
             /\ set(c, read)
             /\ UNCHANGED <<blockchainState, pool>>
          \/ /\ n = Len(Fields)
             /\ blockchainState' = seen
             /\ IF call[c].at = "updating" THEN mutate(c, read, Sent(methodCalled[read.op]), "executing")
                ELSE settle(c, "resolved") /\ UNCHANGED pool
       /\ UNCHANGED vars

update(c) ==
    /\ call[c].at = "idle"
    /\ set(c, [call[c] EXCEPT !.op = "update", !.at = "confirming"])
    /\ UNCHANGED <<vars, blockchainState, pool>>

(* What the contract's withdrawable returns to the user.                    *)
withdrawableAmounts == <<canWithdrawLoanToken(me), canWithdrawCollateralToken(me)>>

unchangedAmounts_OneToken(c) == withdrawableAmounts[1] = call[c].amounts[1]

unchangedAmounts(c) == withdrawableAmounts = call[c].amounts

(* withdrawAll: withdraw until nothing changes in what can be withdrawn.    *)
withdrawAll(c) ==
    /\ \/ call[c].at = "idle"
       \/ call[c].at = "looking"
    /\ LET started == [call[c] EXCEPT !.op = "withdrawAll"]
       IN IF unchangedAmounts(c) THEN set(c, [started EXCEPT !.at = "resolved"]) /\ UNCHANGED pool
          ELSE mutate(c, [started EXCEPT !.amounts = withdrawableAmounts], Sent("withdraw"), "withdrawing")
    /\ UNCHANGED <<vars, blockchainState>>

(* possibleWithdrawals asks the contract, then looks at what the object     *)
(* knows by the time of the answer.                                        *)
possibleWithdrawals(c) ==
    /\ call[c].at = "idle"
    /\ set(c, [call[c] EXCEPT !.op = "possibleWithdrawals", !.at = "asked", !.amounts = withdrawableAmounts])
    /\ UNCHANGED <<vars, blockchainState, pool>>

collateralReason_Else(known) ==
    CASE known = "Paidback" -> "CollateralBackAfterPayback"
      [] known = "Defaulted" -> "CollateralBackAfterDefaulted"
      [] OTHER -> "CollateralBackAfterCanceled"

collateralReason(known) ==
    CASE known = "Paidback" -> "CollateralBackAfterPayback"
      [] known = "Defaulted" -> "CollateralBackAfterDefaulted"
      [] known = "Canceled" -> "CollateralBackAfterCanceled"
      [] OTHER -> "Unknown"

loanReason(known) ==
    CASE known = "Paidback" -> "LoanBackAfterPayback"
      [] known = "Canceled" -> "LoanBackAfterCanceled"
      [] OTHER -> "Unknown"

reasonsGiven(c) ==
    LET known == blockchainState.loanState
    IN (IF call[c].amounts[1] > 0 THEN {loanReason(known)} ELSE {}) \cup
       (IF call[c].amounts[2] > 0 THEN {collateralReason(known)} ELSE {})

report(c) ==
    /\ call[c].at = "asked"
    /\ set(c, [call[c] EXCEPT !.at = "resolved", !.reasons = reasonsGiven(c)])
    /\ UNCHANGED <<vars, blockchainState, pool>>

-----------------------------------------------------------------------------
(* A transaction is mined: it has its effect or is reverted.  Either way    *)
(* the call that sent it, if it has not given up, finds the receipt.       *)
execute(t) ==
    CASE t.method = "approve" -> Approve(t.token, me, t.value)
      [] t.method = "gatherCollateral" -> gatherCollateral(me)
      [] t.method = "invest" -> invest(me)
      [] t.method = "payback" -> payback(me)
      [] t.method = "withdraw" -> withdraw(me)

(* A withdrawal is reverted when its transfer is, any other transaction when *)
(* one of its checks fails.                                                *)
reverted(t) ==
    /\ IF t.method = "withdraw" THEN ~paysOut(me) ELSE ~ENABLED execute(t)
    /\ UNCHANGED vars

mine ==
    LET t == Head(pool)
    IN /\ pool # << >>
       /\ pool' = Tail(pool)
       /\ execute(t.transaction) \/ reverted(t.transaction)
       /\ IF call[t.call].at \in Waiting THEN set(t.call, [call[t.call] EXCEPT !.mined = TRUE])
          ELSE UNCHANGED call
       /\ UNCHANGED blockchainState

(* Time, and the transactions of the others.                               *)
elsewhere ==
    /\ \/ Tick
       \/ \E a \in Approvals : a[2] \in Others /\ Approve(a[1], a[2], a[3])
       \/ \E u \in Others : gatherCollateral(u) \/ invest(u) \/ payback(u) \/ withdraw(u)
    /\ UNCHANGED clientVars

start(c) ==
    /\ \A d \in 1 .. c - 1 : call[d].at # "idle"
    /\ \/ \E op \in Ops \cap DOMAIN methodCalled, amount \in Amounts : begin(c, op, amount)
       \/ "update" \in Ops /\ update(c)
       \/ "withdrawAll" \in Ops /\ call[c].at = "idle" /\ withdrawAll(c)
       \/ "possibleWithdrawals" \in Ops /\ possibleWithdrawals(c)

continue(c) ==
    \/ waitTxMined(c) \/ timeout(c)
    \/ updateStateFromBlockchain(c)
    \/ call[c].at = "looking" /\ withdrawAll(c)
    \/ report(c)

ClientNext == loadLoans \/ mine \/ elsewhere \/ \E c \in Calls : start(c) \/ continue(c)

allVars == <<vars, clientVars>>

ClientSpec == ClientInit /\ [][ClientNext]_allVars

(* The event loop goes on with the calls.  Nobody need mine a transaction.  *)
ClientFairSpec == ClientSpec /\ WF_allVars(\E c \in Calls : continue(c))

-----------------------------------------------------------------------------
Settled == {"resolved", "rejected"}
amountsAsked(op) == [c \in Calls |-> IF call[c].op = op THEN call[c].amount ELSE 0]

(* No call has two transactions under way, and it waits for the one it has. *)
ClientTypeOK ==
    /\ blockchainState.loanState \in States
    /\ \A c \in Calls :
          /\ call[c].at \in {"idle", "updating", "confirming", "looking", "asked"} \cup Waiting \cup Settled
          /\ call[c].reads \in 0 .. Len(Fields) - 1
    /\ \A i, j \in DOMAIN pool : pool[i].call = pool[j].call => i = j
    /\ \A c \in Calls : call[c].at \in Waiting =>
          (call[c].mined <=> \A i \in DOMAIN pool : pool[i].call # c)

(* The loan never takes more of the user's tokens than the user asked it to *)
(* take, however calls overlap, and although approvals of calls that gave   *)
(* up are mined late and remain; with one token in both roles it may take    *)
(* as an investment what was meant as collateral (loan.ts:246-295).          *)
TakesWhatWasAsked ==
    LET shared == LoanToken = CollateralToken /\ terms.borrower = me
        taken == amountInvested[me] + (IF shared THEN receivedCollateral ELSE 0)
        asked == Total(amountsAsked("invest")) + (IF shared THEN Total(amountsAsked("sendCollateral")) ELSE 0)
    IN /\ taken <= asked
       /\ terms.borrower = me =>
             receivedCollateral \in {0} \cup {amountsAsked("sendCollateral")[c] : c \in Calls}

(* The object never says that a loan is in Payback without its deadline,    *)
(* although it reads the two at different times and updates overlap         *)
(* (loan.ts:226-237).                                                      *)
PaybackHasDeadline ==
    blockchainState.loanState = "Payback" => blockchainState.paybackDeadline = paybackDeadline

(* A reason given for a withdrawal is the right one, although it is derived *)
(* from a state that can be out of date (loan.ts:339-376).                  *)
RightReason ==
    LET outcome(r) == CASE r \in {"CollateralBackAfterPayback", "LoanBackAfterPayback"} -> "Paidback"
                        [] r \in {"CollateralBackAfterCanceled", "LoanBackAfterCanceled"} -> "Canceled"
                        [] r = "CollateralBackAfterDefaulted" -> "Defaulted"
    IN \A c \in Calls : \A r \in call[c].reasons : r # "Unknown" => outcome(r) = currentState

(* When withdrawAll resolves there is nothing left to withdraw: both tokens *)
(* were paid out, whatever else withdrew meanwhile (loan.ts:381-395).       *)
WithdrawsAll ==
    [][\A c \in Calls :
          call'[c].op = "withdrawAll" /\ call'[c].at = "resolved" /\ call[c].at # "resolved"
             => withdrawableAmounts = <<0, 0>>]_allVars

(* Every call settles, even when no transaction is ever mined and while     *)
(* others change what there is to withdraw (loan.ts:381-395,                *)
(* blockchain.ts:239-269).                                                 *)
underWay(c) == call[c].at \notin {"idle"} \cup Settled
CallsSettle == (\E c \in Calls : underWay(c)) ~> (\A c \in Calls : ~underWay(c))

(* invest sends an investment and blocks until the new state is saved on    *)
(* the blockchain (its comment, loan.ts:270-275): once it has resolved, the  *)
(* user has invested.                                                      *)
ResolvedMeansInvested ==
    \A c \in Calls : call[c].op = "invest" /\ call[c].at = "resolved" => amountInvested[me] > 0
=============================================================================
