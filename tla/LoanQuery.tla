----------------------------- MODULE LoanQuery -----------------------------
(***************************************************************************)
(* GetLoans: the metabackend selects loans from its index and then asks the *)
(* chain about each, in goroutines that run side by side while the loans    *)
(* move on: first for their states, if the request names one, then for an   *)
(* investment.  The loans are InvestorLedger reduced to what is asked for:   *)
(* its state, which deadlines are set, and who has invested.                *)
(***************************************************************************)
EXTENDS FiniteSets, Naturals, Sequences

CONSTANTS
    Loans,          \* the loans of the index
    Users,
    borrower,       \* of each loan
    Investors,      \* the users who invest
    Nobody,         \* stands for a filter that is not set ...
    INVALID,        \* ... and for a state that is not
    Requests,       \* the requests that come in
    Faults          \* BOOLEAN: may a read of the chain or of the database fail?

VARIABLES
    state, deadlines, investors,    \* of each loan
    request,    \* the filters
    at,         \* "idle", "select", "state", "investor", "answered" or "failed"
    res,        \* the loans that passed the filters so far
    known,      \* LoanState of each: what its goroutine has read
    getter,     \* the next read of each goroutine of the present filter
    running,    \* the goroutines that have not returned
    wg,         \* the counter of the WaitGroup
    loansFiltered,  \* what is in the channel
    since,      \* history: the chain when the request came in
    fault       \* history: has a read for this request failed?

chainVars == <<state, deadlines, investors>>
filterVars == <<known, getter, running, wg, loansFiltered>>
queryVars == <<request, at, res, filterVars, since, fault>>
vars == <<chainVars, queryVars>>

States == {"CollateralCollection", "Fundraising", "Payback", "Paidback", "Defaulted", "Canceled"}
Final == {"Paidback", "Defaulted", "Canceled"}

ASSUME LoansAssumption ==
    /\ IsFiniteSet(Loans)
    /\ borrower \in [Loans -> Users] /\ Nobody \notin Users /\ Investors \subseteq Users
    /\ Requests \subseteq [owner : Users \cup {Nobody}, state : States \cup {INVALID},
                            investor : Users \cup {Nobody}]

LoanState == [state : States \cup {INVALID}, fundraisingDeadline : BOOLEAN, paybackDeadline : BOOLEAN]
Unknown == [state |-> INVALID, fundraisingDeadline |-> FALSE, paybackDeadline |-> FALSE]

Init ==
    /\ state = [l \in Loans |-> "CollateralCollection"]
    /\ deadlines = [l \in Loans |-> {}]
    /\ investors = [l \in Loans |-> {}]
    /\ request \in Requests
    /\ at = "idle" /\ res = {}
    /\ known = [l \in Loans |-> Unknown] /\ getter = [l \in Loans |-> 1]
    /\ running = {} /\ wg = 0 /\ loansFiltered = {}
    /\ since = [state |-> state, investors |-> investors]
    /\ fault = FALSE

-----------------------------------------------------------------------------
(* The chain: what a transaction, or a deadline, does to a loan.            *)
gatherCollateral(l) ==
    /\ state[l] = "CollateralCollection"
    /\ state' = [state EXCEPT ![l] = "Fundraising"]
    /\ deadlines' = [deadlines EXCEPT ![l] = @ \cup {"fundraisingDeadline"}]
    /\ UNCHANGED investors

invest(l, u) ==
    /\ state[l] = "Fundraising"
    /\ investors' = [investors EXCEPT ![l] = @ \cup {u}]
    /\ \/ UNCHANGED <<state, deadlines>>
       \/ /\ state' = [state EXCEPT ![l] = "Payback"]
          /\ deadlines' = [deadlines EXCEPT ![l] = @ \cup {"paybackDeadline"}]

payback(l) ==
    /\ state[l] = "Payback"
    /\ state' = [state EXCEPT ![l] = "Paidback"]
    /\ UNCHANGED <<deadlines, investors>>

processTimeouts(l) ==
    /\ \/ state[l] = "Fundraising" /\ state' = [state EXCEPT ![l] = "Canceled"]
       \/ state[l] = "Payback" /\ state' = [state EXCEPT ![l] = "Defaulted"]
    /\ UNCHANGED <<deadlines, investors>>

Chain ==
    /\ \E l \in Loans :
          \/ gatherCollateral(l) \/ payback(l) \/ processTimeouts(l)
          \/ \E u \in Investors : invest(l, u)
    /\ UNCHANGED queryVars

-----------------------------------------------------------------------------
(* Start one goroutine for each loan that is left, or none.                 *)
start(goroutines) ==
    /\ running' = goroutines /\ wg' = Cardinality(goroutines)
    /\ getter' = [l \in Loans |-> 1] /\ loansFiltered' = {}

filter(loans, name) == at' = name /\ res' = loans /\ start(loans)

answer(loans) == at' = "answered" /\ res' = loans /\ start({})

filterByInvestor(loans) ==
    IF request.investor # Nobody THEN filter(loans, "investor") ELSE answer(loans)

filterByState(loans) ==
    IF request.state # INVALID THEN filter(loans, "state") ELSE filterByInvestor(loans)

(* What the client library asks for.                                       *)
loansByOwner(u) == [owner |-> u, state |-> INVALID, investor |-> Nobody]
loansByState(s) == [owner |-> Nobody, state |-> s, investor |-> Nobody]
loansByInvestor(u) == [owner |-> Nobody, state |-> INVALID, investor |-> u]

GetLoans(r) ==
    /\ at \in {"idle", "answered", "failed"}
    /\ request' = r /\ at' = "select"
    /\ since' = [state |-> state, investors |-> investors] /\ fault' = FALSE
    /\ known' = [l \in Loans |-> Unknown]
    /\ res' = {} /\ start({})
    /\ UNCHANGED chainVars

(* The owner is a condition of the SELECT.                                 *)
selectJoinedLoansMetadataParameters ==
    /\ at = "select"
    /\ \/ /\ filterByState({l \in Loans : request.owner \in {Nobody, borrower[l]}})
          /\ UNCHANGED fault
       \/ /\ Faults
          /\ at' = "failed" /\ fault' = TRUE
          /\ UNCHANGED res /\ start({})
    /\ UNCHANGED <<chainVars, request, known, since>>

(* The deferred wg.Done().                                                 *)
Done(l) == running' = running \ {l} /\ wg' = wg - 1

return_NotDone(l) == running' = running \ {l} /\ UNCHANGED <<wg, loansFiltered>>

return(l) == Done(l) /\ UNCHANGED loansFiltered
send(l) == Done(l) /\ loansFiltered' = loansFiltered \cup {l}

(* A read fails: the loan is left out of the answer.                        *)
readFails(l) ==
    /\ Faults /\ l \in running
    /\ return(l)
    /\ fault' = TRUE
    /\ UNCHANGED <<chainVars, request, at, res, known, getter, since>>

Getters_StateLast == <<"fundraisingDeadline", "paybackDeadline", "state">>

Getters == <<"state", "fundraisingDeadline", "paybackDeadline">>

read(l, name) == IF name = "state" THEN state[l] ELSE name \in deadlines[l]

receiver_LoopVariable(l) == CHOOSE m \in res : TRUE

(* The loan a goroutine of either filter reads is its parameter.            *)
receiver(l) == l

LoadStateFromBlockchain(l) ==
    LET name == Getters[getter[l]]
    IN /\ at = "state" /\ l \in running
       /\ known' = [known EXCEPT ![l] = [@ EXCEPT ![name] = read(receiver(l), name)]]
       /\ \/ /\ getter[l] < Len(Getters)
             /\ getter' = [getter EXCEPT ![l] = @ + 1]
             /\ UNCHANGED <<running, wg, loansFiltered>>
          \/ /\ getter[l] = Len(Getters)
             /\ IF known'[l].state = request.state THEN send(l) ELSE return(l)
             /\ getter' = [getter EXCEPT ![l] = 1]
       /\ UNCHANGED <<chainVars, request, at, res, since, fault>>

GetInvestmentAmountFromBlockchain(l) ==
    /\ at = "investor" /\ l \in running
    /\ IF request.investor \in investors[receiver(l)] THEN send(l) ELSE return(l)
    /\ UNCHANGED <<chainVars, request, at, res, known, getter, since, fault>>

waited_Not == loansFiltered # {} \/ wg = 0

waited == wg = 0

(* wg.Wait(): what is in the channel goes on.                               *)
Wait ==
    /\ waited
    /\ \/ at = "state" /\ filterByInvestor(loansFiltered)
       \/ at = "investor" /\ answer(loansFiltered)
    /\ known' = [l \in Loans |-> IF l \in loansFiltered THEN known[l] ELSE Unknown]
    /\ UNCHANGED <<chainVars, request, since, fault>>

Run ==
    \/ selectJoinedLoansMetadataParameters \/ Wait
    \/ \E l \in Loans :
          LoadStateFromBlockchain(l) \/ GetInvestmentAmountFromBlockchain(l) \/ readFails(l)

Next == Chain \/ Run \/ \E r \in Requests : GetLoans(r)

Spec == Init /\ [][Next]_vars

(* The goroutines of a request go on.                                      *)
FairSpec == Spec /\ WF_vars(Run)

-----------------------------------------------------------------------------
TypeOK ==
    /\ state \in [Loans -> States]
    /\ deadlines \in [Loans -> SUBSET {"fundraisingDeadline", "paybackDeadline"}]
    /\ investors \in [Loans -> SUBSET Users]
    /\ request \in Requests
    /\ at \in {"idle", "select", "state", "investor", "answered", "failed"}
    /\ res \subseteq Loans /\ running \subseteq res /\ loansFiltered \subseteq res
    /\ known \in [Loans -> LoanState]
    /\ getter \in [Loans -> 1 .. 3] /\ wg \in Nat
    /\ since \in [state : [Loans -> States], investors : [Loans -> SUBSET Users]]
    /\ fault \in BOOLEAN

(* A loan in state s can come to be, or already is, in state t.             *)
Leads(s, t) ==
    \/ s = t \/ s = "CollateralCollection"
    \/ s = "Fundraising" /\ t # "CollateralCollection"
    \/ s = "Payback" /\ t \in {"Paidback", "Defaulted"}

(* The state a loan is listed with is one it had during the request: none   *)
(* it has not come to, none it had left before - although the goroutines    *)
(* read while the loans move on (model/loans.go:246-273).                   *)
ListedStateIsTrue ==
    at = "answered" /\ request.state # INVALID =>
        \A l \in res : Leads(since.state[l], known[l].state) /\ Leads(known[l].state, state[l])

(* The deadlines come after the state: a loan is never listed in a state    *)
(* without the deadline that belongs to it (model/loans.go:451-464).        *)
ListedWithDeadlines ==
    at = "answered" /\ request.state # INVALID =>
        \A l \in res :
            /\ known[l].state # "CollateralCollection" => known[l].fundraisingDeadline
            /\ known[l].state \in {"Payback", "Paidback", "Defaulted"} => known[l].paybackDeadline

(* What matched a request throughout is listed, whatever the other loans    *)
(* and goroutines did, unless a read failed (model/loans.go:246-302).       *)
NothingIsMissed ==
    at = "answered" /\ ~fault =>
        \A l \in Loans :
            /\ request.owner \in {Nobody, borrower[l]}
            /\ request.state = INVALID \/ (since.state[l] = request.state /\ state[l] = request.state)
            /\ request.investor = Nobody \/ request.investor \in since.investors[l]
            => l \in res

(* Every request is answered, or fails, also when reads fail: no WaitGroup  *)
(* waits for a goroutine that has returned (model/loans.go:254-258).        *)
EveryRequestEnds == at = "select" ~> at \in {"answered", "failed"}
=============================================================================
