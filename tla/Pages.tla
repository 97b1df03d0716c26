-------------------------------- MODULE Pages --------------------------------
(***************************************************************************)
(* The pages that list loans and the two Vuex modules behind them, my-loans  *)
(* and invest: components that ask for lists when they are created, answers *)
(* that come in any order, transfers that go on when the user has left the  *)
(* page, and the requests that their ends start.                            *)
(***************************************************************************)
CONSTANTS
    Loans,
    MyLoans,        \* those whose owner is the user
    Requests,       \* bound: the requests that can be under way at once
    None,
    Sessions        \* bound: where a user finds the loans, and the pages he goes to

Lists == {"loan-list", "my-investments", "my-loans", "elsewhere"}
Routes == Lists \cup Loans
Kinds == {"myLoans", "loanList", "myInvestments", "loan"}
States == {"CollateralCollection", "Fundraising", "Payback", "Paidback", "Defaulted", "Canceled"}
Finished == {"Canceled", "Paidback", "Defaulted"}

(* What is shown of a loan, an answer that says it of some loans, a request  *)
(* and a transfer.                                                          *)
Tile == SUBSET ({"tile", "collateral", "fundraising", "payback",
                 "sendingCollateral", "sendingPayback", "withdrawals"} \cup States)
Answer(S) == [S -> Tile]
RequestState(S) == [kind : Kinds, loan : Loans \cup {None}, answer : Answer(S) \cup {None}]
TransferState == [op : {"collateral", "payback", "withdraw", "invest"}, loan : Loans, mined : BOOLEAN]

ASSUME LoansAssumption == MyLoans \subseteq Loans /\ Loans \cap Lists = {}
ASSUME NoneAssumption ==
    /\ None \notin Loans \cup TransferState
    /\ \A S \in SUBSET Loans : None \notin Answer(S) \cup RequestState(S)
ASSUME SessionsAssumption ==
    Sessions \subseteq [loanState : [Loans -> States], invested : SUBSET Loans, pages : SUBSET Routes]

VARIABLES
    loanState, invested, paid,  \* of the contracts: the state, where the user invested, was paid
    route,          \* the path; a loan stands for its page
    myLoansList, myLoansLoading, myLoansError,              \* store/my-loans
    activeLoan, activeLoading,                              \* store/invest
    pendingInvestments, activeInvestments, finishedInvestments,
    investLoading, investError,
    isSending,      \* the tiles, or the page of a loan, whose button a spinner replaces
    request,        \* for each request its kind, loan and answer
    transfer,       \* the transfer that is under way
    late,           \* history: requests older than what they are to replace
    shown,          \* history: what is shown of each kind, relative to what was asked for
    pages,          \* bound: where the user goes
    reverted        \* history: a transaction that was mined changed nothing

chainVars == <<loanState, invested, paid>>
myLoansVars == <<myLoansList, myLoansLoading, myLoansError>>
activeVars == <<activeLoan, activeLoading>>
investmentVars == <<pendingInvestments, activeInvestments, finishedInvestments>>
investVars == <<activeVars, investmentVars, investLoading, investError>>
pagesVars == <<chainVars, route, myLoansVars, investVars, isSending, request, transfer, late, shown, reverted, pages>>

Moves == {<<"CollateralCollection", "Fundraising">>, <<"Fundraising", "Payback">>, <<"Fundraising", "Canceled">>,
          <<"Payback", "Paidback">>, <<"Payback", "Defaulted">>}

(* The user's entitlement: the borrower gets the collateral back, and an    *)
(* investor what he put in or the collateral.                              *)
due(l) ==
    /\ l \notin paid
    /\ \/ l \in MyLoans /\ loanState[l] \in {"Canceled", "Paidback"}
       \/ l \in invested /\ loanState[l] \in Finished

PagesInit ==
    /\ \E s \in Sessions : loanState = s.loanState /\ invested = s.invested /\ pages = s.pages
    /\ paid = {}
    /\ route = "elsewhere"
    /\ myLoansList = [l \in MyLoans |-> {}] /\ myLoansLoading = FALSE /\ myLoansError = FALSE
    /\ activeLoan = None /\ activeLoading = FALSE
    /\ pendingInvestments = {} /\ activeInvestments = {} /\ finishedInvestments = {}
    /\ investLoading = FALSE /\ investError = FALSE
    /\ isSending = {} /\ transfer = None
    /\ request = [r \in Requests |-> None]
    /\ late = {} /\ shown = [k \in Kinds |-> "fresh"] /\ reverted = FALSE

(* What a page shows: an error, a spinner, or its content.                  *)
view(error, loading) == IF error THEN "error" ELSE IF loading THEN "spinner" ELSE "content"

MyLoansView == view(myLoansError, myLoansLoading)
InvestView == view(investError, investLoading)          \* of both lists
InvestmentView == view(investError, activeLoading)

(* The loans for which the page has a button of WithdrawalButton, or the    *)
(* INVEST button of Investment.                                            *)
buttons ==
    CASE route = "my-loans" /\ MyLoansView = "content" ->
            {l \in MyLoans : "withdrawals" \in myLoansList[l]}
      [] route = "my-investments" /\ InvestView = "content" ->
            {l \in Loans : <<l, TRUE>> \in pendingInvestments \cup activeInvestments \cup finishedInvestments}
      [] route \in Loans /\ InvestmentView = "content" -> {route}
      [] OTHER -> {}

(* A component keeps its state until another page, a spinner or an error     *)
(* replaces it.                                                            *)
rendered == isSending' = IF route' = route THEN isSending \cap buttons' ELSE {}

free(r) == request[r] = None
asking(r, kind) == ~free(r) /\ request[r].kind = kind
underWay(kind) == {r \in Requests : asking(r, kind)}

ask(r, kind, l) == [request EXCEPT ![r] = [kind |-> kind, loan |-> l, answer |-> None]]

-----------------------------------------------------------------------------
(* What the dispatch of each GET action commits at once; r is a request.    *)
REQUEST_MY_LOANS == myLoansLoading' = TRUE /\ UNCHANGED <<myLoansList, myLoansError>>

REQUEST_MY_INVESTMENTS ==
    investLoading' = TRUE /\ investError' = FALSE /\ UNCHANGED <<activeVars, investmentVars>>

REQUEST_LOAN_TO_INVEST ==
    activeLoading' = TRUE /\ UNCHANGED <<activeLoan, investmentVars, investLoading, investError>>

createMyLoans(r) ==
    /\ route' = "my-loans"
    /\ REQUEST_MY_LOANS /\ request' = ask(r, "myLoans", None)
    /\ UNCHANGED <<investVars, late, shown>>

createLoanList(r) ==
    /\ route' = "loan-list"
    /\ REQUEST_MY_INVESTMENTS /\ request' = ask(r, "loanList", None)
    /\ UNCHANGED <<myLoansVars, late, shown>>

createMyInvestments(r) ==
    /\ route' = "my-investments"
    /\ REQUEST_MY_INVESTMENTS /\ request' = ask(r, "myInvestments", None)
    /\ UNCHANGED <<myLoansVars, late, shown>>

(* A click on a row of the list; the page asks for the loan in its path.    *)
createInvestment_OnlyTheFirst(l, r) ==
    /\ IF activeLoan = None THEN REQUEST_LOAN_TO_INVEST /\ request' = ask(r, "loan", l)
       ELSE UNCHANGED <<investVars, request>>
    /\ UNCHANGED <<late, shown>>

createInvestment(l, r) ==
    /\ REQUEST_LOAN_TO_INVEST /\ request' = ask(r, "loan", l)
    /\ late' = late \cup underWay("loan")
    /\ shown' = [shown EXCEPT !["loan"] = "old"]

goToLoan(l, r) ==
    /\ route = "loan-list" /\ InvestView = "content"
    /\ route' = l
    /\ createInvestment(l, r)
    /\ UNCHANGED myLoansVars

leave == route' = "elsewhere" /\ UNCHANGED <<myLoansVars, investVars, request, late, shown>>

(* The user follows a link of the top panel, the invest bar or the list      *)
(* (bound: not while two requests or more are under way).                   *)
visit(r) ==
    /\ free(r) /\ \E s \in Requests \ {r} : free(s)
    /\ \/ createMyLoans(r) \/ createLoanList(r) \/ createMyInvestments(r) \/ leave
       \/ \E l \in Loans : goToLoan(l, r)
    /\ route' # route /\ route' \in pages
    /\ UNCHANGED <<chainVars, transfer, reverted, pages>>
    /\ rendered

-----------------------------------------------------------------------------
(* What the api functions answer: getMyLoans gives every loan of the user   *)
(* what its tile is to show, getMyInvestments the states of those he        *)
(* invested in, the others what never changes.                              *)
SectionOf == [CollateralCollection |-> {"collateral"}, Fundraising |-> {"fundraising"},
              Payback |-> {"payback"}, Paidback |-> {}, Defaulted |-> {}, Canceled |-> {}]

getMyLoans ==
    [l \in MyLoans |-> {"tile"} \cup SectionOf[loanState[l]] \cup {s \in {"withdrawals"} : due(l)}]

getMyInvestments == [l \in invested |-> {loanState[l]} \cup {s \in {"withdrawals"} : due(l)}]

(* A request reads the chain at one moment, and its answer is kept on the    *)
(* way; what the other kinds read does not change.                          *)
read(r) ==
    /\ \/ asking(r, "myLoans") /\ request[r].answer = None
          /\ request' = [request EXCEPT ![r].answer = getMyLoans]
       \/ asking(r, "myInvestments") /\ request[r].answer = None
          /\ request' = [request EXCEPT ![r].answer = getMyInvestments]
    /\ UNCHANGED <<chainVars, route, myLoansVars, investVars, isSending, transfer, late, shown, reverted, pages>>

(* The end of a request; an answer shows something new, unless the request   *)
(* is older than what it was to replace.                                    *)
finished(r) == request' = [request EXCEPT ![r] = None] /\ late' = late \ {r}

answered(r) ==
    /\ finished(r)
    /\ shown' = [shown EXCEPT ![request[r].kind] = IF r \in late THEN "excused" ELSE "fresh"]

rejected(r) ==
    /\ finished(r)
    /\ shown' = [shown EXCEPT ![request[r].kind] = "excused"]

RECEIVE_MY_LOANS(r) ==
    /\ asking(r, "myLoans") /\ request[r].answer # None
    /\ myLoansList' = request[r].answer /\ myLoansLoading' = FALSE
    /\ UNCHANGED <<myLoansError, investVars>>

RECEIVE_LOANS_TO_INVEST(r) ==
    /\ asking(r, "loanList")
    /\ investLoading' = FALSE
    /\ UNCHANGED <<myLoansVars, activeVars, investmentVars, investError>>

RECEIVE_LOAN_TO_INVEST(r) ==
    /\ asking(r, "loan")
    /\ activeLoan' = request[r].loan /\ activeLoading' = FALSE
    /\ UNCHANGED <<myLoansVars, investmentVars, investLoading, investError>>

(* The investments by the state of their loans; a tile has a button when     *)
(* there is something to withdraw.                                          *)
RECEIVED_MY_INVESTMENTS(r) ==
    LET answer == request[r].answer
        tiles(states) == {<<l, "withdrawals" \in answer[l]>> : l \in {i \in DOMAIN answer : answer[i] \cap states # {}}}
    IN /\ asking(r, "myInvestments") /\ answer # None
       /\ investLoading' = FALSE
       /\ pendingInvestments' = tiles({"Fundraising"})
       /\ activeInvestments' = tiles({"Payback"})
       /\ finishedInvestments' = tiles(Finished)
       /\ UNCHANGED <<myLoansVars, activeVars, investError>>

receive(r) ==
    /\ \/ RECEIVE_MY_LOANS(r) \/ RECEIVE_LOANS_TO_INVEST(r)
       \/ RECEIVE_LOAN_TO_INVEST(r) \/ RECEIVED_MY_INVESTMENTS(r)
    /\ answered(r)
    /\ UNCHANGED <<chainVars, route, transfer, reverted, pages>>
    /\ rendered

REJECT_MY_LOANS_REQUEST_KeepsLoading(r) ==
    /\ asking(r, "myLoans")
    /\ UNCHANGED <<myLoansVars, investVars>>

REJECT_MY_LOANS_REQUEST(r) ==
    /\ asking(r, "myLoans")
    /\ myLoansLoading' = FALSE /\ myLoansError' = TRUE
    /\ UNCHANGED <<myLoansList, investVars>>

(* The error view replaces whatever page of the invest module is shown.     *)
REJECT_INVEST_REQUEST(r) ==
    /\ ~free(r) /\ ~asking(r, "myLoans")
    /\ investError' = TRUE
    /\ UNCHANGED <<myLoansVars, activeVars, investmentVars, investLoading>>

reject(r) ==
    /\ REJECT_MY_LOANS_REQUEST(r) \/ REJECT_INVEST_REQUEST(r)
    /\ rejected(r)
    /\ UNCHANGED <<chainVars, route, transfer, reverted, pages>>
    /\ rendered

-----------------------------------------------------------------------------
(* A click on one of the buttons starts a transfer, at most one at a time    *)
(* (bound); what the tile shows of it is in the store, or in its component;  *)
patchTile(l, without, with) ==
    myLoansList' = IF l \in MyLoans /\ "tile" \in myLoansList[l]
                   THEN [myLoansList EXCEPT ![l] = (@ \ without) \cup with]
                   ELSE myLoansList

begin(op, l) == transfer' = [op |-> op, loan |-> l, mined |-> FALSE]

START_TRANSFERING_ShowsTheEnd(l) ==
    /\ route = "my-loans" /\ MyLoansView = "content"
    /\ "collateral" \in myLoansList[l]
    /\ begin("collateral", l) /\ patchTile(l, {"collateral"}, {"fundraising"})
    /\ UNCHANGED isSending

START_TRANSFERING(l) ==
    /\ route = "my-loans" /\ MyLoansView = "content"
    /\ \/ /\ "collateral" \in myLoansList[l] /\ "sendingCollateral" \notin myLoansList[l]
          /\ begin("collateral", l) /\ patchTile(l, {}, {"sendingCollateral"})
       \/ /\ "payback" \in myLoansList[l] /\ "sendingPayback" \notin myLoansList[l]
          /\ begin("payback", l) /\ patchTile(l, {}, {"sendingPayback"})
    /\ UNCHANGED isSending

transferWithdrawal(l) ==
    /\ route \notin Loans
    /\ begin("withdraw", l)
    /\ UNCHANGED myLoansList

clickInvest(l) ==
    /\ route = l
    /\ begin("invest", l)
    /\ UNCHANGED myLoansList

click ==
    /\ transfer = None
    /\ \/ \E l \in MyLoans : START_TRANSFERING(l)
       \/ \E l \in buttons \ isSending :
            /\ transferWithdrawal(l) \/ clickInvest(l)
            /\ isSending' = isSending \cup {l}
    /\ UNCHANGED <<chainVars, route, myLoansLoading, myLoansError, investVars, request, late, shown, reverted, pages>>

(* What the contract does when its transaction is mined, unless it reverts:  *)
(* the deadline has passed, somebody was faster, a sum does not fit.         *)
effect(op, l) ==
    \/ /\ op = "collateral" /\ loanState[l] = "CollateralCollection"
       /\ loanState' = [loanState EXCEPT ![l] = "Fundraising"] /\ UNCHANGED <<invested, paid>>
    \/ /\ op = "payback" /\ loanState[l] = "Payback"
       /\ loanState' = [loanState EXCEPT ![l] = "Paidback"] /\ UNCHANGED <<invested, paid>>
    \/ /\ op = "invest" /\ loanState[l] = "Fundraising"
       /\ invested' = invested \cup {l} /\ UNCHANGED <<loanState, paid>>
    \/ /\ op = "withdraw" /\ due(l)
       /\ paid' = paid \cup {l} /\ UNCHANGED <<loanState, invested>>

mined ==
    /\ transfer # None /\ ~transfer.mined
    /\ transfer' = [transfer EXCEPT !.mined = TRUE]
    /\ \/ effect(transfer.op, transfer.loan) /\ UNCHANGED reverted
       \/ reverted' = TRUE /\ UNCHANGED chainVars
    /\ UNCHANGED <<route, myLoansVars, investVars, isSending, request, late, shown, pages>>

(* Everybody else, and the clock.                                           *)
move(l) ==
    /\ \E to \in States :
         <<loanState[l], to>> \in Moves /\ loanState' = [loanState EXCEPT ![l] = to]
    /\ UNCHANGED <<invested, paid, route, myLoansVars, investVars, isSending, request, transfer, late, shown, reverted, pages>>

(* The lists in which the transfer shows are asked for again; what was read  *)
(* before is late.                                                          *)
outdates(kinds) ==
    /\ late' = late \cup {r \in Requests : \E k \in kinds : asking(r, k) /\ request[r].answer # None}
    /\ shown' = [k \in Kinds |-> IF k \in kinds THEN "old" ELSE shown[k]]

(* The patch of the tile, onSuccess refreshes only the balance.             *)
COLLATERAL_TRANSFERED(l) ==
    /\ patchTile(l, {"collateral", "sendingCollateral"}, {"fundraising"})
    /\ UNCHANGED <<myLoansLoading, myLoansError, investVars, request, late, shown>>

PAYBACK_TRANSFERED(l, r) ==
    /\ patchTile(l, {"fundraising", "sendingPayback", "collateral", "sendingCollateral"}, {})
    /\ free(r) /\ request' = ask(r, "myLoans", None)
    /\ myLoansLoading' = TRUE
    /\ outdates({"myLoans"})
    /\ UNCHANGED <<myLoansError, investVars>>

withdrawn_MyLoansOnly(r, s) ==
    /\ free(r) /\ free(s) /\ r # s
    /\ request' = [ask(r, "myLoans", None) EXCEPT ![s] = None]
    /\ REQUEST_MY_LOANS
    /\ outdates({"myLoans", "myInvestments"})
    /\ UNCHANGED investVars

withdrawn(r, s) ==
    /\ free(r) /\ free(s) /\ r # s
    /\ request' = [ask(r, "myLoans", None) EXCEPT ![s] = ask(s, "myInvestments", None)[s]]
    /\ REQUEST_MY_LOANS /\ REQUEST_MY_INVESTMENTS
    /\ outdates({"myLoans", "myInvestments"})

(* The loan that was invested in is asked for, whatever page is shown.      *)
investedIn(l, r) ==
    /\ free(r) /\ request' = ask(r, "loan", l)
    /\ REQUEST_LOAN_TO_INVEST
    /\ IF route = l THEN /\ late' = late \cup underWay("loan")
                        /\ shown' = [shown EXCEPT !["loan"] = "old"]
       ELSE late' = late \cup {r} /\ UNCHANGED shown
    /\ UNCHANGED myLoansVars

resolve ==
    /\ transfer # None /\ transfer.mined
    /\ transfer' = None
    /\ LET op == transfer.op
           l == transfer.loan
       IN \/ op = "collateral" /\ COLLATERAL_TRANSFERED(l)
          \/ op = "payback" /\ \E r \in Requests : PAYBACK_TRANSFERED(l, r)
          \/ op = "withdraw" /\ \E r, s \in Requests : withdrawn(r, s)
          \/ op = "invest" /\ \E r \in Requests : investedIn(l, r)
    /\ UNCHANGED <<chainVars, route, reverted, pages>>
    /\ rendered

(* The user refuses to sign, the node fails, waitTxMined gives up: nothing   *)
(* is reset, not even by the handler that WithdrawalButton has.             *)
fail ==
    /\ transfer # None /\ transfer' = None
    /\ UNCHANGED <<chainVars, route, myLoansVars, investVars, isSending, request, late, shown, reverted, pages>>

PagesNext ==
    \/ click \/ mined \/ resolve \/ fail
    \/ \E l \in Loans : move(l)
    \/ \E r \in Requests : visit(r) \/ read(r) \/ receive(r) \/ reject(r)

PagesSpec == PagesInit /\ [][PagesNext]_pagesVars

-----------------------------------------------------------------------------
PagesTypeOK ==
    /\ loanState \in [Loans -> States] /\ invested \subseteq Loans /\ paid \subseteq Loans
    /\ route \in Routes /\ isSending \subseteq buttons
    /\ myLoansList \in Answer(MyLoans) /\ myLoansLoading \in BOOLEAN /\ myLoansError \in BOOLEAN
    /\ activeLoan \in Loans \cup {None} /\ activeLoading \in BOOLEAN
    /\ \A tiles \in {pendingInvestments, activeInvestments, finishedInvestments} :
          tiles \subseteq Loans \X BOOLEAN
    /\ investLoading \in BOOLEAN /\ investError \in BOOLEAN /\ reverted \in BOOLEAN
    /\ DOMAIN request = Requests
    /\ \A r \in Requests : free(r) \/ \E S \in SUBSET Loans : request[r] \in RequestState(S)
    /\ \A r \in Requests : asking(r, "myLoans") => request[r] \in RequestState(MyLoans)
    /\ transfer \in TransferState \cup {None}
    /\ late \subseteq {r \in Requests : ~free(r)}
    /\ shown \in [Kinds -> {"fresh", "old", "excused"}]

(* A spinner is never left without a request that will take it away, or an   *)
(* error in its place; a loan that a rejected or a late answer left loading  *)
(* is excused (store/my-loans/mutations.ts:4-14, store/invest/              *)
(* mutations.ts:8-40).                                                      *)
SpinnerMeansRequest ==
    /\ MyLoansView = "spinner" => underWay("myLoans") # {}
    /\ InvestView = "spinner" => underWay("loanList") \cup underWay("myInvestments") # {}
    /\ InvestmentView = "spinner" /\ shown["loan"] # "excused" => underWay("loan") # {}

(* After a payback or a withdrawal the lists it shows in were read after it, *)
(* or such a request is under way, or failed, or an older answer overtook it *)
(* (Payback.vue:65-68, WithdrawalButton.vue:81-84, store/my-loans/           *)
(* actions.ts:9-39); the same of a loan's page and the loan in its path.     *)
FreshAfterTransfer ==
    \A k \in Kinds : shown[k] = "old" => underWay(k) \ late # {}

(* Unless another loan's answer came last, or the request failed, the page   *)
(* shows the loan that INVEST on it invests in (InvestmentWrapper.vue:28-31, *)
(* Investment.vue:106-110).                                                 *)
ShowsTheLoanAskedFor ==
    route \in Loans /\ InvestmentView = "content" /\ shown["loan"] # "excused" => activeLoan = route

(* As long as no transaction reverted - its receipt is not looked at - no    *)
(* tile is ahead of its contract (store/my-loans/actions.ts:20-39,          *)
(* store/my-loans/mutations.ts:26-69, my-loans.ts:22-40).                    *)
TilesNeverAhead ==
    ~reverted => \A l \in MyLoans :
        /\ "fundraising" \in myLoansList[l] => loanState[l] # "CollateralCollection"
        /\ "payback" \in myLoansList[l] => loanState[l] \in {"Payback", "Paidback", "Defaulted"}
        /\ "withdrawals" \in myLoansList[l] => l \in paid \/ due(l)
=============================================================================
