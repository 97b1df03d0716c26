---------------------------- MODULE Pages_proofs ----------------------------
(***************************************************************************)
(* What the pages show, for any loans, any number of requests under way and  *)
(* any session: spinners end, transfers show, and tiles are not ahead.       *)
(***************************************************************************)
EXTENDS Pages, TLAPS

(* Not only what is shown: whatever is loading has a request that loads it.  *)
LoadingMeansRequest ==
    /\ myLoansLoading /\ ~myLoansError => underWay("myLoans") # {}
    /\ investLoading /\ ~investError => underWay("loanList") \cup underWay("myInvestments") # {}
    /\ activeLoading /\ shown["loan"] # "excused" => underWay("loan") # {}

(* On the page of a loan, every request for a loan that is not late is for   *)
(* that loan.                                                               *)
RouteIsAskedFor ==
    route \in Loans =>
        /\ \A r \in underWay("loan") \ late : request[r].loan = route
        /\ ~activeLoading /\ shown["loan"] # "excused" => activeLoan = route

(* A set of marks that the contract justifies.                              *)
Justified(l, tile) ==
    /\ "fundraising" \in tile => loanState[l] # "CollateralCollection"
    /\ "payback" \in tile => loanState[l] \in {"Payback", "Paidback", "Defaulted"}
    /\ "withdrawals" \in tile => l \in paid \/ due(l)

(* Neither what is shown nor what is on its way to be shown is ahead.        *)
ListNotAhead == \A l \in MyLoans : Justified(l, myLoansList[l])

AnswersNotAhead ==
    \A r \in underWay("myLoans") : request[r].answer # None =>
        \A l \in MyLoans : Justified(l, request[r].answer[l])

CollateralSent ==
    transfer # None /\ transfer.op = "collateral" /\ transfer.mined =>
        loanState[transfer.loan] # "CollateralCollection"

NeverAhead == ~reverted => ListNotAhead /\ AnswersNotAhead /\ CollateralSent

PagesInv ==
    PagesTypeOK /\ LoadingMeansRequest /\ FreshAfterTransfer /\ RouteIsAskedFor /\ NeverAhead

-----------------------------------------------------------------------------
(* Asking, answering and ending requests.                                   *)

LEMMA Asked ==
  ASSUME PagesTypeOK, NEW r \in Requests, free(r), NEW k \in Kinds, NEW l \in Loans \cup {None},
         request' = ask(r, k, l)
  PROVE  /\ DOMAIN request' = Requests
         /\ request'[r] = [kind |-> k, loan |-> l, answer |-> None] /\ request'[r] # None
         /\ \A S \in SUBSET Loans : request'[r] \in RequestState(S)
         /\ \A q \in Requests \ {r} : request'[q] = request[q]
         /\ r \notin late
         /\ \A j \in Kinds : r \notin underWay(j)
         /\ underWay(k)' = underWay(k) \cup {r}
         /\ \A j \in Kinds \ {k} : underWay(j)' = underWay(j)
<1>1. DOMAIN request = Requests /\ request[r] = None /\ r \notin late
  BY DEF PagesTypeOK, free
<1>2. /\ DOMAIN request' = Requests
      /\ request'[r] = [kind |-> k, loan |-> l, answer |-> None]
      /\ \A q \in Requests \ {r} : request'[q] = request[q]
  BY <1>1 DEF ask
<1>3. \A S \in SUBSET Loans : request'[r] \in RequestState(S)
  BY <1>2 DEF RequestState
<1>4. request'[r] # None
  BY <1>3, NoneAssumption
<1>5. \A j \in Kinds : r \notin underWay(j)
  BY <1>1 DEF underWay, asking, free
<1>6. \A j \in Kinds, q \in Requests \ {r} : q \in underWay(j)' <=> q \in underWay(j)
  BY <1>2 DEF underWay, asking, free
<1>7. \A j \in Kinds : r \in underWay(j)' <=> j = k
  BY <1>2, <1>4 DEF underWay, asking, free
<1>8. \A j \in Kinds : underWay(j)' \subseteq Requests /\ underWay(j) \subseteq Requests
  BY DEF underWay
<1>9. underWay(k)' = underWay(k) \cup {r}
  BY <1>6, <1>7, <1>8
<1>10. ASSUME NEW j \in Kinds \ {k} PROVE underWay(j)' = underWay(j)
  BY <1>5, <1>6, <1>7, <1>8
<1> QED
  BY <1>1, <1>2, <1>3, <1>4, <1>5, <1>9, <1>10

LEMMA AskedAnswers ==
  ASSUME PagesTypeOK, NEW r \in Requests, free(r), NEW k \in Kinds, NEW l \in Loans \cup {None},
         request' = ask(r, k, l)
  PROVE  \A q \in Requests : request'[q] = request[q] \/ request'[q].answer = None
<1>1. /\ request'[r] = [kind |-> k, loan |-> l, answer |-> None]
      /\ \A q \in Requests \ {r} : request'[q] = request[q]
  BY Asked
<1> QED
  BY <1>1

LEMMA Ended ==
  ASSUME PagesTypeOK, NEW r \in Requests, request' = [request EXCEPT ![r] = None]
  PROVE  /\ DOMAIN request' = Requests /\ request'[r] = None
         /\ \A q \in Requests \ {r} : request'[q] = request[q]
         /\ \A j \in Kinds : underWay(j)' = underWay(j) \ {r}
<1>1. /\ DOMAIN request' = Requests /\ request'[r] = None
      /\ \A q \in Requests \ {r} : request'[q] = request[q]
  BY DEF PagesTypeOK
<1>2. \A j \in Kinds, q \in Requests : q \in underWay(j)' <=> q \in underWay(j) \ {r}
  BY <1>1 DEF underWay, asking, free
<1>3. \A j \in Kinds : underWay(j)' \subseteq Requests /\ underWay(j) \subseteq Requests
  BY DEF underWay
<1> QED
  BY <1>1, <1>2, <1>3

(* The moment at which a request reads.                                     *)
LEMMA ReadAt ==
  ASSUME PagesTypeOK, NEW r \in Requests, read(r)
  PROVE  /\ DOMAIN request' = Requests
         /\ \A q \in Requests \ {r} : request'[q] = request[q]
         /\ ~free(r) /\ request[r].answer = None
         /\ \/ asking(r, "myLoans") /\ request'[r] = [request[r] EXCEPT !.answer = getMyLoans]
            \/ asking(r, "myInvestments") /\ request'[r] = [request[r] EXCEPT !.answer = getMyInvestments]
BY DEF read, PagesTypeOK, asking

(* What a request reads is about loans, and its own.                        *)
LEMMA AnswerType ==
  ASSUME PagesTypeOK
  PROVE  getMyLoans \in Answer(MyLoans) /\ getMyInvestments \in Answer(invested)
<1>1. \A l \in MyLoans : {"tile"} \cup SectionOf[loanState[l]] \cup {s \in {"withdrawals"} : due(l)} \in Tile
  BY LoansAssumption DEF PagesTypeOK, SectionOf, States, Tile
<1>2. \A l \in invested : {loanState[l]} \cup {s \in {"withdrawals"} : due(l)} \in Tile
  BY DEF PagesTypeOK, Tile
<1> QED
  BY <1>1, <1>2 DEF getMyLoans, getMyInvestments, Answer

LEMMA ReadType ==
  ASSUME PagesTypeOK, NEW r \in Requests, read(r)
  PROVE  /\ \E S \in SUBSET Loans : request'[r] \in RequestState(S)
         /\ asking(r, "myLoans") => request'[r] \in RequestState(MyLoans)
         /\ ~free(r)' /\ request'[r].kind = request[r].kind /\ request'[r].loan = request[r].loan
         /\ request'[r].answer # None
         /\ \A j \in Kinds : underWay(j)' = underWay(j)
<1>1. PICK S \in SUBSET Loans : request[r] \in RequestState(S)
  BY ReadAt DEF PagesTypeOK
<1>2. \A T \in SUBSET Loans : \A a \in Answer(T) :
         LET new == [request[r] EXCEPT !.answer = a]
         IN new \in RequestState(T) /\ new.kind = request[r].kind /\ new.loan = request[r].loan /\ new.answer = a
  BY <1>1 DEF RequestState
<1>3. MyLoans \in SUBSET Loans /\ invested \in SUBSET Loans
  BY LoansAssumption DEF PagesTypeOK
<1>4. /\ \E T \in SUBSET Loans : request'[r] \in RequestState(T) /\ request'[r].answer \in Answer(T)
      /\ asking(r, "myLoans") => request'[r] \in RequestState(MyLoans)
      /\ request'[r].kind = request[r].kind /\ request'[r].loan = request[r].loan
  <2>1. CASE asking(r, "myLoans") /\ request'[r] = [request[r] EXCEPT !.answer = getMyLoans]
    BY <1>2, <1>3, <2>1, AnswerType
  <2>2. CASE asking(r, "myInvestments") /\ request'[r] = [request[r] EXCEPT !.answer = getMyInvestments]
    BY <1>2, <1>3, <2>2, AnswerType DEF asking
  <2> QED
    BY <2>1, <2>2, ReadAt
<1>5. request'[r] # None /\ request'[r].answer # None
  BY <1>4, NoneAssumption
<1>6. \A j \in Kinds, q \in Requests : q \in underWay(j)' <=> q \in underWay(j)
  BY <1>4, <1>5, ReadAt DEF underWay, asking, free
<1>7. \A j \in Kinds : underWay(j)' \subseteq Requests /\ underWay(j) \subseteq Requests
  BY DEF underWay
<1> QED
  BY <1>4, <1>5, <1>6, <1>7 DEF free

-----------------------------------------------------------------------------
(* The type invariant.                                                      *)

LEMMA Rendered == rendered => isSending' \subseteq buttons'
BY DEF rendered

LEMMA SameButtons ==
  ASSUME UNCHANGED <<route, myLoansLoading, myLoansError, investVars>>,
         \A l \in MyLoans : "withdrawals" \in myLoansList'[l] <=> "withdrawals" \in myLoansList[l]
  PROVE  buttons' = buttons
<1>1. UNCHANGED <<MyLoansView, InvestView, InvestmentView>>
  BY DEF MyLoansView, InvestView, InvestmentView, investVars, activeVars
<1>2. {l \in MyLoans : "withdrawals" \in myLoansList'[l]} = {l \in MyLoans : "withdrawals" \in myLoansList[l]}
  OBVIOUS
<1> QED
  BY <1>1, <1>2 DEF buttons, investVars, investmentVars

LEMMA PatchType ==
  ASSUME PagesTypeOK, NEW l \in Loans,
         NEW without \in Tile, NEW with \in Tile, patchTile(l, without, with)
  PROVE  /\ myLoansList' \in Answer(MyLoans)
         /\ \A m \in MyLoans \ {l} : myLoansList'[m] = myLoansList[m]
         /\ l \in MyLoans => myLoansList'[l] \in {myLoansList[l], (myLoansList[l] \ without) \cup with}
<1>1. myLoansList \in [MyLoans -> Tile]
  BY DEF PagesTypeOK, Answer
<1>2. \A m \in MyLoans : (myLoansList[m] \ without) \cup with \in Tile
  BY <1>1 DEF Tile
<1> QED
  BY <1>1, <1>2 DEF patchTile, Answer

(* The invariant's parts that a step of the requests, of the stores and of   *)
(* the transfer can disturb.                                                *)
RequestsOK ==
    /\ DOMAIN request = Requests
    /\ \A r \in Requests : free(r) \/ \E S \in SUBSET Loans : request[r] \in RequestState(S)
    /\ \A r \in Requests : asking(r, "myLoans") => request[r] \in RequestState(MyLoans)
    /\ late \subseteq {r \in Requests : ~free(r)}
    /\ shown \in [Kinds -> {"fresh", "old", "excused"}]

StoresOK ==
    /\ myLoansList \in Answer(MyLoans) /\ myLoansLoading \in BOOLEAN /\ myLoansError \in BOOLEAN
    /\ activeLoan \in Loans \cup {None} /\ activeLoading \in BOOLEAN
    /\ \A tiles \in {pendingInvestments, activeInvestments, finishedInvestments} :
          tiles \subseteq Loans \X BOOLEAN
    /\ investLoading \in BOOLEAN /\ investError \in BOOLEAN

ChainOK == loanState \in [Loans -> States] /\ invested \subseteq Loans /\ paid \subseteq Loans

LEMMA TypeParts ==
    PagesTypeOK <=> /\ RequestsOK /\ StoresOK /\ ChainOK
                    /\ route \in Routes /\ isSending \subseteq buttons
                    /\ reverted \in BOOLEAN /\ transfer \in TransferState \cup {None}
BY DEF PagesTypeOK, RequestsOK, StoresOK, ChainOK

LEMMA TypePartsNext ==
  ASSUME RequestsOK', StoresOK', ChainOK', route' \in Routes, isSending' \subseteq buttons',
         reverted' \in BOOLEAN, transfer' \in TransferState \cup {None}
  PROVE  PagesTypeOK'
BY DEF PagesTypeOK, RequestsOK, StoresOK, ChainOK

(* A request more, or one less, leaves the requests well-formed.            *)
LEMMA AskedType ==
  ASSUME PagesTypeOK, NEW r \in Requests, free(r), NEW k \in Kinds, NEW l \in Loans \cup {None},
         request' = ask(r, k, l),
         late' \subseteq late \cup {r} \cup {q \in Requests : ~free(q)},
         shown' \in [Kinds -> {"fresh", "old", "excused"}]
  PROVE  RequestsOK'
<1>1. /\ DOMAIN request' = Requests /\ request'[r] # None
      /\ \A S \in SUBSET Loans : request'[r] \in RequestState(S)
      /\ \A q \in Requests \ {r} : request'[q] = request[q]
  BY Asked
<1>2. RequestsOK
  BY TypeParts
<1>3. \A q \in Requests : free(q)' \/ \E S \in SUBSET Loans : request'[q] \in RequestState(S)
  BY <1>1, <1>2 DEF RequestsOK, free
<1>4. \A q \in Requests : asking(q, "myLoans")' => request'[q] \in RequestState(MyLoans)
  BY <1>1, <1>2, LoansAssumption DEF RequestsOK, asking, free
<1>5. late' \subseteq {q \in Requests : ~free(q)'}
  BY <1>1, <1>2 DEF RequestsOK, free
<1> QED
  BY <1>1, <1>3, <1>4, <1>5 DEF RequestsOK

LEMMA EndedType ==
  ASSUME PagesTypeOK, NEW r \in Requests, finished(r), shown' \in [Kinds -> {"fresh", "old", "excused"}]
  PROVE  RequestsOK'
<1>1. /\ DOMAIN request' = Requests /\ request'[r] = None
      /\ \A q \in Requests \ {r} : request'[q] = request[q]
  BY Ended DEF finished
<1>2. RequestsOK
  BY TypeParts
<1>3. \A q \in Requests : free(q)' \/ \E S \in SUBSET Loans : request'[q] \in RequestState(S)
  BY <1>1, <1>2 DEF RequestsOK, free
<1>4. \A q \in Requests : asking(q, "myLoans")' => request'[q] \in RequestState(MyLoans)
  BY <1>1, <1>2 DEF RequestsOK, asking, free
<1>5. late' \subseteq {q \in Requests : ~free(q)'}
  BY <1>1, <1>2 DEF RequestsOK, free, finished
<1> QED
  BY <1>1, <1>3, <1>4, <1>5 DEF RequestsOK

LEMMA VisitType ==
  ASSUME PagesTypeOK, NEW r \in Requests, visit(r) PROVE PagesTypeOK'
<1>1. /\ RequestsOK /\ StoresOK /\ ChainOK /\ free(r) /\ reverted \in BOOLEAN
      /\ transfer \in TransferState \cup {None} /\ shown \in [Kinds -> {"fresh", "old", "excused"}]
  BY TypeParts DEF visit, RequestsOK
<1>2. /\ ChainOK' /\ isSending' \subseteq buttons' /\ reverted' \in BOOLEAN
      /\ transfer' \in TransferState \cup {None}
  BY <1>1, Rendered DEF visit, chainVars, ChainOK
<1>3. "myLoans" \in Kinds /\ "loanList" \in Kinds /\ "myInvestments" \in Kinds /\ "loan" \in Kinds
  BY DEF Kinds
<1>4. route' \in Routes
  BY DEF visit, createMyLoans, createLoanList, createMyInvestments, leave, goToLoan, Routes, Lists
<1>5. CASE createMyLoans(r)
  <2>1. RequestsOK'
    BY <1>1, <1>3, <1>5, AskedType DEF createMyLoans
  <2>2. StoresOK'
    BY <1>1, <1>5 DEF createMyLoans, REQUEST_MY_LOANS, investVars, activeVars, investmentVars, StoresOK
  <2> QED
    BY <1>2, <1>4, <2>1, <2>2, TypePartsNext
<1>6. CASE createLoanList(r)
  <2>1. RequestsOK'
    BY <1>1, <1>3, <1>6, AskedType DEF createLoanList
  <2>2. StoresOK'
    BY <1>1, <1>6 DEF createLoanList, REQUEST_MY_INVESTMENTS, myLoansVars, activeVars, investmentVars, StoresOK
  <2> QED
    BY <1>2, <1>4, <2>1, <2>2, TypePartsNext
<1>7. CASE createMyInvestments(r)
  <2>1. RequestsOK'
    BY <1>1, <1>3, <1>7, AskedType DEF createMyInvestments
  <2>2. StoresOK'
    BY <1>1, <1>7 DEF createMyInvestments, REQUEST_MY_INVESTMENTS, myLoansVars, activeVars, investmentVars, StoresOK
  <2> QED
    BY <1>2, <1>4, <2>1, <2>2, TypePartsNext
<1>8. CASE leave
  <2>1. RequestsOK' /\ StoresOK'
    BY <1>1, <1>8 DEF leave, RequestsOK, free, asking, myLoansVars, investVars, activeVars, investmentVars, StoresOK
  <2> QED
    BY <1>2, <1>4, <2>1, TypePartsNext
<1>9. ASSUME NEW l \in Loans, goToLoan(l, r) PROVE PagesTypeOK'
  <2>1. late' \subseteq late \cup {q \in Requests : ~free(q)}
    BY <1>9 DEF goToLoan, createInvestment, underWay, asking
  <2>2. shown' \in [Kinds -> {"fresh", "old", "excused"}]
    BY <1>1, <1>9 DEF goToLoan, createInvestment
  <2>3. RequestsOK'
    BY <1>1, <1>3, <1>9, <2>1, <2>2, AskedType DEF goToLoan, createInvestment
  <2>4. StoresOK'
    BY <1>1, <1>9
       DEF goToLoan, createInvestment, REQUEST_LOAN_TO_INVEST, myLoansVars, activeVars, investmentVars, StoresOK
  <2> QED
    BY <1>2, <1>4, <2>3, <2>4, TypePartsNext
<1> QED
  BY <1>5, <1>6, <1>7, <1>8, <1>9 DEF visit

LEMMA ReceiveType ==
  ASSUME PagesTypeOK, NEW r \in Requests, receive(r) PROVE PagesTypeOK'
<1>1. /\ RequestsOK /\ StoresOK /\ ChainOK /\ reverted \in BOOLEAN /\ route \in Routes
      /\ transfer \in TransferState \cup {None} /\ shown \in [Kinds -> {"fresh", "old", "excused"}]
  BY TypeParts DEF RequestsOK
<1>2. /\ ChainOK' /\ isSending' \subseteq buttons' /\ reverted' \in BOOLEAN
      /\ transfer' \in TransferState \cup {None} /\ route' \in Routes
  BY <1>1, Rendered DEF receive, chainVars, ChainOK
<1>3. RequestsOK'
  BY <1>1, EndedType DEF receive, answered
<1>4. PICK S \in SUBSET Loans : request[r] \in RequestState(S)
  BY <1>1 DEF receive, RECEIVE_MY_LOANS, RECEIVE_LOANS_TO_INVEST, RECEIVE_LOAN_TO_INVEST, RECEIVED_MY_INVESTMENTS,
              asking, RequestsOK
<1>5. StoresOK'
  <2>1. CASE RECEIVE_MY_LOANS(r)
    <3>1. request[r].answer \in Answer(MyLoans)
      BY <1>1, <2>1 DEF RECEIVE_MY_LOANS, RequestsOK, RequestState
    <3> QED
      BY <1>1, <2>1, <3>1 DEF RECEIVE_MY_LOANS, investVars, activeVars, investmentVars, StoresOK
  <2>2. CASE RECEIVE_LOANS_TO_INVEST(r)
    BY <1>1, <2>2 DEF RECEIVE_LOANS_TO_INVEST, myLoansVars, activeVars, investmentVars, StoresOK
  <2>3. CASE RECEIVE_LOAN_TO_INVEST(r)
    <3>1. request[r].loan \in Loans \cup {None}
      BY <1>4 DEF RequestState
    <3> QED
      BY <1>1, <2>3, <3>1 DEF RECEIVE_LOAN_TO_INVEST, myLoansVars, investmentVars, StoresOK
  <2>4. CASE RECEIVED_MY_INVESTMENTS(r)
    <3>1. DOMAIN request[r].answer \subseteq Loans
      BY <1>4, <2>4 DEF RECEIVED_MY_INVESTMENTS, RequestState, Answer
    <3>2. ASSUME NEW T
          PROVE  {<<l, "withdrawals" \in request[r].answer[l]>> :
                     l \in {i \in DOMAIN request[r].answer : request[r].answer[i] \cap T # {}}}
                    \subseteq Loans \X BOOLEAN
      <4>1. \A l \in Loans : <<l, "withdrawals" \in request[r].answer[l]>> \in Loans \X BOOLEAN
        <5>1. \A l \in Loans : ("withdrawals" \in request[r].answer[l]) \in BOOLEAN
          OBVIOUS
        <5>2. \A l \in Loans : \A b \in BOOLEAN : <<l, b>> \in Loans \X BOOLEAN
          OBVIOUS
        <5> QED
          BY <5>1, <5>2, Zenon
      <4> QED
        BY <3>1, <4>1, Zenon
    <3>3. \A tiles \in {pendingInvestments, activeInvestments, finishedInvestments}' :
             tiles \subseteq Loans \X BOOLEAN
      BY <2>4, <3>2 DEF RECEIVED_MY_INVESTMENTS
    <3> QED
      BY <1>1, <2>4, <3>3 DEF RECEIVED_MY_INVESTMENTS, myLoansVars, activeVars, StoresOK
  <2> QED
    BY <2>1, <2>2, <2>3, <2>4 DEF receive
<1> QED
  BY <1>2, <1>3, <1>5, TypePartsNext

LEMMA RejectType ==
  ASSUME PagesTypeOK, NEW r \in Requests, reject(r) PROVE PagesTypeOK'
<1>1. /\ RequestsOK /\ StoresOK /\ ChainOK /\ reverted \in BOOLEAN /\ route \in Routes
      /\ transfer \in TransferState \cup {None} /\ shown \in [Kinds -> {"fresh", "old", "excused"}]
  BY TypeParts DEF RequestsOK
<1>2. /\ ChainOK' /\ isSending' \subseteq buttons' /\ reverted' \in BOOLEAN
      /\ transfer' \in TransferState \cup {None} /\ route' \in Routes
  BY <1>1, Rendered DEF reject, chainVars, ChainOK
<1>3. RequestsOK'
  BY <1>1, EndedType DEF reject, rejected
<1>4. StoresOK'
  BY <1>1 DEF reject, REJECT_MY_LOANS_REQUEST, REJECT_INVEST_REQUEST, investVars, myLoansVars, activeVars,
              investmentVars, StoresOK
<1> QED
  BY <1>2, <1>3, <1>4, TypePartsNext

LEMMA ReadStepType ==
  ASSUME PagesTypeOK, NEW r \in Requests, read(r) PROVE PagesTypeOK'
<1>1. /\ RequestsOK /\ StoresOK /\ ChainOK /\ reverted \in BOOLEAN /\ route \in Routes
      /\ transfer \in TransferState \cup {None} /\ isSending \subseteq buttons
  BY TypeParts
<1>2. /\ ChainOK' /\ StoresOK' /\ reverted' \in BOOLEAN /\ transfer' \in TransferState \cup {None} /\ route' \in Routes
  BY <1>1 DEF read, chainVars, ChainOK, investVars, myLoansVars, activeVars, investmentVars, StoresOK
<1>3. buttons' = buttons
  BY SameButtons DEF read, myLoansVars
<1>4. RequestsOK'
  <2>1. \A q \in Requests \ {r} : request'[q] = request[q]
    BY ReadAt
  <2>2. \A q \in Requests : free(q)' \/ \E S \in SUBSET Loans : request'[q] \in RequestState(S)
    BY <1>1, <2>1, ReadType DEF RequestsOK, free
  <2>3. \A q \in Requests : asking(q, "myLoans")' => request'[q] \in RequestState(MyLoans)
    <3>1. asking(r, "myLoans")' => request'[r] \in RequestState(MyLoans)
      <4>1. request'[r].kind = request[r].kind /\ ~free(r)
        BY ReadAt, ReadType
      <4>2. asking(r, "myLoans")' => asking(r, "myLoans")
        BY <4>1 DEF asking
      <4> QED
        BY <4>2, ReadType
    <3>2. \A q \in Requests \ {r} : asking(q, "myLoans")' <=> asking(q, "myLoans")
      BY <2>1 DEF asking, free
    <3> QED
      BY <1>1, <2>1, <3>1, <3>2 DEF RequestsOK
  <2>4. late' \subseteq {q \in Requests : ~free(q)'}
    BY <1>1, <2>1, ReadType DEF RequestsOK, free, read
  <2> QED
    BY <1>1, <2>2, <2>3, <2>4, ReadAt DEF RequestsOK, read
<1> QED
  BY <1>1, <1>2, <1>3, <1>4, TypePartsNext DEF read

LEMMA ClickType ==
  ASSUME PagesTypeOK, click PROVE PagesTypeOK'
<1>1. /\ RequestsOK /\ StoresOK /\ ChainOK /\ reverted \in BOOLEAN /\ route \in Routes
      /\ isSending \subseteq buttons
  BY TypeParts
<1>2. RequestsOK' /\ ChainOK' /\ reverted' \in BOOLEAN /\ route' \in Routes
  BY <1>1 DEF click, RequestsOK, free, asking, chainVars, ChainOK
<1>3. \A op \in {"collateral", "payback", "withdraw", "invest"}, l \in Loans :
         begin(op, l) => transfer' \in TransferState
  BY DEF begin, TransferState
<1>4. ASSUME NEW l \in MyLoans, START_TRANSFERING(l)
      PROVE  /\ transfer' \in TransferState /\ myLoansList' \in Answer(MyLoans) /\ UNCHANGED isSending
             /\ \A m \in MyLoans : "withdrawals" \in myLoansList'[m] <=> "withdrawals" \in myLoansList[m]
  <2>1. {} \in Tile /\ {"sendingCollateral"} \in Tile /\ {"sendingPayback"} \in Tile
    BY DEF Tile
  <2>2. CASE begin("collateral", l) /\ patchTile(l, {}, {"sendingCollateral"})
    BY <1>3, <2>1, <2>2, PatchType, LoansAssumption, <1>4 DEF START_TRANSFERING
  <2>3. CASE begin("payback", l) /\ patchTile(l, {}, {"sendingPayback"})
    BY <1>3, <2>1, <2>3, PatchType, LoansAssumption, <1>4 DEF START_TRANSFERING
  <2>4. \/ begin("collateral", l) /\ patchTile(l, {}, {"sendingCollateral"})
        \/ begin("payback", l) /\ patchTile(l, {}, {"sendingPayback"})
    BY <1>4 DEF START_TRANSFERING
  <2> QED
    BY <2>2, <2>3, <2>4
<1>5. ASSUME NEW l \in buttons \ isSending, transferWithdrawal(l) \/ clickInvest(l)
      PROVE  transfer' \in TransferState /\ UNCHANGED myLoansList
  <2>1. l \in Loans
    BY <1>1, <1>5, LoansAssumption DEF buttons, StoresOK
  <2> QED
    BY <1>3, <1>5, <2>1 DEF transferWithdrawal, clickInvest
<1>6. /\ transfer' \in TransferState /\ myLoansList' \in Answer(MyLoans) /\ isSending' \subseteq buttons
      /\ \A m \in MyLoans : "withdrawals" \in myLoansList'[m] <=> "withdrawals" \in myLoansList[m]
  BY <1>1, <1>4, <1>5 DEF click, StoresOK
<1>7. StoresOK'
  BY <1>1, <1>6 DEF click, investVars, activeVars, investmentVars, StoresOK
<1>8. buttons' = buttons
  BY <1>6, SameButtons DEF click
<1> QED
  BY <1>2, <1>6, <1>7, <1>8, TypePartsNext

LEMMA ChainType ==
  ASSUME PagesTypeOK, mined \/ fail \/ \E l \in Loans : move(l) PROVE PagesTypeOK'
<1>1. /\ RequestsOK /\ StoresOK /\ ChainOK /\ reverted \in BOOLEAN /\ route \in Routes
      /\ transfer \in TransferState \cup {None} /\ isSending \subseteq buttons
  BY TypeParts
<1>2. UNCHANGED <<route, myLoansVars, investVars, isSending, request, late, shown>>
  BY DEF mined, fail, move
<1>3. RequestsOK' /\ StoresOK' /\ route' \in Routes
  BY <1>1, <1>2 DEF RequestsOK, free, asking, investVars, myLoansVars, activeVars, investmentVars, StoresOK
<1>4. isSending' \subseteq buttons'
  BY <1>1, <1>2, SameButtons DEF myLoansVars
<1>5. transfer' \in TransferState \cup {None}
  BY <1>1 DEF mined, fail, move, TransferState
<1>6. reverted' \in BOOLEAN
  BY <1>1 DEF mined, fail, move
<1>7. ChainOK'
  <2>1. CASE mined
    <3>1. CASE effect(transfer.op, transfer.loan)
      BY <1>1, <2>1, <3>1 DEF mined, effect, TransferState, States, ChainOK
    <3> QED
      BY <1>1, <2>1, <3>1 DEF mined, chainVars, ChainOK
  <2>2. ASSUME NEW l \in Loans, move(l) PROVE ChainOK'
    BY <1>1, <2>2 DEF move, ChainOK
  <2>3. CASE fail
    BY <1>1, <2>3 DEF fail, chainVars, ChainOK
  <2> QED
    BY <2>1, <2>2, <2>3
<1> QED
  BY <1>3, <1>4, <1>5, <1>6, <1>7, TypePartsNext

LEMMA ResolveType ==
  ASSUME PagesTypeOK, resolve PROVE PagesTypeOK'
<1>1. /\ RequestsOK /\ StoresOK /\ ChainOK /\ reverted \in BOOLEAN /\ route \in Routes
      /\ transfer \in TransferState /\ shown \in [Kinds -> {"fresh", "old", "excused"}]
  BY TypeParts DEF RequestsOK, resolve
<1>2. /\ ChainOK' /\ isSending' \subseteq buttons' /\ reverted' \in BOOLEAN
      /\ transfer' \in TransferState \cup {None} /\ route' \in Routes
  BY <1>1, Rendered DEF resolve, chainVars, ChainOK
<1>3. "myLoans" \in Kinds /\ "myInvestments" \in Kinds /\ "loan" \in Kinds
  BY DEF Kinds
<1>4. transfer.loan \in Loans
  BY <1>1 DEF TransferState
<1> DEFINE l == transfer.loan
<1> HIDE DEF l
<1>5. \A kinds \in SUBSET Kinds : outdates(kinds) =>
         /\ late' \subseteq late \cup {q \in Requests : ~free(q)}
         /\ shown' \in [Kinds -> {"fresh", "old", "excused"}]
  BY <1>1 DEF outdates, asking
<1>6. CASE COLLATERAL_TRANSFERED(l)
  <2>1. {"collateral", "sendingCollateral"} \in Tile /\ {"fundraising"} \in Tile
    BY DEF Tile
  <2>2. myLoansList' \in Answer(MyLoans)
    BY <1>4, <1>6, <2>1, PatchType DEF COLLATERAL_TRANSFERED, l
  <2>3. StoresOK'
    BY <1>1, <1>6, <2>2 DEF COLLATERAL_TRANSFERED, investVars, activeVars, investmentVars, StoresOK
  <2>4. RequestsOK'
    BY <1>1, <1>6 DEF COLLATERAL_TRANSFERED, RequestsOK, free, asking
  <2> QED
    BY <1>2, <2>3, <2>4, TypePartsNext
<1>7. ASSUME NEW r \in Requests, PAYBACK_TRANSFERED(l, r) PROVE PagesTypeOK'
  <2>1. /\ {"fundraising", "sendingPayback", "collateral", "sendingCollateral"} \in Tile /\ {} \in Tile
    BY DEF Tile
  <2>2. myLoansList' \in Answer(MyLoans)
    BY <1>4, <1>7, <2>1, PatchType DEF PAYBACK_TRANSFERED, l
  <2>3. StoresOK'
    BY <1>1, <1>7, <2>2 DEF PAYBACK_TRANSFERED, investVars, activeVars, investmentVars, StoresOK
  <2>4. RequestsOK'
    BY <1>3, <1>5, <1>7, AskedType DEF PAYBACK_TRANSFERED
  <2> QED
    BY <1>2, <2>3, <2>4, TypePartsNext
<1>8. ASSUME NEW r \in Requests, NEW s \in Requests, withdrawn(r, s) PROVE PagesTypeOK'
  <2>1. StoresOK'
    BY <1>1, <1>8
       DEF withdrawn, REQUEST_MY_LOANS, REQUEST_MY_INVESTMENTS, activeVars, investmentVars, StoresOK
  <2>2. /\ DOMAIN request' = Requests /\ request'[r] = [kind |-> "myLoans", loan |-> None, answer |-> None]
        /\ request'[s] = [kind |-> "myInvestments", loan |-> None, answer |-> None]
        /\ \A q \in Requests \ {r, s} : request'[q] = request[q]
    BY <1>1, <1>8 DEF withdrawn, ask, RequestsOK
  <2>3. \A S \in SUBSET Loans : request'[r] \in RequestState(S) /\ request'[s] \in RequestState(S)
    BY <1>3, <2>2 DEF RequestState
  <2>4. request'[r] # None /\ request'[s] # None
    BY <2>3, NoneAssumption
  <2>5. \A q \in Requests : free(q)' \/ \E S \in SUBSET Loans : request'[q] \in RequestState(S)
    BY <1>1, <2>2, <2>3 DEF RequestsOK, free
  <2>6. \A q \in Requests : asking(q, "myLoans")' => request'[q] \in RequestState(MyLoans)
    BY <1>1, <2>2, <2>3, LoansAssumption DEF RequestsOK, asking, free
  <2>7. late' \subseteq {q \in Requests : ~free(q)'} /\ shown' \in [Kinds -> {"fresh", "old", "excused"}]
    BY <1>1, <1>3, <1>5, <1>8, <2>2, <2>4 DEF RequestsOK, free, withdrawn
  <2>8. RequestsOK'
    BY <2>2, <2>5, <2>6, <2>7 DEF RequestsOK
  <2> QED
    BY <1>2, <2>1, <2>8, TypePartsNext
<1>9. ASSUME NEW r \in Requests, investedIn(l, r) PROVE PagesTypeOK'
  <2>1. StoresOK'
    BY <1>1, <1>9 DEF investedIn, REQUEST_LOAN_TO_INVEST, myLoansVars, investmentVars, StoresOK
  <2>2. late' \subseteq late \cup {r} \cup {q \in Requests : ~free(q)}
    BY <1>9 DEF investedIn, underWay, asking
  <2>3. shown' \in [Kinds -> {"fresh", "old", "excused"}]
    BY <1>1, <1>9 DEF investedIn
  <2>4. RequestsOK'
    BY <1>3, <1>4, <1>9, <2>2, <2>3, AskedType DEF investedIn, l
  <2> QED
    BY <1>2, <2>1, <2>4, TypePartsNext
<1> QED
  BY <1>6, <1>7, <1>8, <1>9 DEF resolve, l

LEMMA PagesType == PagesTypeOK /\ [PagesNext]_pagesVars => PagesTypeOK'
<1> SUFFICES ASSUME PagesTypeOK, [PagesNext]_pagesVars PROVE PagesTypeOK'
  OBVIOUS
<1>1. CASE UNCHANGED pagesVars
  <2>1. UNCHANGED <<loanState, invested, paid, route, myLoansVars, investVars, isSending, request, transfer,
                    late, shown, reverted>>
    BY <1>1 DEF pagesVars, chainVars
  <2>2. buttons' = buttons
    BY <2>1, SameButtons DEF myLoansVars
  <2> QED
    BY <2>1, <2>2 DEF PagesTypeOK, free, asking, myLoansVars, investVars, activeVars, investmentVars
<1> QED
  BY <1>1, VisitType, ReadStepType, ReceiveType, RejectType, ClickType, ChainType, ResolveType DEF PagesNext

-----------------------------------------------------------------------------
(* The end of a withdrawal asks for two lists.                              *)
LEMMA AskedTwice ==
  ASSUME PagesTypeOK, NEW r \in Requests, NEW s \in Requests, withdrawn(r, s)
  PROVE  /\ underWay("myLoans")' = underWay("myLoans") \cup {r}
         /\ underWay("myInvestments")' = underWay("myInvestments") \cup {s}
         /\ underWay("loan")' = underWay("loan") /\ underWay("loanList")' = underWay("loanList")
         /\ r \notin late /\ s \notin late /\ r # s
         /\ \A q \in Requests \ {r, s} : request'[q] = request[q]
         /\ request[r] = None /\ request[s] = None
         /\ request'[r].answer = None /\ request'[s].answer = None
<1>1. /\ free(r) /\ free(s) /\ r # s /\ DOMAIN request = Requests
      /\ late \subseteq {q \in Requests : ~free(q)}
  BY DEF withdrawn, PagesTypeOK
<1>2. /\ request'[r] = [kind |-> "myLoans", loan |-> None, answer |-> None]
      /\ request'[s] = [kind |-> "myInvestments", loan |-> None, answer |-> None]
      /\ \A q \in Requests \ {r, s} : request'[q] = request[q]
  BY <1>1 DEF withdrawn, ask
<1>3. request'[r] \in RequestState({}) /\ request'[s] \in RequestState({})
  BY <1>2 DEF RequestState, Kinds
<1>4. request'[r] # None /\ request'[s] # None
  BY <1>3, NoneAssumption
<1>5. \A k \in Kinds, q \in Requests \ {r, s} : q \in underWay(k)' <=> q \in underWay(k)
  BY <1>2 DEF underWay, asking, free
<1>6. \A k \in Kinds : r \notin underWay(k) /\ s \notin underWay(k)
  BY <1>1 DEF underWay, asking
<1>7. \A k \in Kinds : r \in underWay(k)' <=> k = "myLoans"
  BY <1>2, <1>4 DEF underWay, asking, free
<1>8. \A k \in Kinds : s \in underWay(k)' <=> k = "myInvestments"
  BY <1>2, <1>4 DEF underWay, asking, free
<1>9. \A k \in Kinds : underWay(k)' \subseteq Requests /\ underWay(k) \subseteq Requests
  BY DEF underWay
<1>10. "myLoans" \in Kinds /\ "loanList" \in Kinds /\ "myInvestments" \in Kinds /\ "loan" \in Kinds
  BY DEF Kinds
<1>11. \A k \in Kinds, q \in Requests : q \in underWay(k)' <=>
          q \in underWay(k) \/ (q = r /\ k = "myLoans") \/ (q = s /\ k = "myInvestments")
  BY <1>5, <1>6, <1>7, <1>8
<1>12. underWay("myLoans")' = underWay("myLoans") \cup {r}
  BY <1>9, <1>10, <1>11
<1>13. underWay("myInvestments")' = underWay("myInvestments") \cup {s}
  BY <1>9, <1>10, <1>11
<1>14. underWay("loan")' = underWay("loan") /\ underWay("loanList")' = underWay("loanList")
  <2>1. ASSUME NEW k \in {"loan", "loanList"} PROVE underWay(k)' = underWay(k)
    BY <1>9, <1>10, <1>11, <2>1
  <2> QED
    BY <2>1
<1> QED
  BY <1>1, <1>2, <1>12, <1>13, <1>14 DEF free

LEMMA SameRequests ==
  ASSUME UNCHANGED request
  PROVE  \A k \in Kinds : underWay(k)' = underWay(k)
BY DEF underWay, asking, free

(* A request that ends is of one kind.                                      *)
LEMMA OneKind ==
  ASSUME NEW r \in Requests, NEW k \in Kinds, NEW j \in Kinds, asking(r, k), j # k
  PROVE  r \notin underWay(j)
BY DEF underWay, asking

LEMMA LoadingStep == PagesTypeOK /\ LoadingMeansRequest /\ [PagesNext]_pagesVars => LoadingMeansRequest'
<1> SUFFICES ASSUME PagesTypeOK, LoadingMeansRequest, [PagesNext]_pagesVars PROVE LoadingMeansRequest'
  OBVIOUS
<1> USE DEF LoadingMeansRequest
<1>0. /\ "myLoans" \in Kinds /\ "loanList" \in Kinds /\ "myInvestments" \in Kinds /\ "loan" \in Kinds
      /\ shown \in [Kinds -> {"fresh", "old", "excused"}]
      /\ \A r \in Requests : ~free(r) => request[r].kind \in Kinds
  BY DEF Kinds, PagesTypeOK, RequestState
<1>1. ASSUME NEW r \in Requests, visit(r) PROVE LoadingMeansRequest'
  <2>1. CASE createMyLoans(r)
    BY <1>0, <1>1, <2>1, Asked DEF visit, createMyLoans, REQUEST_MY_LOANS, investVars, activeVars
  <2>2. CASE createLoanList(r)
    BY <1>0, <1>1, <2>2, Asked DEF visit, createLoanList, REQUEST_MY_INVESTMENTS, myLoansVars, activeVars
  <2>3. CASE createMyInvestments(r)
    BY <1>0, <1>1, <2>3, Asked DEF visit, createMyInvestments, REQUEST_MY_INVESTMENTS, myLoansVars, activeVars
  <2>4. CASE leave
    BY <1>0, <2>4, SameRequests DEF leave, myLoansVars, investVars, activeVars
  <2>5. ASSUME NEW l \in Loans, goToLoan(l, r) PROVE LoadingMeansRequest'
    BY <1>0, <1>1, <2>5, Asked
       DEF visit, goToLoan, createInvestment, REQUEST_LOAN_TO_INVEST, myLoansVars
  <2> QED
    BY <1>1, <2>1, <2>2, <2>3, <2>4, <2>5 DEF visit
<1>2. ASSUME NEW r \in Requests, read(r) PROVE LoadingMeansRequest'
  BY <1>0, <1>2, ReadType DEF read, myLoansVars, investVars, activeVars
<1>3. ASSUME NEW r \in Requests, receive(r) PROVE LoadingMeansRequest'
  <2>1. /\ \A k \in Kinds : underWay(k)' = underWay(k) \ {r}
        /\ shown' = [shown EXCEPT ![request[r].kind] = IF r \in late THEN "excused" ELSE "fresh"]
    BY <1>3, Ended DEF receive, answered, finished
  <2>2. CASE RECEIVE_MY_LOANS(r)
    BY <1>0, <2>1, <2>2, OneKind DEF RECEIVE_MY_LOANS, investVars, activeVars, asking
  <2>3. CASE RECEIVE_LOANS_TO_INVEST(r)
    BY <1>0, <2>1, <2>3, OneKind DEF RECEIVE_LOANS_TO_INVEST, myLoansVars, activeVars, asking
  <2>4. CASE RECEIVE_LOAN_TO_INVEST(r)
    BY <1>0, <2>1, <2>4, OneKind DEF RECEIVE_LOAN_TO_INVEST, myLoansVars, asking
  <2>5. CASE RECEIVED_MY_INVESTMENTS(r)
    BY <1>0, <2>1, <2>5, OneKind DEF RECEIVED_MY_INVESTMENTS, myLoansVars, activeVars, asking
  <2> QED
    BY <1>3, <2>2, <2>3, <2>4, <2>5 DEF receive
<1>4. ASSUME NEW r \in Requests, reject(r) PROVE LoadingMeansRequest'
  <2>1. /\ \A k \in Kinds : underWay(k)' = underWay(k) \ {r}
        /\ shown' = [shown EXCEPT ![request[r].kind] = "excused"]
    BY <1>4, Ended DEF reject, rejected, finished
  <2>2. CASE REJECT_MY_LOANS_REQUEST(r)
    BY <1>0, <2>1, <2>2, OneKind DEF REJECT_MY_LOANS_REQUEST, investVars, activeVars, asking
  <2>3. CASE REJECT_INVEST_REQUEST(r)
    <3>1. request[r].kind \in Kinds \ {"myLoans"} /\ asking(r, request[r].kind)
      BY <1>0, <2>3 DEF REJECT_INVEST_REQUEST, asking
    <3>2. underWay("myLoans")' = underWay("myLoans")
      <4>1. r \notin underWay("myLoans")
        BY <1>0, <3>1, OneKind
      <4> QED
        BY <1>0, <2>1, <4>1
    <3>3. activeLoading' /\ shown'["loan"] # "excused" => underWay("loan")' # {}
      <4>1. CASE request[r].kind = "loan"
        BY <1>0, <2>1, <4>1
      <4>2. CASE request[r].kind # "loan"
        BY <1>0, <2>1, <2>3, <3>1, <4>2, OneKind DEF REJECT_INVEST_REQUEST, activeVars
      <4> QED
        BY <4>1, <4>2
    <3> QED
      BY <2>3, <3>2, <3>3 DEF REJECT_INVEST_REQUEST, myLoansVars
  <2> QED
    BY <1>4, <2>2, <2>3 DEF reject
<1>5. CASE click
  BY <1>0, <1>5, SameRequests DEF click, investVars, activeVars
<1>6. CASE mined \/ fail \/ UNCHANGED pagesVars \/ \E l \in Loans : move(l)
  BY <1>0, <1>6, SameRequests DEF mined, fail, move, pagesVars, myLoansVars, investVars, activeVars
<1>7. CASE resolve
  <2>1. CASE COLLATERAL_TRANSFERED(transfer.loan)
    BY <1>0, <2>1, SameRequests DEF COLLATERAL_TRANSFERED, investVars, activeVars
  <2>2. ASSUME NEW r \in Requests, PAYBACK_TRANSFERED(transfer.loan, r) PROVE LoadingMeansRequest'
    BY <1>0, <2>2, Asked DEF PAYBACK_TRANSFERED, outdates, investVars, activeVars
  <2>3. ASSUME NEW r \in Requests, NEW s \in Requests, withdrawn(r, s) PROVE LoadingMeansRequest'
    BY <1>0, <2>3, AskedTwice
       DEF withdrawn, outdates, REQUEST_MY_LOANS, REQUEST_MY_INVESTMENTS, activeVars
  <2>4. ASSUME NEW r \in Requests, investedIn(transfer.loan, r) PROVE LoadingMeansRequest'
    <3>1. transfer.loan \in Loans
      BY <1>7 DEF resolve, PagesTypeOK, TransferState
    <3> QED
      BY <1>0, <2>4, <3>1, Asked DEF investedIn, REQUEST_LOAN_TO_INVEST, myLoansVars
  <2> QED
    BY <1>7, <2>1, <2>2, <2>3, <2>4 DEF resolve
<1> QED
  BY <1>1, <1>2, <1>3, <1>4, <1>5, <1>6, <1>7 DEF PagesNext

-----------------------------------------------------------------------------
LEMMA FreshStep == PagesTypeOK /\ FreshAfterTransfer /\ [PagesNext]_pagesVars => FreshAfterTransfer'
<1> SUFFICES ASSUME PagesTypeOK, FreshAfterTransfer, [PagesNext]_pagesVars PROVE FreshAfterTransfer'
  OBVIOUS
<1> USE DEF FreshAfterTransfer
<1>0. "myLoans" \in Kinds /\ "loanList" \in Kinds /\ "myInvestments" \in Kinds /\ "loan" \in Kinds
  BY DEF Kinds
<1>1. /\ shown \in [Kinds -> {"fresh", "old", "excused"}]
      /\ late \subseteq {r \in Requests : ~free(r)}
      /\ \A r \in Requests : ~free(r) => request[r].kind \in Kinds
  BY DEF PagesTypeOK, RequestState
(* A request more, which is not late, and no request that becomes late.     *)
<1>2. ASSUME NEW r \in Requests, NEW k \in Kinds, NEW l \in Loans \cup {None},
             free(r), request' = ask(r, k, l), UNCHANGED <<late, shown>>
      PROVE  FreshAfterTransfer'
  BY <1>2, Asked
(* A request that makes those of its kind late.                             *)
<1>3. ASSUME NEW r \in Requests, NEW l \in Loans, free(r), request' = ask(r, "loan", l),
             late' = late \cup underWay("loan"), shown' = [shown EXCEPT !["loan"] = "old"]
      PROVE  FreshAfterTransfer'
  <2>1. /\ underWay("loan")' = underWay("loan") \cup {r} /\ r \notin late /\ r \notin underWay("loan")
        /\ \A k \in Kinds \ {"loan"} : underWay(k)' = underWay(k)
    BY <1>0, <1>3, Asked
  <2>2. r \in underWay("loan")' \ late'
    BY <1>3, <2>1
  <2>3. ASSUME NEW k \in Kinds \ {"loan"} PROVE underWay(k)' \ late' = underWay(k) \ late
    <3>1. underWay(k) \cap underWay("loan") = {}
      BY <2>3 DEF underWay, asking
    <3> QED
      BY <1>3, <2>1, <3>1
  <2> QED
    BY <1>1, <1>3, <2>2, <2>3
<1>4. ASSUME NEW r \in Requests, visit(r) PROVE FreshAfterTransfer'
  <2>1. CASE createMyLoans(r) \/ createLoanList(r) \/ createMyInvestments(r)
    BY <1>0, <1>2, <1>4, <2>1 DEF visit, createMyLoans, createLoanList, createMyInvestments
  <2>2. CASE leave
    BY <2>2, SameRequests DEF leave
  <2>3. ASSUME NEW l \in Loans, goToLoan(l, r) PROVE FreshAfterTransfer'
    BY <1>3, <1>4, <2>3 DEF visit, goToLoan, createInvestment
  <2> QED
    BY <1>4, <2>1, <2>2, <2>3 DEF visit
<1>5. ASSUME NEW r \in Requests, read(r) PROVE FreshAfterTransfer'
  BY <1>5, ReadType DEF read
<1>6. ASSUME NEW r \in Requests, ~free(r), finished(r), NEW to \in {"fresh", "excused"},
             shown' = [shown EXCEPT ![request[r].kind] = to]
      PROVE  FreshAfterTransfer'
  <2>1. \A k \in Kinds : underWay(k)' = underWay(k) \ {r}
    BY <1>6, Ended DEF finished
  <2>2. ASSUME NEW k \in Kinds, k # request[r].kind PROVE r \notin underWay(k)
    BY <2>2 DEF underWay, asking
  <2>3. ASSUME NEW k \in Kinds, shown'[k] = "old" PROVE underWay(k)' \ late' # {}
    <3>1. k # request[r].kind /\ shown[k] = "old"
      BY <1>1, <1>6, <2>3
    <3> QED
      BY <1>6, <2>1, <2>2, <3>1 DEF finished
  <2> QED
    BY <2>3
<1>7. ASSUME NEW r \in Requests, receive(r) \/ reject(r) PROVE FreshAfterTransfer'
  <2>1. ~free(r)
    BY <1>7 DEF receive, reject, RECEIVE_MY_LOANS, RECEIVE_LOANS_TO_INVEST, RECEIVE_LOAN_TO_INVEST,
                RECEIVED_MY_INVESTMENTS, REJECT_MY_LOANS_REQUEST, REJECT_INVEST_REQUEST, asking
  <2> QED
    BY <1>6, <1>7, <2>1 DEF receive, reject, answered, rejected
<1>8. CASE click \/ mined \/ fail \/ UNCHANGED pagesVars \/ \E l \in Loans : move(l)
  BY <1>8, SameRequests DEF click, mined, fail, move, pagesVars
<1>9. CASE resolve
  <2>1. CASE COLLATERAL_TRANSFERED(transfer.loan)
    BY <2>1, SameRequests DEF COLLATERAL_TRANSFERED
  (* What outdates makes late is of the kinds that are asked for.           *)
  <2>2. ASSUME NEW kinds \in SUBSET Kinds, outdates(kinds)
        PROVE  /\ \A k \in Kinds \ kinds : underWay(k) \ late' = underWay(k) \ late /\ shown'[k] = shown[k]
               /\ late' \subseteq late \cup {r \in Requests : ~free(r)}
    BY <2>2 DEF outdates, underWay, asking
  <2>3. ASSUME NEW r \in Requests, PAYBACK_TRANSFERED(transfer.loan, r) PROVE FreshAfterTransfer'
    <3>1. /\ underWay("myLoans")' = underWay("myLoans") \cup {r} /\ r \notin late
          /\ \A k \in Kinds \ {"myLoans"} : underWay(k)' = underWay(k)
      BY <1>0, <2>3, Asked DEF PAYBACK_TRANSFERED
    <3>2. r \in underWay("myLoans")' \ late'
      BY <1>0, <2>2, <2>3, <3>1 DEF PAYBACK_TRANSFERED
    <3>3. \A k \in Kinds \ {"myLoans"} : underWay(k)' \ late' = underWay(k) \ late /\ shown'[k] = shown[k]
      BY <1>0, <2>2, <2>3, <3>1 DEF PAYBACK_TRANSFERED
    <3> QED
      BY <3>2, <3>3
  <2>4. ASSUME NEW r \in Requests, NEW s \in Requests, withdrawn(r, s) PROVE FreshAfterTransfer'
    <3>1. late' \subseteq late \cup {q \in Requests : ~free(q)} /\ outdates({"myLoans", "myInvestments"})
      BY <1>0, <2>2, <2>4 DEF withdrawn
    <3>2. /\ r \in underWay("myLoans")' \ late' /\ s \in underWay("myInvestments")' \ late'
      BY <2>4, <3>1, AskedTwice DEF withdrawn
    <3>3. ASSUME NEW k \in {"loan", "loanList"}
          PROVE  underWay(k)' \ late' = underWay(k) \ late /\ shown'[k] = shown[k]
      <4>1. /\ underWay(k)' = underWay(k) /\ k \in Kinds \ {"myLoans", "myInvestments"}
            /\ {"myLoans", "myInvestments"} \in SUBSET Kinds
        BY <1>0, <2>4, <3>3, AskedTwice
      <4> QED
        BY <2>2, <3>1, <4>1
    <3> QED
      BY <3>2, <3>3 DEF Kinds
  <2>5. ASSUME NEW r \in Requests, investedIn(transfer.loan, r) PROVE FreshAfterTransfer'
    <3>1. transfer.loan \in Loans
      BY <1>9 DEF resolve, PagesTypeOK, TransferState
    <3>2. CASE route = transfer.loan
      BY <1>3, <2>5, <3>1, <3>2 DEF investedIn
    <3>3. CASE route # transfer.loan
      <4>1. /\ underWay("loan")' = underWay("loan") \cup {r} /\ \A k \in Kinds : r \notin underWay(k)
            /\ \A k \in Kinds \ {"loan"} : underWay(k)' = underWay(k)
            /\ late' = late \cup {r} /\ shown' = shown
        BY <1>0, <2>5, <3>1, <3>3, Asked DEF investedIn
      <4> QED
        BY <1>0, <4>1
    <3> QED
      BY <3>2, <3>3
  <2> QED
    BY <1>9, <2>1, <2>3, <2>4, <2>5 DEF resolve
<1> QED
  BY <1>4, <1>5, <1>7, <1>8, <1>9 DEF PagesNext

-----------------------------------------------------------------------------
LEMMA RouteStep == PagesTypeOK /\ RouteIsAskedFor /\ [PagesNext]_pagesVars => RouteIsAskedFor'
<1> SUFFICES ASSUME PagesTypeOK, RouteIsAskedFor, [PagesNext]_pagesVars PROVE RouteIsAskedFor'
  OBVIOUS
<1> USE DEF RouteIsAskedFor
<1>0. "myLoans" \in Kinds /\ "loanList" \in Kinds /\ "myInvestments" \in Kinds /\ "loan" \in Kinds
  BY DEF Kinds
<1>1. /\ shown \in [Kinds -> {"fresh", "old", "excused"}]
      /\ \A r \in Requests : ~free(r) => request[r].kind \in Kinds
      /\ transfer # None => transfer.loan \in Loans
  BY DEF PagesTypeOK, RequestState, TransferState
(* No request for a loan more, none that is late no longer.                 *)
<1>2. ASSUME UNCHANGED route, UNCHANGED activeVars, UNCHANGED shown["loan"],
             underWay("loan")' \ late' \subseteq underWay("loan") \ late,
             \A r \in underWay("loan") \ late : r \in underWay("loan")' \ late' => request'[r].loan = request[r].loan
      PROVE  RouteIsAskedFor'
  BY <1>2 DEF activeVars
(* The page of a loan asks for it.                                          *)
<1>3. ASSUME NEW r \in Requests, NEW l \in Loans, free(r), request' = ask(r, "loan", l),
             late' = late \cup underWay("loan"), route' = l, activeLoading' = TRUE
      PROVE  RouteIsAskedFor'
  <2>1. l \in Loans \cup {None}
    OBVIOUS
  <2>2. /\ underWay("loan")' = underWay("loan") \cup {r}
        /\ request'[r] = [kind |-> "loan", loan |-> l, answer |-> None]
    BY <1>0, <1>3, <2>1, Asked
  <2>3. request'[r].loan = l
    BY <2>2
  <2> QED
    BY <1>3, <2>2, <2>3
<1>4. ASSUME NEW r \in Requests, visit(r) PROVE RouteIsAskedFor'
  <2>1. CASE createMyLoans(r) \/ createLoanList(r) \/ createMyInvestments(r) \/ leave
    BY <2>1, LoansAssumption DEF createMyLoans, createLoanList, createMyInvestments, leave, Lists
  <2>2. ASSUME NEW l \in Loans, goToLoan(l, r) PROVE RouteIsAskedFor'
    BY <1>3, <1>4, <2>2 DEF visit, goToLoan, createInvestment, REQUEST_LOAN_TO_INVEST
  <2> QED
    BY <1>4, <2>1, <2>2 DEF visit
<1>5. ASSUME NEW r \in Requests, read(r) PROVE RouteIsAskedFor'
  <2>1. \A q \in Requests : request'[q].loan = request[q].loan
    BY <1>5, ReadAt, ReadType
  <2>2. underWay("loan") \subseteq Requests
    BY DEF underWay
  <2> QED
    BY <1>0, <1>2, <1>5, <2>1, <2>2, ReadType DEF read, investVars
<1>6. ASSUME NEW r \in Requests, ~free(r), finished(r)
      PROVE  /\ underWay("loan")' = underWay("loan") \ {r} /\ late' = late \ {r}
             /\ \A q \in underWay("loan") \ {r} : request'[q].loan = request[q].loan
  <2>1. underWay("loan") \subseteq Requests
    BY DEF underWay
  <2> QED
    BY <1>0, <1>6, <2>1, Ended DEF finished
<1>7. ASSUME NEW r \in Requests, receive(r) PROVE RouteIsAskedFor'
  <2>1. /\ UNCHANGED route /\ finished(r)
        /\ shown' = [shown EXCEPT ![request[r].kind] = IF r \in late THEN "excused" ELSE "fresh"]
    BY <1>7 DEF receive, answered
  <2>2. CASE RECEIVE_LOAN_TO_INVEST(r)
    <3>1. asking(r, "loan") /\ activeLoan' = request[r].loan /\ activeLoading' = FALSE
      BY <2>2 DEF RECEIVE_LOAN_TO_INVEST
    <3>2. r \in underWay("loan")
      BY <3>1 DEF underWay
    <3>3. r \notin late => request[r].loan = route \/ route \notin Loans
      BY <3>2
    <3>4. shown'["loan"] = IF r \in late THEN "excused" ELSE "fresh"
      BY <1>0, <1>1, <2>1, <3>1 DEF asking
    <3> QED
      BY <1>6, <2>1, <3>1, <3>3, <3>4 DEF asking
  <2>3. CASE RECEIVE_MY_LOANS(r) \/ RECEIVE_LOANS_TO_INVEST(r) \/ RECEIVED_MY_INVESTMENTS(r)
    <3>1. ~free(r) /\ request[r].kind # "loan" /\ UNCHANGED activeVars
      BY <2>3 DEF RECEIVE_MY_LOANS, RECEIVE_LOANS_TO_INVEST, RECEIVED_MY_INVESTMENTS, asking, investVars
    <3>2. UNCHANGED shown["loan"]
      BY <1>0, <1>1, <2>1, <3>1
    <3> QED
      BY <1>2, <1>6, <2>1, <3>1, <3>2
  <2> QED
    BY <1>7, <2>2, <2>3 DEF receive
<1>8. ASSUME NEW r \in Requests, reject(r) PROVE RouteIsAskedFor'
  <2>1. /\ UNCHANGED route /\ finished(r) /\ ~free(r) /\ UNCHANGED activeVars
        /\ shown' = [shown EXCEPT ![request[r].kind] = "excused"]
    BY <1>8 DEF reject, rejected, REJECT_MY_LOANS_REQUEST, REJECT_INVEST_REQUEST, asking, investVars
  <2>2. shown'["loan"] = "excused" \/ UNCHANGED shown["loan"]
    BY <1>0, <1>1, <2>1
  <2>3. CASE UNCHANGED shown["loan"]
    BY <1>2, <1>6, <2>1, <2>3
  <2>4. CASE shown'["loan"] = "excused"
    BY <1>6, <2>1, <2>4
  <2> QED
    BY <2>2, <2>3, <2>4
<1>9. CASE click \/ mined \/ fail \/ UNCHANGED pagesVars \/ \E l \in Loans : move(l)
  <2>1. UNCHANGED <<route, request, late, shown, activeVars>>
    BY <1>9 DEF click, mined, fail, move, pagesVars, investVars
  <2> QED
    BY <1>0, <1>2, <2>1, SameRequests
<1>10. CASE resolve
  <2>1. UNCHANGED route /\ transfer.loan \in Loans /\ underWay("loan") \subseteq Requests
    BY <1>1, <1>10 DEF resolve, underWay
  <2>2. CASE COLLATERAL_TRANSFERED(transfer.loan)
    BY <1>0, <1>2, <2>1, <2>2, SameRequests DEF COLLATERAL_TRANSFERED, investVars
  <2>3. ASSUME NEW r \in Requests, PAYBACK_TRANSFERED(transfer.loan, r) PROVE RouteIsAskedFor'
    <3>1. /\ underWay("loan")' = underWay("loan") /\ r \notin underWay("loan")
          /\ \A q \in Requests \ {r} : request'[q] = request[q]
      BY <1>0, <2>3, Asked DEF PAYBACK_TRANSFERED
    <3>2. late \subseteq late' /\ UNCHANGED shown["loan"] /\ UNCHANGED activeVars
      BY <1>0, <2>3 DEF PAYBACK_TRANSFERED, outdates, investVars
    <3> QED
      BY <1>2, <2>1, <3>1, <3>2
  <2>4. ASSUME NEW r \in Requests, NEW s \in Requests, withdrawn(r, s) PROVE RouteIsAskedFor'
    <3>1. /\ underWay("loan")' = underWay("loan") /\ \A q \in Requests \ {r, s} : request'[q] = request[q]
          /\ r \notin underWay("loan") /\ s \notin underWay("loan")
      BY <2>4, AskedTwice DEF underWay, asking, free
    <3>2. late \subseteq late' /\ UNCHANGED shown["loan"] /\ UNCHANGED activeVars
      BY <1>0, <2>4 DEF withdrawn, outdates, REQUEST_MY_INVESTMENTS
    <3> QED
      BY <1>2, <2>1, <3>1, <3>2
  <2>5. ASSUME NEW r \in Requests, investedIn(transfer.loan, r) PROVE RouteIsAskedFor'
    <3>1. CASE route = transfer.loan
      BY <1>3, <2>1, <2>5, <3>1 DEF investedIn, REQUEST_LOAN_TO_INVEST
    <3>2. CASE route # transfer.loan
      <4>1. /\ underWay("loan")' = underWay("loan") \cup {r} /\ r \notin underWay("loan")
            /\ \A q \in Requests \ {r} : request'[q] = request[q]
            /\ late' = late \cup {r} /\ activeLoading' = TRUE
        BY <1>0, <2>1, <2>5, <3>2, Asked DEF investedIn, REQUEST_LOAN_TO_INVEST
      <4> QED
        BY <2>1, <4>1
    <3> QED
      BY <3>1, <3>2
  <2> QED
    BY <1>10, <2>2, <2>3, <2>4, <2>5 DEF resolve
<1> QED
  BY <1>4, <1>5, <1>7, <1>8, <1>9, <1>10 DEF PagesNext

-----------------------------------------------------------------------------
(* A contract goes forward only, and what it owes stays due until it is paid.*)
Forward(l) ==
    /\ loanState[l] # "CollateralCollection" => loanState'[l] # "CollateralCollection"
    /\ loanState[l] \in {"Payback", "Paidback", "Defaulted"} => loanState'[l] \in {"Payback", "Paidback", "Defaulted"}
    /\ l \in paid \/ due(l) => (l \in paid \/ due(l))'

LEMMA ChainForward ==
  ASSUME PagesTypeOK, NEW l \in Loans, [PagesNext]_pagesVars PROVE Forward(l)
<1>1. ASSUME UNCHANGED chainVars PROVE Forward(l)
  BY <1>1 DEF chainVars, Forward, due
<1>2. loanState \in [Loans -> States]
  BY DEF PagesTypeOK
<1>3. ASSUME NEW m \in Loans, move(m) PROVE Forward(l)
  <2>1. PICK to \in States : <<loanState[m], to>> \in Moves /\ loanState' = [loanState EXCEPT ![m] = to]
    BY <1>3 DEF move
  <2>2. CASE l = m
    BY <1>2, <1>3, <2>1, <2>2 DEF move, Moves, Forward, due, Finished
  <2>3. CASE l # m
    BY <1>2, <1>3, <2>1, <2>3 DEF move, Forward, due
  <2> QED
    BY <2>2, <2>3
<1>4. ASSUME NEW op, NEW m \in Loans, effect(op, m) PROVE Forward(l)
  BY <1>2, <1>4 DEF effect, Forward, due, Finished
<1>5. CASE mined
  BY <1>1, <1>4, <1>5 DEF mined, PagesTypeOK, TransferState
<1>6. CASE click \/ resolve \/ fail \/ UNCHANGED pagesVars
  BY <1>1, <1>6 DEF click, resolve, fail, pagesVars
<1>7. ASSUME NEW r \in Requests, visit(r) \/ read(r) \/ receive(r) \/ reject(r) PROVE Forward(l)
  BY <1>1, <1>7 DEF visit, read, receive, reject
<1> QED
  BY <1>3, <1>5, <1>6, <1>7 DEF PagesNext

(* What getMyLoans reads is true when it reads it.                          *)
LEMMA AnswerJustified ==
  ASSUME PagesTypeOK, NEW l \in MyLoans PROVE Justified(l, getMyLoans[l])
<1>1. l \in Loans /\ loanState[l] \in States
  BY LoansAssumption DEF PagesTypeOK
<1>2. getMyLoans[l] = {"tile"} \cup SectionOf[loanState[l]] \cup {s \in {"withdrawals"} : due(l)}
  BY DEF getMyLoans
<1>3. /\ "fundraising" \in getMyLoans[l] => loanState[l] = "Fundraising"
      /\ "payback" \in getMyLoans[l] => loanState[l] = "Payback"
  BY <1>1, <1>2 DEF SectionOf, States
<1>4. "withdrawals" \in getMyLoans[l] => due(l)
  BY <1>1, <1>2 DEF SectionOf, States
<1> QED
  BY <1>3, <1>4 DEF Justified

LEMMA AheadStep == PagesTypeOK /\ NeverAhead /\ [PagesNext]_pagesVars => NeverAhead'
<1> SUFFICES ASSUME PagesTypeOK, NeverAhead, [PagesNext]_pagesVars, ~reverted' PROVE NeverAhead'
  BY DEF NeverAhead
<1>1. /\ reverted' = reverted
      /\ \A l \in Loans : Forward(l)
      /\ MyLoans \subseteq Loans /\ reverted \in BOOLEAN
  <2>1. reverted' = reverted
    BY DEF PagesNext, click, mined, resolve, fail, move, visit, read, receive, reject, pagesVars
  <2> QED
    BY <2>1, ChainForward, LoansAssumption DEF PagesTypeOK
<1>2. ListNotAhead /\ AnswersNotAhead /\ CollateralSent
  BY <1>1 DEF NeverAhead
(* Justified marks stay so, in the list and in an answer.                   *)
<1>3. ASSUME NEW l \in MyLoans, NEW old, Justified(l, old),
             myLoansList'[l] \subseteq old \cup {"tile", "collateral", "sendingCollateral", "sendingPayback"}
      PROVE  Justified(l, myLoansList[l])'
  BY <1>1, <1>3 DEF Justified, Forward
<1>4. ASSUME NEW r \in underWay("myLoans"), request[r].answer # None, request'[r] = request[r],
             NEW l \in MyLoans
      PROVE  Justified(l, request[r].answer[l])'
  BY <1>1, <1>2, <1>4 DEF AnswersNotAhead, Justified, Forward
<1>5. UNCHANGED myLoansList => ListNotAhead'
  BY <1>2, <1>3 DEF ListNotAhead
<1>6. UNCHANGED transfer => CollateralSent'
  BY <1>1, <1>2 DEF CollateralSent, Forward, PagesTypeOK, TransferState
(* A request more, and any that end.                                        *)
<1>7. ASSUME \A r \in Requests : request'[r] = request[r] \/ request'[r] = None \/ request'[r].answer = None
      PROVE  AnswersNotAhead'
  <2>1. ASSUME NEW r \in underWay("myLoans")', (request[r].answer # None)', NEW l \in MyLoans
        PROVE  Justified(l, request[r].answer[l])'
    <3>1. r \in Requests /\ request'[r] # None
      BY <2>1 DEF underWay, asking, free
    <3>2. request'[r] = request[r] /\ r \in underWay("myLoans")
      BY <1>7, <2>1, <3>1 DEF underWay, asking, free
    <3> QED
      BY <1>4, <2>1, <3>2
  <2> QED
    BY <2>1 DEF AnswersNotAhead
<1>8. CASE click
  <2>1. AnswersNotAhead'
    BY <1>7, <1>8 DEF click
  <2>2. CollateralSent'
    BY <1>8 DEF click, START_TRANSFERING, transferWithdrawal, clickInvest, begin, CollateralSent
  <2>3. ASSUME NEW l \in MyLoans, START_TRANSFERING(l) PROVE ListNotAhead'
    <3>1. PICK with \in {{"sendingCollateral"}, {"sendingPayback"}} : patchTile(l, {}, with)
      BY <2>3 DEF START_TRANSFERING
    <3>2. \A m \in MyLoans : myLoansList'[m] \subseteq myLoansList[m] \cup with
      BY <1>1, <3>1, PatchType DEF Tile
    <3> QED
      BY <1>2, <1>3, <3>2 DEF ListNotAhead
  <2> QED
    BY <1>5, <1>8, <2>1, <2>2, <2>3 DEF click, transferWithdrawal, clickInvest, NeverAhead
<1>9. CASE mined
  <2>1. ListNotAhead' /\ AnswersNotAhead'
    BY <1>5, <1>7, <1>9 DEF mined, myLoansVars
  <2>2. CollateralSent'
    <3>1. transfer \in TransferState /\ loanState \in [Loans -> States]
      BY <1>9 DEF mined, PagesTypeOK
    <3>2. transfer'.op = transfer.op /\ transfer'.loan = transfer.loan /\ transfer.loan \in Loans
      BY <1>9, <3>1 DEF mined, TransferState
    <3>3. effect(transfer.op, transfer.loan)
      BY <1>1, <1>9 DEF mined, NeverAhead
    <3> QED
      BY <3>1, <3>2, <3>3 DEF effect, CollateralSent
  <2> QED
    BY <2>1, <2>2 DEF NeverAhead
<1>10. CASE fail
  BY <1>5, <1>7, <1>10 DEF fail, myLoansVars, CollateralSent, NeverAhead
<1>11. CASE UNCHANGED pagesVars \/ \E l \in Loans : move(l)
  BY <1>5, <1>6, <1>7, <1>11 DEF move, pagesVars, myLoansVars, NeverAhead
<1>12. ASSUME NEW r \in Requests, visit(r) PROVE NeverAhead'
  <2>1. UNCHANGED <<transfer, myLoansList>>
    BY <1>12 DEF visit, createMyLoans, createLoanList, createMyInvestments, leave, goToLoan, REQUEST_MY_LOANS, myLoansVars
  <2>2. \A k \in Kinds, l \in Loans \cup {None} :
           request' = ask(r, k, l) => \A q \in Requests : request'[q] = request[q] \/ request'[q].answer = None
    BY <1>12, AskedAnswers DEF visit
  <2>3. \A q \in Requests : request'[q] = request[q] \/ request'[q].answer = None
    BY <1>12, <2>2 DEF visit, createMyLoans, createLoanList, createMyInvestments, leave, goToLoan, createInvestment, Kinds
  <2> QED
    BY <1>5, <1>6, <1>7, <2>1, <2>3 DEF NeverAhead
<1>13. ASSUME NEW r \in Requests, read(r) PROVE NeverAhead'
  <2>1. ListNotAhead' /\ CollateralSent'
    BY <1>5, <1>6, <1>13 DEF read, myLoansVars
  <2>2. AnswersNotAhead'
    <3>1. ASSUME NEW q \in underWay("myLoans")', (request[q].answer # None)', NEW l \in MyLoans
          PROVE  Justified(l, request[q].answer[l])'
      <4>1. CASE q # r
        BY <1>4, <1>13, <3>1, <4>1, ReadAt DEF underWay, asking, free
      <4>2. CASE q = r
        <5>1. asking(r, "myLoans") /\ r \in underWay("myLoans")
          BY <1>13, <3>1, <4>2, ReadType DEF Kinds, underWay, asking
        <5>2. request'[r].answer = getMyLoans
          <6>1. request[r] \in RequestState(MyLoans)
            BY <5>1 DEF PagesTypeOK
          <6> QED
            BY <1>13, <5>1, <6>1, ReadAt DEF asking, RequestState
        <5>3. UNCHANGED <<loanState, invested, paid>>
          BY <1>13 DEF read, chainVars
        <5> QED
          BY <4>2, <5>2, <5>3, AnswerJustified DEF Justified, due
      <4> QED
        BY <4>1, <4>2
    <3> QED
      BY <3>1 DEF AnswersNotAhead
  <2> QED
    BY <2>1, <2>2 DEF NeverAhead
<1>14. ASSUME NEW r \in Requests, receive(r) \/ reject(r) PROVE NeverAhead'
  <2>1. UNCHANGED transfer /\ finished(r)
    BY <1>14 DEF receive, reject, answered, rejected
  <2>2. AnswersNotAhead'
    BY <1>7, <2>1, Ended DEF finished
  <2>3. UNCHANGED myLoansList \/ RECEIVE_MY_LOANS(r)
    BY <1>14 DEF receive, reject, RECEIVE_LOANS_TO_INVEST, RECEIVE_LOAN_TO_INVEST, RECEIVED_MY_INVESTMENTS,
                 REJECT_MY_LOANS_REQUEST, REJECT_INVEST_REQUEST, myLoansVars
  <2>4. RECEIVE_MY_LOANS(r) => ListNotAhead'
    BY <1>2, <1>3 DEF RECEIVE_MY_LOANS, AnswersNotAhead, ListNotAhead, underWay
  <2> QED
    BY <1>5, <1>6, <2>1, <2>2, <2>3, <2>4 DEF NeverAhead
<1>15. CASE resolve
  <2>1. transfer \in TransferState /\ transfer.loan \in Loans
    BY <1>15 DEF resolve, PagesTypeOK, TransferState
  <2>2. CollateralSent'
    BY <1>15 DEF resolve, CollateralSent
  <2>3. CASE transfer.op = "collateral" /\ COLLATERAL_TRANSFERED(transfer.loan)
    <3>1. ListNotAhead'
      <4>1. ASSUME NEW m \in MyLoans PROVE Justified(m, myLoansList[m])'
        <5>1. /\ m # transfer.loan => myLoansList'[m] = myLoansList[m]
              /\ m = transfer.loan => myLoansList'[m] \subseteq myLoansList[m] \cup {"fundraising"}
          <6>1. {"collateral", "sendingCollateral"} \in Tile /\ {"fundraising"} \in Tile
            BY DEF Tile
          <6> QED
            BY <2>1, <2>3, <6>1, PatchType DEF COLLATERAL_TRANSFERED
        <5>2. m = transfer.loan => loanState[m] # "CollateralCollection"
          BY <1>2, <1>15, <2>3 DEF resolve, CollateralSent
        <5> QED
          BY <1>1, <1>2, <5>1, <5>2 DEF ListNotAhead, Justified, Forward
      <4> QED
        BY <4>1 DEF ListNotAhead
    <3> QED
      BY <1>7, <2>2, <2>3, <3>1 DEF COLLATERAL_TRANSFERED, NeverAhead
  <2>4. ASSUME NEW r \in Requests, PAYBACK_TRANSFERED(transfer.loan, r) PROVE NeverAhead'
    <3>1. \A m \in MyLoans : myLoansList'[m] \subseteq myLoansList[m]
      BY <2>1, <2>4, PatchType DEF PAYBACK_TRANSFERED, Tile
    <3>2. ListNotAhead'
      BY <1>2, <1>3, <3>1 DEF ListNotAhead
    <3>3. \A q \in Requests : request'[q] = request[q] \/ request'[q].answer = None
      BY <2>4, AskedAnswers DEF PAYBACK_TRANSFERED, Kinds
    <3> QED
      BY <1>7, <2>2, <3>2, <3>3 DEF NeverAhead
  <2>5. ASSUME NEW r \in Requests, NEW s \in Requests, withdrawn(r, s) PROVE NeverAhead'
    <3>1. \A q \in Requests : request'[q] = request[q] \/ request'[q].answer = None
      BY <2>5, AskedTwice
    <3> QED
      BY <1>5, <1>7, <2>2, <2>5, <3>1 DEF withdrawn, REQUEST_MY_LOANS, NeverAhead
  <2>6. ASSUME NEW r \in Requests, investedIn(transfer.loan, r) PROVE NeverAhead'
    <3>1. \A q \in Requests : request'[q] = request[q] \/ request'[q].answer = None
      BY <2>1, <2>6, AskedAnswers DEF investedIn, Kinds
    <3> QED
      BY <1>5, <1>7, <2>2, <2>6, <3>1 DEF investedIn, myLoansVars, NeverAhead
  <2> QED
    BY <1>15, <2>3, <2>4, <2>5, <2>6 DEF resolve
<1> QED
  BY <1>8, <1>9, <1>10, <1>11, <1>12, <1>13, <1>14, <1>15 DEF PagesNext

-----------------------------------------------------------------------------
LEMMA PagesInitInv == PagesInit => PagesInv
<1> SUFFICES ASSUME PagesInit PROVE PagesInv
  OBVIOUS
<1>1. \A r \in Requests : request[r] = None
  BY DEF PagesInit
<1>2. \A k \in Kinds : underWay(k) = {}
  BY <1>1 DEF underWay, asking, free
<1>3. \A l \in MyLoans : Justified(l, myLoansList[l])
  BY DEF PagesInit, Justified
<1>4. ChainOK /\ route = "elsewhere" /\ "elsewhere" \in Lists
  BY SessionsAssumption DEF PagesInit, ChainOK, Lists
<1>5. StoresOK
  BY DEF PagesInit, StoresOK, Answer, Tile
<1>6. RequestsOK
  BY <1>1 DEF PagesInit, RequestsOK, free, asking
<1>7. PagesTypeOK
  BY <1>4, <1>5, <1>6, TypeParts DEF PagesInit, Routes
<1>8. LoadingMeansRequest /\ FreshAfterTransfer /\ RouteIsAskedFor
  BY <1>4, LoansAssumption DEF PagesInit, LoadingMeansRequest, FreshAfterTransfer, RouteIsAskedFor
<1>9. NeverAhead
  BY <1>2, <1>3 DEF PagesInit, NeverAhead, ListNotAhead, AnswersNotAhead, CollateralSent, Kinds
<1> QED
  BY <1>7, <1>8, <1>9 DEF PagesInv

LEMMA PagesStep == PagesInv /\ [PagesNext]_pagesVars => PagesInv'
BY PagesType, LoadingStep, FreshStep, RouteStep, AheadStep DEF PagesInv

LEMMA PagesAlways == PagesSpec => []PagesInv
BY PagesInitInv, PagesStep, PTL DEF PagesSpec

(* What the stores, the requests and the transfer hold is always well-formed,*)
(* and a tile's button that spins is one that the page has.                 *)
THEOREM PagesTypeCorrect == PagesSpec => []PagesTypeOK
<1>1. PagesInv => PagesTypeOK
  BY DEF PagesInv
<1> QED
  BY <1>1, PagesAlways, PTL

(* A spinner has a request that takes it away, or an error replaces it; the  *)
(* page of a loan is excused after a rejected or late answer.               *)
THEOREM SpinnersEnd == PagesSpec => []SpinnerMeansRequest
<1>1. PagesInv => SpinnerMeansRequest
  BY DEF PagesInv, PagesTypeOK, LoadingMeansRequest, SpinnerMeansRequest, MyLoansView, InvestView, InvestmentView, view
<1> QED
  BY <1>1, PagesAlways, PTL

(* What a list shows after a payback or a withdrawal was read after it, or   *)
(* is about to be, unless the request for it failed or an older answer came  *)
(* last.                                                                    *)
THEOREM TransfersShow == PagesSpec => []FreshAfterTransfer
<1>1. PagesInv => FreshAfterTransfer
  BY DEF PagesInv
<1> QED
  BY <1>1, PagesAlways, PTL

(* The loan that a page shows is the one in its path, unless a late answer   *)
(* or a failure has left another.                                           *)
THEOREM LoanShown == PagesSpec => []ShowsTheLoanAskedFor
<1>1. PagesInv => ShowsTheLoanAskedFor
  BY DEF PagesInv, PagesTypeOK, RouteIsAskedFor, ShowsTheLoanAskedFor, InvestmentView, view
<1> QED
  BY <1>1, PagesAlways, PTL

(* No tile shows a stage that its contract has not reached, or a withdrawal  *)
(* that is not owed, as long as no transaction was reverted.                *)
THEOREM TilesNotAhead == PagesSpec => []TilesNeverAhead
<1>1. PagesInv => TilesNeverAhead
  BY DEF PagesInv, NeverAhead, ListNotAhead, Justified, TilesNeverAhead
<1> QED
  BY <1>1, PagesAlways, PTL

=============================================================================
