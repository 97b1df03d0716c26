--------------------------- MODULE NewLoan_proofs ---------------------------
(***************************************************************************)
(* One download of the definitions, no index without a loan, and spinners    *)
(* with a request behind them: for any number of callers and requests.      *)
(***************************************************************************)
EXTENDS NewLoan, TLAPS

-----------------------------------------------------------------------------
(* The mutex of the definitions.                                            *)

(* Whoever waits is in the lock once; a caller who is gone stays in front.   *)
Queued ==
    \A i \in 1 .. Len(lock) :
        /\ lock[i] = Gone => i = 1
        /\ lock[i] # Gone => call[lock[i]] \in {"acquire", "invoke"}

DownloaderHoldsLock ==
    \A c \in Callers : call[c] = "invoke" => holds(c) /\ ~contractDefinitions

DefinitionsInv == TypeOK /\ Queued /\ DownloaderHoldsLock

LEMMA DefinitionsInvInit == Init => DefinitionsInv
<1>1. << >> \in Seq(Callers \cup {Gone}) /\ Len(<< >>) = 0 /\ IsInjective(<< >>)
  BY DEF IsInjective
<1> SUFFICES ASSUME Init PROVE DefinitionsInv
  OBVIOUS
<1>2. lock \in Seq(Callers \cup {Gone}) /\ Len(lock) = 0 /\ IsInjective(lock)
  BY <1>1, Zenon DEF Init
<1>3. TypeOK
  BY <1>2 DEF Init, TypeOK
<1>4. Queued /\ DownloaderHoldsLock
  BY <1>2 DEF Init, Queued, DownloaderHoldsLock
<1> QED
  BY <1>3, <1>4 DEF DefinitionsInv

(* An element that is not there can be appended or put in front.            *)
LEMMA AppendNew ==
    ASSUME NEW S, NEW s \in Seq(S), IsInjective(s), NEW e \in S,
           \A i \in 1 .. Len(s) : s[i] # e
    PROVE  Append(s, e) \in Seq(S) /\ IsInjective(Append(s, e))
<1>1. /\ Append(s, e) \in Seq(S) /\ Append(s, e)[Len(s) + 1] = e
      /\ \A i \in 1 .. Len(s) : Append(s, e)[i] = s[i]
  OBVIOUS
<1>2. DOMAIN s = 1 .. Len(s) /\ DOMAIN Append(s, e) = 1 .. Len(s) + 1 /\ Len(s) \in Nat
  OBVIOUS
<1>3. \A i \in 1 .. Len(s) + 1 : i \in 1 .. Len(s) \/ i = Len(s) + 1
  BY <1>2
<1>4. IsInjective(Append(s, e))
  <2> SUFFICES ASSUME NEW i \in 1 .. Len(s) + 1, NEW j \in 1 .. Len(s) + 1,
                      Append(s, e)[i] = Append(s, e)[j]
               PROVE  i = j
    BY <1>2, Zenon DEF IsInjective
  <2>1. CASE i \in 1 .. Len(s) /\ j \in 1 .. Len(s)
    BY <2>1, <1>1, <1>2, Zenon DEF IsInjective
  <2> QED
    BY <2>1, <1>1, <1>3
<1> QED
  BY <1>1, <1>4

LEMMA TailOfInjective ==
    ASSUME NEW S, NEW s \in Seq(S), s # << >>, IsInjective(s)
    PROVE  /\ Tail(s) \in Seq(S) /\ IsInjective(Tail(s))
           /\ Len(Tail(s)) = Len(s) - 1
           /\ \A i \in 1 .. Len(s) - 1 : Tail(s)[i] = s[i + 1] /\ Tail(s)[i] # Head(s)
<1>1. Len(Tail(s)) = Len(s) - 1 /\ \A i \in 1 .. Len(s) - 1 : Tail(s)[i] = s[i + 1]
  OBVIOUS
<1>2. DOMAIN s = 1 .. Len(s) /\ DOMAIN Tail(s) = 1 .. Len(s) - 1 /\ Head(s) = s[1]
  BY <1>1
<1> QED
  BY <1>1, <1>2 DEF IsInjective

LEMMA HeadReplaced ==
    ASSUME NEW S, NEW s \in Seq(S), s # << >>, IsInjective(s), NEW e \in S,
           \A i \in 2 .. Len(s) : s[i] # e
    PROVE  LET t == <<e>> \o Tail(s)
           IN /\ t \in Seq(S) /\ IsInjective(t) /\ Len(t) = Len(s) /\ t[1] = e
              /\ \A i \in 2 .. Len(s) : t[i] = s[i]
<1> DEFINE t == <<e>> \o Tail(s)
<1>1. t \in Seq(S) /\ Len(t) = Len(s)
  OBVIOUS
<1>2. t[1] = e /\ \A i \in 2 .. Len(s) : t[i] = s[i]
  OBVIOUS
<1>3. DOMAIN t = 1 .. Len(s) /\ DOMAIN s = 1 .. Len(s)
  BY <1>1
<1>4. IsInjective(t)
  <2> SUFFICES ASSUME NEW i \in 1 .. Len(s), NEW j \in 1 .. Len(s), t[i] = t[j] PROVE i = j
    BY <1>3 DEF IsInjective
  <2>1. CASE i = 1 \/ j = 1
    BY <2>1, <1>2
  <2>2. CASE i \in 2 .. Len(s) /\ j \in 2 .. Len(s)
    BY <2>2, <1>2, <1>3 DEF IsInjective
  <2> QED
    BY <2>1, <2>2
<1> QED
  BY <1>1, <1>2, <1>4

LEMMA GetABIKeeps ==
    ASSUME DefinitionsInv, NEW c \in Callers, getABI(c) PROVE DefinitionsInv'
<1> USE CallersAssumption
<1>1. lock \in Seq(Callers \cup {Gone}) /\ IsInjective(lock)
  BY DEF DefinitionsInv, TypeOK
<1>2. lock' = Append(lock, c) /\ call' = [call EXCEPT ![c] = "acquire"]
  BY DEF getABI, acquire
<1>3. \A i \in 1 .. Len(lock) : lock[i] # c
  BY DEF DefinitionsInv, Queued, getABI, Settled
<1>4. TypeOK'
  <2>1. lock' \in Seq(Callers \cup {Gone}) /\ IsInjective(lock')
    BY <1>1, <1>2, <1>3, AppendNew
  <2> QED
    BY <1>2, <2>1 DEF DefinitionsInv, TypeOK, getABI
<1>5. Queued'
  <2>1. Len(lock') = Len(lock) + 1 /\ lock'[Len(lock) + 1] = c
    BY <1>1, <1>2
  <2>2. \A i \in 1 .. Len(lock) : lock'[i] = lock[i]
    BY <1>1, <1>2
  <2> QED
    BY <1>2, <2>1, <2>2 DEF DefinitionsInv, Queued, TypeOK
<1>6. DownloaderHoldsLock'
  <2>1. lock # << >> => lock' # << >> /\ Head(lock') = Head(lock)
    BY <1>1, <1>2
  <2> QED
    BY <1>2, <2>1 DEF DefinitionsInv, DownloaderHoldsLock, TypeOK, getABI, holds
<1> QED
  BY <1>4, <1>5, <1>6 DEF DefinitionsInv

(* A holder leaves the lock to the next.                                    *)
LEMMA ReleaseKeeps ==
    ASSUME DefinitionsInv, NEW c \in Callers, holds(c), release, NEW outcome \in Settled,
           settle(c, outcome), contractDefinitions' \in BOOLEAN
    PROVE  DefinitionsInv'
<1> USE CallersAssumption
<1>1. lock \in Seq(Callers \cup {Gone}) /\ IsInjective(lock) /\ lock # << >> /\ Head(lock) = c
  BY DEF DefinitionsInv, TypeOK, holds
<1>2. lock' = Tail(lock) /\ call' = [call EXCEPT ![c] = outcome]
  BY DEF release, settle
<1>3. TypeOK'
  BY <1>1, <1>2, TailOfInjective DEF DefinitionsInv, TypeOK, Settled
<1>4. Queued'
  <2>1. Len(lock') = Len(lock) - 1
    BY <1>1, <1>2, TailOfInjective
  <2>2. \A i \in 1 .. Len(lock) - 1 : lock'[i] = lock[i + 1] /\ lock'[i] # c
    BY <1>1, <1>2, TailOfInjective
  <2>3. \A i \in 1 .. Len(lock) - 1 : lock[i + 1] # Gone /\ lock[i + 1] \in Callers
    BY <1>1 DEF DefinitionsInv, Queued
  <2> QED
    BY <1>2, <2>1, <2>2, <2>3, <1>1 DEF DefinitionsInv, Queued, TypeOK
<1>5. DownloaderHoldsLock'
  BY <1>1, <1>2 DEF DefinitionsInv, DownloaderHoldsLock, TypeOK, holds, Settled
<1> QED
  BY <1>3, <1>4, <1>5 DEF DefinitionsInv

(* A holder leaves by an exception.                                         *)
LEMMA AbandonKeeps ==
    ASSUME DefinitionsInv, NEW c \in Callers, holds(c), abandon, settle(c, "failed"),
           UNCHANGED contractDefinitions
    PROVE  DefinitionsInv'
<1> USE CallersAssumption
<1>1. lock \in Seq(Callers \cup {Gone}) /\ IsInjective(lock) /\ lock # << >> /\ Head(lock) = c
  BY DEF DefinitionsInv, TypeOK, holds
<1>2. lock' = <<Gone>> \o Tail(lock) /\ call' = [call EXCEPT ![c] = "failed"]
  BY DEF abandon, settle
<1>3. \A i \in 2 .. Len(lock) : lock[i] # Gone /\ lock[i] # c /\ lock[i] \in Callers
  BY <1>1 DEF DefinitionsInv, Queued, IsInjective
<1>4. /\ lock' \in Seq(Callers \cup {Gone}) /\ IsInjective(lock')
      /\ Len(lock') = Len(lock) /\ lock'[1] = Gone
      /\ \A i \in 2 .. Len(lock) : lock'[i] = lock[i]
  BY <1>1, <1>2, <1>3, HeadReplaced
<1>5. TypeOK'
  BY <1>2, <1>4 DEF DefinitionsInv, TypeOK, Settled
<1>6. Queued'
  BY <1>1, <1>2, <1>3, <1>4 DEF DefinitionsInv, Queued, TypeOK
<1>7. DownloaderHoldsLock'
  BY <1>1, <1>2 DEF DefinitionsInv, DownloaderHoldsLock, TypeOK, holds
<1> QED
  BY <1>5, <1>6, <1>7 DEF DefinitionsInv

LEMMA DefinitionsInvNext == DefinitionsInv /\ [Next]_vars => DefinitionsInv'
<1> SUFFICES ASSUME DefinitionsInv, [Next]_vars PROVE DefinitionsInv'
  OBVIOUS
<1>1. CASE UNCHANGED vars
  BY <1>1 DEF DefinitionsInv, TypeOK, Queued, DownloaderHoldsLock, holds, vars
<1>2. ASSUME NEW c \in Callers, getABI(c) PROVE DefinitionsInv'
  BY <1>2, GetABIKeeps
<1>3. ASSUME NEW c \in Callers, getContractDefinitions(c) PROVE DefinitionsInv'
  <2>1. CASE contractDefinitions
    <3>1. holds(c) /\ release /\ settle(c, "resolved") /\ contractDefinitions' \in BOOLEAN
      BY <1>3, <2>1 DEF getContractDefinitions, cached
    <3> QED
      BY <3>1, ReleaseKeeps DEF Settled
  <2>2. CASE ~contractDefinitions
    <3>1. /\ holds(c) /\ call' = [call EXCEPT ![c] = "invoke"]
          /\ UNCHANGED <<lock, contractDefinitions>>
      BY <1>3, <2>2 DEF getContractDefinitions, cached, settle
    <3> QED
      BY <2>2, <3>1 DEF DefinitionsInv, TypeOK, Queued, DownloaderHoldsLock, holds
  <2> QED
    BY <2>1, <2>2
<1>4. ASSUME NEW c \in Callers, NEW answer \in Answers, invoke(c, answer) PROVE DefinitionsInv'
  <2>1. holds(c)
    BY <1>4 DEF DefinitionsInv, DownloaderHoldsLock, invoke
  <2>2. CASE answer = "definitions"
    BY <1>4, <2>1, <2>2, ReleaseKeeps DEF invoke, downloaded, Settled
  <2>3. CASE answer = "otherNetwork"
    <3>1. invalidNetwork(c)
      BY <1>4, <2>3 DEF invoke
    <3>2. contractDefinitions' \in BOOLEAN
      BY <3>1 DEF invalidNetwork, DefinitionsInv, TypeOK
    <3> QED
      BY <2>1, <3>1, <3>2, ReleaseKeeps DEF invalidNetwork, Settled
  <2>4. CASE answer = "error"
    BY <1>4, <2>1, <2>4, AbandonKeeps DEF invoke
  <2> QED
    BY <2>2, <2>3, <2>4, AnswersAssumption
<1> QED
  BY <1>1, <1>2, <1>3, <1>4 DEF Next, Answer

-----------------------------------------------------------------------------
(* newLoan uses the definitions as any caller does: every step of it is one  *)
(* of ContractDefinitions, or none (blockchain.ts:271-274, 322-326).         *)
THEOREM DefinitionsInside == NewLoanSpec => Spec
<1>1. NewLoanInit => Init
  BY DEF NewLoanInit
<1>2. [NewLoanNext]_allVars => [Next]_vars
  <2> SUFFICES ASSUME [NewLoanNext]_allVars PROVE [Next]_vars
    OBVIOUS
  <2>1. CASE UNCHANGED allVars
    BY <2>1 DEF allVars
  <2>2. ASSUME NEW c \in Requests, requestLoanAction(c) \/ mine(c) PROVE UNCHANGED vars
    BY <2>2 DEF requestLoanAction, mine
  <2>3. ASSUME NEW c \in Requests, Continue(c) PROVE [Next]_vars
    <3>1. getABI(c) => Next
      BY RequestsAssumption DEF Next
    <3>2. CASE newLoan(c) \/ getBytecode(c) \/ getCode(c)
      BY <3>1, <3>2 DEF newLoan, getBytecode, getCode, awaitDefinitions, noEffect
    <3>3. CASE contractNew(c) \/ transactionHash(c) \/ deploymentFailed(c) \/ poll(c)
               \/ receiptFound(c) \/ contractAddress(c) \/ existing(c) \/ IndexLoan(c) \/ loan(c)
      BY <3>3 DEF contractNew, transactionHash, deploymentFailed, poll, receiptFound,
                  contractAddress, existing, IndexLoan, loan, noEffect
    <3> QED
      BY <2>3, <3>2, <3>3 DEF Continue
  <2>4. ASSUME NEW c \in Callers, Definitions(c) PROVE Next
    BY <2>4 DEF Definitions, Next
  <2>5. ASSUME NEW to \in Pages, visit(to) PROVE UNCHANGED vars
    BY <2>5 DEF visit
  <2> QED
    BY <2>1, <2>2, <2>3, <2>4, <2>5 DEF NewLoanNext
<1> QED
  BY <1>1, <1>2, PTL DEF NewLoanSpec, Spec

LEMMA DefinitionsInvAlways == NewLoanSpec => []DefinitionsInv
  BY DefinitionsInside, DefinitionsInvInit, DefinitionsInvNext, PTL DEF Spec

(* The definitions are asked for by one caller at a time and never again     *)
(* once they are there (metabackend.ts:118-134).                            *)
THEOREM DownloadedOnce == NewLoanSpec => []OneDownload
<1>1. DefinitionsInv => OneDownload
  BY DEF DefinitionsInv, DownloaderHoldsLock, OneDownload, holds
<1> QED
  BY <1>1, DefinitionsInvAlways, PTL

-----------------------------------------------------------------------------
(* The requests.                                                            *)

RequestType ==
    /\ stage \in [Requests -> Stages] /\ amount \in [Requests -> {0, 1}]
    /\ retries \in [Requests -> 0 .. Retries]
    /\ tx \in [Requests -> {"none", "pending", "deployed", "reverted"}]
    /\ indexed \subseteq Requests /\ page \in Pages
    /\ loading \in Requests \cup {NoRequest}

(* A request gets past the checks with a positive amount, past the look at   *)
(* the code with a contract, and into the index at the very end.            *)
CheckedInOrder ==
    \A c \in Requests :
        /\ stage[c] \notin {"none", "checks", "rejected"} => amount[c] > 0
        /\ stage[c] \in {"existing", "indexing", "loading", "resolved"} => tx[c] = "deployed"
        /\ c \in indexed => stage[c] \in {"loading", "resolved", "rejected"}

(* While a request waits for the receipt it counts down.                    *)
Counting == \A c \in Requests : stage[c] # "rejected" => retries[c] > 0

RequestInv ==
    RequestType /\ CheckedInOrder /\ IndexedIsALoan /\ FormWaits /\ Counting

USE RequestsAssumption, RetriesAssumption
    DEF Stages, InDeploy, Ended, Pages, RequestType, CheckedInOrder, Counting, IndexedIsALoan,
        FormWaits

LEMMA RequestInvInit == NewLoanInit => RequestInv
  BY DEF NewLoanInit, RequestInv

(* A promise goes on past a check that holds, or is rejected.               *)
LEMMA ProceedKeeps ==
    ASSUME RequestInv, NEW c \in Requests, NEW to \in Stages \ ({"none"} \cup Ended), proceed(c, to),
           stage[c] \notin {"none", "rejected"},
           stage[c] = "checks" => mayPlace(c),
           to \in {"checks"} => stage[c] = "checks",
           to \in {"existing", "indexing", "loading"} => tx[c] = "deployed",
           c \in indexed => to = "loading",
           UNCHANGED <<amount, retries, tx, indexed>>
    PROVE  RequestInv'
  BY DEF RequestInv, proceed, mayPlace

LEMMA RejectKeeps ==
    ASSUME RequestInv, NEW c \in Requests, reject(c), UNCHANGED <<amount, retries, tx, indexed>>
    PROVE  RequestInv'
  BY DEF RequestInv, reject

LEMMA ContinueKeeps ==
    ASSUME RequestInv, NEW c \in Requests, Continue(c) PROVE RequestInv'
<1> USE DEF noEffect
<1>1. CASE newLoan(c)
  BY <1>1, ProceedKeeps, RejectKeeps DEF RequestInv, newLoan, awaitDefinitions
<1>2. CASE getBytecode(c) \/ contractNew(c)
  BY <1>2, ProceedKeeps, RejectKeeps DEF RequestInv, getBytecode, contractNew, awaitDefinitions
<1>3. CASE transactionHash(c)
  <2>1. CASE tx' = [tx EXCEPT ![c] = "pending"] /\ proceed(c, "mining")
             /\ UNCHANGED <<vars, amount, retries, indexed>>
    <3>1. c \notin indexed
      BY <1>3 DEF RequestInv, transactionHash
    <3> QED
      BY <1>3, <2>1, <3>1 DEF RequestInv, transactionHash, proceed
  <2> QED
    BY <1>3, <2>1, RejectKeeps DEF transactionHash
<1>4. CASE deploymentFailed(c)
  BY <1>4, RejectKeeps DEF deploymentFailed
<1>5. CASE poll(c)
  <2>1. retries[c] \in 1 .. Retries
    BY <1>5 DEF RequestInv, poll
  <2>2. retries' = [retries EXCEPT ![c] = retries[c] - 1] /\ UNCHANGED <<amount, tx, indexed>>
    BY <1>5 DEF poll, countDown
  <2>3. CASE retries[c] - 1 = 0 /\ reject(c)
    BY <1>5, <2>1, <2>2, <2>3 DEF RequestInv, reject
  <2>4. CASE retries[c] - 1 # 0 /\ proceed(c, "mining")
    BY <1>5, <2>1, <2>2, <2>4 DEF RequestInv, proceed, poll
  <2> QED
    BY <1>5, <2>3, <2>4 DEF poll, countDown
<1>6. CASE receiptFound(c) \/ contractAddress(c)
  BY <1>6, ProceedKeeps, RejectKeeps DEF RequestInv, receiptFound, contractAddress
<1>7. CASE getCode(c) \/ existing(c)
  BY <1>7, ProceedKeeps, RejectKeeps DEF RequestInv, getCode, stored, existing, awaitDefinitions
<1>8. CASE IndexLoan(c)
  <2>1. tx[c] = "deployed" /\ amount[c] > 0
    BY <1>8 DEF RequestInv, IndexLoan
  <2>2. CASE indexed' = indexed \cup {c} /\ proceed(c, "loading")
    BY <1>8, <2>1, <2>2 DEF RequestInv, IndexLoan, proceed
  <2>3. CASE indexed' = indexed \cup {c} /\ reject(c)
    BY <1>8, <2>1, <2>3 DEF RequestInv, IndexLoan, reject
  <2>4. CASE indexed' = indexed /\ reject(c)
    BY <1>8, <2>4, RejectKeeps DEF IndexLoan
  <2> QED
    BY <1>8, <2>2, <2>3, <2>4 DEF IndexLoan
<1>9. CASE loan(c)
  <2>1. CASE /\ stage' = [stage EXCEPT ![c] = "resolved"]
             /\ page' = "my-loans" /\ loading' = NoRequest
    BY <1>9, <2>1 DEF RequestInv, loan
  <2> QED
    BY <1>9, <2>1, RejectKeeps DEF loan
<1> QED
  BY <1>1, <1>2, <1>3, <1>4, <1>5, <1>6, <1>7, <1>8, <1>9 DEF Continue

LEMMA RequestInvNext == RequestInv /\ [NewLoanNext]_allVars => RequestInv'
<1> SUFFICES ASSUME RequestInv, [NewLoanNext]_allVars PROVE RequestInv'
  OBVIOUS
<1>1. CASE UNCHANGED allVars
  BY <1>1 DEF RequestInv, allVars, newLoanVars
<1>2. ASSUME NEW c \in Requests, requestLoanAction(c) PROVE RequestInv'
  BY <1>2 DEF RequestInv, requestLoanAction, nonNegativeNumber
<1>3. ASSUME NEW c \in Requests, mine(c) PROVE RequestInv'
  BY <1>3 DEF RequestInv, mine
<1>4. ASSUME NEW c \in Requests, Continue(c) PROVE RequestInv'
  BY <1>4, ContinueKeeps
<1>5. ASSUME NEW c \in Callers, Definitions(c) PROVE RequestInv'
  BY <1>5 DEF RequestInv, Definitions, newLoanVars
<1>6. ASSUME NEW to \in Pages, visit(to) PROVE RequestInv'
  BY <1>6 DEF RequestInv, visit
<1> QED
  BY <1>1, <1>2, <1>3, <1>4, <1>5, <1>6 DEF NewLoanNext

LEMMA RequestInvAlways == NewLoanSpec => []RequestInv
  BY RequestInvInit, RequestInvNext, PTL DEF NewLoanSpec

(* The variables of the requests and of the mutex keep their types; the lock *)
(* holds nobody twice (client.ts:97-122, metabackend.ts:118-137).            *)
THEOREM NewLoanTypeCorrect == NewLoanSpec => []NewLoanTypeOK
<1>1. DefinitionsInv /\ RequestInv => NewLoanTypeOK
  BY DEF DefinitionsInv, RequestInv, NewLoanTypeOK
<1> QED
  BY <1>1, DefinitionsInvAlways, RequestInvAlways, PTL

(* The metabackend indexes only contracts that have code, for amounts that   *)
(* can be lent (client.ts:97-122, blockchain.ts:362-389).                    *)
THEOREM IndexedAreLoans == NewLoanSpec => []IndexedIsALoan
<1>1. RequestInv => IndexedIsALoan
  BY DEF RequestInv
<1> QED
  BY <1>1, RequestInvAlways, PTL

(* A step takes a form's spinner away when its own request fails or the page *)
(* is left, and puts one there for a new request only.                       *)
SpinnerStep ==
    loading' # loading =>
        IF loading = NoRequest THEN stage[loading'] = "none"
        ELSE loading' = NoRequest /\ (page' # page \/ stage'[loading] = "rejected")

LEMMA SpinnerStepNext == RequestInv /\ [NewLoanNext]_allVars => SpinnerStep
<1> SUFFICES ASSUME RequestInv, [NewLoanNext]_allVars PROVE SpinnerStep
  OBVIOUS
<1>1. CASE UNCHANGED allVars
  BY <1>1 DEF allVars, newLoanVars, SpinnerStep
<1>2. ASSUME NEW c \in Requests, requestLoanAction(c) \/ mine(c) PROVE SpinnerStep
  BY <1>2 DEF requestLoanAction, mine, SpinnerStep
<1>3. ASSUME NEW c \in Requests, Continue(c) PROVE SpinnerStep
  <2>1. \A to : proceed(c, to) => SpinnerStep
    BY DEF proceed, SpinnerStep
  <2>2. reject(c) => SpinnerStep
    BY DEF RequestInv, reject, SpinnerStep
  <2>3. CASE loan(c)
    BY <2>2, <2>3 DEF RequestInv, loan, SpinnerStep
  <2>4. CASE ~loan(c)
    BY <1>3, <2>1, <2>2, <2>4
       DEF Continue, newLoan, getBytecode, contractNew, transactionHash, deploymentFailed, poll,
           receiptFound, contractAddress, getCode, existing, IndexLoan, awaitDefinitions
  <2> QED
    BY <2>3, <2>4
<1>4. ASSUME NEW c \in Callers, Definitions(c) PROVE SpinnerStep
  BY <1>4 DEF Definitions, newLoanVars, SpinnerStep
<1>5. ASSUME NEW to \in Pages, visit(to) PROVE SpinnerStep
  BY <1>5 DEF visit, SpinnerStep
<1> QED
  BY <1>1, <1>2, <1>3, <1>4, <1>5 DEF NewLoanNext

(* A spinner on the form is that of a request under way which was made from  *)
(* it, and no other request takes it away, whoever leaves and comes back     *)
(* (RequestLoan.vue:101-115).                                               *)
THEOREM SpinnersAreForRequests == NewLoanSpec => SpinnerIsForARequest
<1>1. RequestInv => FormWaits
  BY DEF RequestInv
<1> QED
  BY <1>1, RequestInvAlways, SpinnerStepNext, PTL DEF NewLoanSpec, SpinnerIsForARequest, SpinnerStep
=============================================================================
