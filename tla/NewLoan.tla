------------------------------- MODULE NewLoan -------------------------------
(***************************************************************************)
(* From the form of RequestLoan.vue to an indexed loan: Client.newLoan,      *)
(* which deploys a contract with the definitions that every caller shares,   *)
(* waits until it is mined and stored, has it indexed and loads it.  The     *)
(* user may leave the form, and come back to a new one, in the meantime.    *)
(***************************************************************************)
EXTENDS ContractDefinitions

CONSTANTS
    Requests,       \* bound: the loans that are asked for in a session
    Retries,        \* waitTxMined: timeout / poll
    NoRequest

ASSUME RequestsAssumption == Requests \subseteq Callers /\ NoRequest \notin Requests
ASSUME RetriesAssumption == Retries \in Nat \ {0}

VARIABLES
    stage,          \* the await at which each request is
    amount,         \* what was entered in the form
    retries,        \* of its waitTxMined
    tx,             \* its transaction, on the chain
    indexed,        \* the requests whose contracts the metabackend knows
    page,
    loading         \* the request that the form on the page waits for

newLoanVars == <<stage, amount, retries, tx, indexed, page, loading>>
allVars == <<vars, newLoanVars>>

Pages == {"borrow", "my-loans", "invest"}
InDeploy == {"mining", "receipt", "code"}
Ended == {"resolved", "rejected"}
Stages == {"none", "checks", "abi", "bytecode", "signing", "existing", "indexing", "loading"} \cup InDeploy \cup Ended

NewLoanInit ==
    /\ Init
    /\ stage = [c \in Requests |-> "none"]
    /\ amount = [c \in Requests |-> 0]
    /\ retries = [c \in Requests |-> Retries]
    /\ tx = [c \in Requests |-> "none"]
    /\ indexed = {}
    /\ page = "invest" /\ loading = NoRequest

(* What the validators of the form let pass (bound: one positive amount): 0  *)
(* is a "non negative positive number".                                     *)
nonNegativeNumber == {0, 1}

requestLoanAction(c) ==
    /\ page = "borrow" /\ loading = NoRequest
    /\ stage[c] = "none"
    /\ \E entered \in nonNegativeNumber : amount' = [amount EXCEPT ![c] = entered]
    /\ stage' = [stage EXCEPT ![c] = "checks"]
    /\ loading' = c
    /\ UNCHANGED <<vars, retries, tx, indexed, page>>

(* A destroyed form forgets its request, which goes on.                     *)
visit(to) ==
    /\ page # to /\ page' = to
    /\ loading' = NoRequest
    /\ UNCHANGED <<vars, stage, amount, retries, tx, indexed>>

-----------------------------------------------------------------------------
(* The promise of a request goes on, or is rejected: the form that waits for *)
(* it, if it is still there, shows the error and its button.                *)
proceed(c, to) == stage' = [stage EXCEPT ![c] = to] /\ UNCHANGED <<page, loading>>

reject_AnyForm(c) == stage' = [stage EXCEPT ![c] = "rejected"] /\ loading' = NoRequest /\ UNCHANGED page

reject(c) ==
    /\ stage' = [stage EXCEPT ![c] = "rejected"]
    /\ loading' = IF loading = c THEN NoRequest ELSE loading
    /\ UNCHANGED page

(* Nothing but the stage changes, whether the await ends well or not.       *)
noEffect == UNCHANGED <<vars, amount, retries, tx, indexed>>

awaitDefinitions(c, to) ==
    getABI(c) /\ proceed(c, to) /\ UNCHANGED <<amount, retries, tx, indexed>>

mayPlace(c) == amount[c] > 0

(* newLoan, once the client is there; the initialisation can fail.          *)
newLoan(c) ==
    /\ stage[c] = "checks"
    /\ \/ mayPlace(c) /\ awaitDefinitions(c, "abi")
       \/ reject(c) /\ noEffect

(* deploy awaits getABI, then getBytecode, then the signature.              *)
getBytecode(c) ==
    /\ stage[c] = "abi" /\ call[c] \in Settled
    /\ IF call[c] = "resolved" THEN awaitDefinitions(c, "bytecode") ELSE reject(c) /\ noEffect

contractNew(c) ==
    /\ stage[c] = "bytecode" /\ call[c] \in Settled
    /\ IF call[c] = "resolved" THEN proceed(c, "signing") ELSE reject(c)
    /\ noEffect

(* The user signs the deployment, and it is sent, or it fails.              *)
transactionHash(c) ==
    /\ stage[c] = "signing"
    /\ \/ /\ tx' = [tx EXCEPT ![c] = "pending"] /\ proceed(c, "mining")
          /\ UNCHANGED <<vars, amount, retries, indexed>>
       \/ reject(c) /\ noEffect

(* The miners; a constructor that runs out of gas leaves no code.           *)
mine(c) ==
    /\ tx[c] = "pending"
    /\ \E outcome \in {"deployed", "reverted"} : tx' = [tx EXCEPT ![c] = outcome]
    /\ UNCHANGED <<vars, stage, amount, retries, indexed, page, loading>>

inBlock(c) == tx[c] \in {"deployed", "reverted"}

(* The second callback of web3's contract.new, if it is an error; `confirmed` *)
(* keeps out any other.                                                     *)
deploymentFailed(c) ==
    /\ stage[c] \in InDeploy /\ tx[c] = "reverted"
    /\ reject(c) /\ noEffect

countDown(c) == retries[c] - 1

(* The interval of waitTxMined: the last time it fires it gives up.         *)
poll(c) ==
    /\ stage[c] = "mining"
    /\ retries' = [retries EXCEPT ![c] = countDown(c)]
    /\ IF countDown(c) = 0 THEN reject(c) ELSE proceed(c, "mining")
    /\ UNCHANGED <<vars, amount, tx, indexed>>

receiptFound(c) ==
    /\ stage[c] = "mining" /\ retries[c] < Retries
    /\ inBlock(c)
    /\ proceed(c, "receipt") /\ noEffect

(* waitContractDeployed asks for the receipt again; now an error of the node *)
(* counts as a contract that has disappeared.                               *)
contractAddress(c) ==
    /\ stage[c] = "receipt"
    /\ proceed(c, "code") \/ reject(c)
    /\ noEffect

stored_Assumed(c) == TRUE

stored(c) == tx[c] = "deployed"

getCode(c) ==
    /\ stage[c] = "code"
    /\ \/ stored(c) /\ awaitDefinitions(c, "existing")
       \/ reject(c) /\ noEffect

existing(c) ==
    /\ stage[c] = "existing" /\ call[c] \in Settled
    /\ IF call[c] = "resolved" THEN proceed(c, "indexing") ELSE reject(c)
    /\ noEffect

(* The metabackend indexes the loan, unless it fails; the answer may be lost. *)
IndexLoan(c) ==
    /\ stage[c] = "indexing"
    /\ \/ indexed' = indexed \cup {c} /\ (proceed(c, "loading") \/ reject(c))
       \/ indexed' = indexed /\ reject(c)
    /\ UNCHANGED <<vars, amount, retries, tx>>

(* Client.loan: when it ends the user goes to his loans from where he is.   *)
loan(c) ==
    /\ stage[c] = "loading"
    /\ \/ /\ stage' = [stage EXCEPT ![c] = "resolved"]
          /\ page' = "my-loans"
          /\ loading' = NoRequest
       \/ reject(c)
    /\ noEffect

Continue(c) ==
    \/ newLoan(c) \/ getBytecode(c) \/ contractNew(c) \/ transactionHash(c)
    \/ deploymentFailed(c) \/ poll(c) \/ receiptFound(c) \/ contractAddress(c)
    \/ getCode(c) \/ existing(c) \/ IndexLoan(c) \/ loan(c)

Definitions(c) ==
    /\ getContractDefinitions(c) \/ Answer(c) \/ (c \notin Requests /\ getABI(c))
    /\ UNCHANGED newLoanVars

NewLoanNext ==
    \/ \E c \in Requests : requestLoanAction(c) \/ mine(c) \/ Continue(c)
    \/ \E c \in Callers : Definitions(c)
    \/ \E to \in Pages : visit(to)

NewLoanSpec == NewLoanInit /\ [][NewLoanNext]_allVars

(* The event loop runs every continuation and every timer, every request is  *)
(* answered, and so is the prompt to sign; nothing need ever be mined.      *)
NewLoanFairSpec ==
    /\ NewLoanSpec
    /\ \A c \in Callers : /\ WF_allVars(getContractDefinitions(c) /\ UNCHANGED newLoanVars)
                          /\ WF_allVars(Answer(c) /\ UNCHANGED newLoanVars)
    /\ \A c \in Requests : WF_allVars(Continue(c))

-----------------------------------------------------------------------------
NewLoanTypeOK ==
    /\ TypeOK
    /\ stage \in [Requests -> Stages] /\ amount \in [Requests -> {0, 1}]
    /\ retries \in [Requests -> 0 .. Retries]
    /\ tx \in [Requests -> {"none", "pending", "deployed", "reverted"}]
    /\ indexed \subseteq Requests /\ page \in Pages
    /\ loading \in Requests \cup {NoRequest}

(* What is indexed is a contract with code, for an amount that can be lent:  *)
(* receipts say that a transaction was mined, not that it succeeded, and the *)
(* form lets 0 pass (client.ts:97-122, blockchain.ts:362-389,                *)
(* RequestLoan.vue:92-98).                                                  *)
IndexedIsALoan == \A c \in indexed : tx[c] = "deployed" /\ amount[c] > 0

(* The spinner in place of the form's button is that of a request under way, *)
(* on that page.                                                            *)
FormWaits == loading # NoRequest => page = "borrow" /\ stage[loading] \notin {"none"} \cup Ended

(* A form waits for the request that was made from it until that request     *)
(* fails or the page is left: the error of a request whose form is gone lets *)
(* no other form's spinner go (RequestLoan.vue:101-115).                     *)
SpinnerIsForARequest ==
    /\ []FormWaits
    /\ [][loading' # loading =>
            IF loading = NoRequest THEN stage[loading'] = "none"
            ELSE loading' = NoRequest /\ (page' # page \/ stage'[loading] = "rejected")]_allVars

(* As long as the metabackend answers, every request ends: in the loans of   *)
(* the user, or in the form with an error - also when its transaction is     *)
(* never mined; and no other caller of getABI waits for ever behind them     *)
(* (client.ts:97-122, blockchain.ts:239-269, 271-320, 362-389).             *)
EveryLoanRequestEnds ==
    /\ EveryCallSettles
    /\ [](\A c \in Callers : call[c] # "failed") =>
            \A c \in Requests : stage[c] = "checks" ~> stage[c] \in Ended
=============================================================================
