----------------------------- MODULE LoanIndex -----------------------------
(***************************************************************************)
(* The index of the metabackend: server.go's IndexLoan over the two tables  *)
(* of model.go, with the statements of model/loans.go in the order they     *)
(* reach the database.  The handler opens a transaction, but both INSERTs   *)
(* go through the connection pool: each takes effect at once, for everybody *)
(* and for good.  One network.                                             *)
(***************************************************************************)
EXTENDS FiniteSets

CONSTANTS
    Loans,          \* addresses submitted to the index
    Requests,       \* the calls of IndexLoan
    Processes,      \* the metabackends that share the database
    ShortIds,       \* what the generator can hand out
    None,
    Faults          \* BOOLEAN: do the chain, the database and the server fail?

ASSUME NoneAssumption == None \notin ShortIds \cup Loans
ASSUME FaultsAssumption == Faults \in BOOLEAN

VARIABLES
    loan_metadata,              \* rows: unique in shortid, unique in deployed_address
    deployed_loan_parameters,   \* the primary keys: deployed addresses
    generated,                  \* what each process's generator has handed out
    request                     \* where each call is, and its local variables

vars == <<loan_metadata, deployed_loan_parameters, generated, request>>

Rows == [shortid : ShortIds, deployed_address : Loans, description : Requests]
Finished == {"answered", "failed"}
Steps == {"new", "generate", "upsert", "insert", "commit"} \cup Finished
RequestState == [step : Steps, loan : Loans \cup {None}, process : Processes \cup {None},
                 shortid : ShortIds \cup {None}, fault : BOOLEAN]

TypeOK ==
    /\ loan_metadata \subseteq Rows
    /\ \A m, n \in loan_metadata :
          m.shortid = n.shortid \/ m.deployed_address = n.deployed_address => m = n
    /\ deployed_loan_parameters \subseteq Loans
    /\ generated \in [Processes -> SUBSET ShortIds]
    /\ request \in [Requests -> RequestState]

Init ==
    /\ loan_metadata = {}
    /\ deployed_loan_parameters = {}
    /\ generated = [p \in Processes |-> {}]
    /\ request = [r \in Requests |-> [step |-> "new", loan |-> None, process |-> None,
                                      shortid |-> None, fault |-> FALSE]]

goto(r, step) == request' = [request EXCEPT ![r].step = step]

(* Something outside went wrong: the call returns an error.                 *)
fault(r) ==
    /\ Faults
    /\ request' = [request EXCEPT ![r].step = "failed", ![r].fault = TRUE]

shortIdsStored == {m.shortid : m \in loan_metadata}
addressesStored == {m.deployed_address : m \in loan_metadata}

(* Seven reads of the chain: there may be no loan, or not one of an amount. *)
LoadParametersFromBlockchain(r, p, a) ==
    \/ request' = [request EXCEPT ![r].step = "generate", ![r].loan = a, ![r].process = p]
    \/ fault(r)

IndexLoan(r, p, a) ==
    /\ request[r].step = "new"
    /\ LoadParametersFromBlockchain(r, p, a)
    /\ UNCHANGED <<loan_metadata, deployed_loan_parameters, generated>>

(* SELECT COUNT of the rows with the candidate.                            *)
unused(id) == id \notin shortIdsStored

(* Try fresh identifiers until one is unused, or give up.                   *)
generateShortId(r) ==
    LET p == request[r].process
    IN /\ request[r].step = "generate"
       /\ \/ \E id \in ShortIds \ generated[p] :
                /\ generated' = [generated EXCEPT ![p] = @ \cup {id}]
                /\ IF unused(id)
                   THEN request' = [request EXCEPT ![r].step = "upsert", ![r].shortid = id]
                   ELSE UNCHANGED request
          \/ fault(r) /\ UNCHANGED generated
       /\ UNCHANGED <<loan_metadata, deployed_loan_parameters>>

UpsertMetadata_Overwrites(r) ==
    LET id == request[r].shortid
        a == request[r].loan
    IN /\ request[r].step = "upsert"
       /\ loan_metadata' = {m \in loan_metadata : m.shortid # id} \cup
                               {[shortid |-> id, deployed_address |-> a, description |-> r]}
       /\ goto(r, "insert")
       /\ UNCHANGED <<deployed_loan_parameters, generated>>

(* INSERT .. ON CONFLICT (shortid) DO UPDATE SET description: a conflict of  *)
(* the deployed address is an error.                                       *)
UpsertMetadata(r) ==
    LET id == request[r].shortid
        a == request[r].loan
    IN /\ request[r].step = "upsert"
       /\ \/ /\ id \in shortIdsStored
             /\ loan_metadata' = {IF m.shortid = id THEN [m EXCEPT !.description = r] ELSE m :
                                     m \in loan_metadata}
             /\ goto(r, "insert")
          \/ /\ id \notin shortIdsStored /\ a \notin addressesStored
             /\ loan_metadata' = loan_metadata \cup
                                    {[shortid |-> id, deployed_address |-> a, description |-> r]}
             /\ goto(r, "insert")
          \/ /\ id \notin shortIdsStored /\ a \in addressesStored
             /\ goto(r, "failed") /\ UNCHANGED loan_metadata
          \/ fault(r) /\ UNCHANGED loan_metadata
       /\ UNCHANGED <<deployed_loan_parameters, generated>>

InsertParameters_IgnoresErrors(r) ==
    /\ request[r].step = "insert"
    /\ goto(r, "commit")
    /\ \/ deployed_loan_parameters' = deployed_loan_parameters \cup {request[r].loan}
       \/ Faults /\ UNCHANGED deployed_loan_parameters
    /\ UNCHANGED <<loan_metadata, generated>>

InsertParameters(r) ==
    LET a == request[r].loan
    IN /\ request[r].step = "insert"
       /\ \/ /\ a \notin deployed_loan_parameters
             /\ deployed_loan_parameters' = deployed_loan_parameters \cup {a}
             /\ goto(r, "commit")
          \/ a \in deployed_loan_parameters /\ goto(r, "failed") /\ UNCHANGED deployed_loan_parameters
          \/ fault(r) /\ UNCHANGED deployed_loan_parameters
       /\ UNCHANGED <<loan_metadata, generated>>

(* The transaction contains nothing but the SELECTs.                        *)
Commit(r) ==
    /\ request[r].step = "commit"
    /\ goto(r, "answered") \/ fault(r)
    /\ UNCHANGED <<loan_metadata, deployed_loan_parameters, generated>>

(* A process ends, its calls with it, and another starts.                   *)
Restart(p) ==
    /\ Faults
    /\ request' = [r \in Requests |->
                      IF request[r].process # p \/ request[r].step \in Finished THEN request[r]
                      ELSE [request[r] EXCEPT !.step = "failed", !.fault = TRUE]]
    /\ generated' = [generated EXCEPT ![p] = {}]
    /\ UNCHANGED <<loan_metadata, deployed_loan_parameters>>

Next ==
    \/ \E p \in Processes : Restart(p)
    \/ \E r \in Requests :
          \/ \E p \in Processes, a \in Loans : IndexLoan(r, p, a)
          \/ generateShortId(r) \/ UpsertMetadata(r) \/ InsertParameters(r) \/ Commit(r)

Spec == Init /\ [][Next]_vars

-----------------------------------------------------------------------------
(* GetLoans by short id: the rows of the two tables that join.              *)
GetLoans(id) ==
    {m \in loan_metadata : m.shortid = id /\ m.deployed_address \in deployed_loan_parameters}

answered(r) == request[r].step = "answered"

(* A generator that does not repeat itself gives a short id to one call; two  *)
(* processes may give it to two.                                           *)
alone(r) ==
    \A q \in Requests \ {r} :
        request[q].shortid = request[r].shortid => request[q].process = request[r].process

(* A short id that was returned serves the loan it was returned for, with   *)
(* the description it was submitted with: from then on, in spite of other   *)
(* calls, failures between two statements, and restarts that start the      *)
(* generator anew (server.go:116-166, model/loans.go:307-396).              *)
ServesWhatItAnswered ==
    \A r \in Requests : answered(r) /\ alone(r) =>
        GetLoans(request[r].shortid) =
            {[shortid |-> request[r].shortid, deployed_address |-> request[r].loan, description |-> r]}

(* Whatever two processes do to each other, and whatever fails: a short id  *)
(* is never given to another loan, nor a loan taken out of the index        *)
(* (model/loans.go:339-367).                                               *)
ShortIdsStay ==
    [][/\ \A m \in loan_metadata : \E n \in loan_metadata' :
             n.shortid = m.shortid /\ n.deployed_address = m.deployed_address
       /\ \A id \in ShortIds : \A m \in GetLoans(id) : \E n \in GetLoans(id)' :
             n.deployed_address = m.deployed_address]_vars

(* IndexLoan is idempotent however often a contract is submitted            *)
(* (pb/metabackend.proto:211-212), so a submission that failed can be        *)
(* repeated: when something goes wrong during every other call for a loan,  *)
(* a call during which nothing goes wrong does not fail.                    *)
FailuresCanBeRetried ==
    \A r \in Requests : request[r].step = "failed" =>
        \/ request[r].fault
        \/ \E q \in Requests \ {r} : request[q].loan = request[r].loan /\ ~request[q].fault
=============================================================================
