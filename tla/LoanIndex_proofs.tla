-------------------------- MODULE LoanIndex_proofs --------------------------
(***************************************************************************)
(* What the index has answered it serves, and what it serves stays, for any *)
(* number of calls, processes, failures and restarts.                       *)
(***************************************************************************)
EXTENDS LoanIndex, TLAPS

USE DEF RequestState

Row(r) == [shortid |-> request[r].shortid, deployed_address |-> request[r].loan, description |-> r]

IdStored(id) == \E m \in loan_metadata : m.shortid = id

(* A call has an identifier when it has come so far, and a live one has it   *)
(* from the generator of its process.                                       *)
HasId ==
    \A r \in Requests :
        /\ request[r].step \in {"new", "generate"} => request[r].shortid = None
        /\ request[r].step \notin {"new", "failed"} => request[r].loan \in Loans /\ request[r].process \in Processes
        /\ request[r].step \in {"upsert", "insert", "commit", "answered"} => request[r].shortid \in ShortIds
        /\ request[r].step \in {"upsert", "insert", "commit"} =>
              request[r].shortid \in generated[request[r].process]

Stored == \A r \in Requests : request[r].step \in {"insert", "commit", "answered"} => IdStored(request[r].shortid)

(* While a call is about to store its identifier, no other call of the same  *)
(* process has it.                                                          *)
NotShared ==
    \A q \in Requests : request[q].step = "upsert" =>
        \A r \in Requests \ {q} :
            /\ request[r].step \in {"upsert", "insert", "commit", "answered"}
            /\ request[r].shortid = request[q].shortid
            => request[r].process # request[q].process

StillUnused == \A r \in Requests : request[r].step = "upsert" /\ alone(r) => ~IdStored(request[r].shortid)

RowStored ==
    \A r \in Requests : request[r].step \in {"insert", "commit", "answered"} /\ alone(r) => Row(r) \in loan_metadata

ParametersStored ==
    \A r \in Requests : request[r].step \in {"commit", "answered"} => request[r].loan \in deployed_loan_parameters

IndexInv == TypeOK /\ HasId /\ Stored /\ NotShared /\ StillUnused /\ RowStored /\ ParametersStored

LEMMA IndexInit == Init => IndexInv
BY NoneAssumption DEF Init, IndexInv, TypeOK, Rows, Steps, Finished, HasId, Stored, NotShared, StillUnused, RowStored,
       ParametersStored

(* Every step leaves identifiers and processes to those who have them.       *)
Settled(q) ==
    request[q].shortid # None =>
        request'[q].shortid = request[q].shortid /\ request'[q].process = request[q].process

LEMMA AloneBefore ==
  ASSUME \A q \in Requests : Settled(q), NEW r \in Requests, request[r].shortid # None, alone(r)'
  PROVE  alone(r)
BY DEF alone, Settled

(* Calls may fail at any time, and a process may lose what it knew with them. *)
LEMMA Failing ==
  ASSUME IndexInv, TypeOK', UNCHANGED <<loan_metadata, deployed_loan_parameters>>,
         \A q \in Requests :
            /\ \/ request'[q].step = "failed"
               \/ request'[q].step = request[q].step
            /\ request'[q].loan = request[q].loan /\ request'[q].process = request[q].process
            /\ request'[q].shortid = request[q].shortid
            /\ request'[q].step \in {"upsert", "insert", "commit"} =>
                  request[q].shortid \in generated'[request[q].process]
  PROVE  IndexInv'
<1>1. \A q \in Requests : alone(q)' => alone(q)
  BY DEF alone
<1>2. HasId'
  BY DEF IndexInv, HasId
<1>3. Stored' /\ StillUnused' /\ ParametersStored'
  BY <1>1 DEF IndexInv, Stored, StillUnused, ParametersStored, IdStored
<1>4. NotShared'
  BY DEF IndexInv, NotShared
<1>5. \A q \in Requests : Row(q)' = Row(q)
  BY DEF Row
<1>6. RowStored'
  BY <1>1, <1>5 DEF IndexInv, RowStored
<1> QED
  BY <1>2, <1>3, <1>4, <1>6 DEF IndexInv

LEMMA FaultStep ==
  ASSUME IndexInv, NEW r \in Requests, request[r].step \notin Finished, fault(r),
         UNCHANGED <<loan_metadata, deployed_loan_parameters, generated>>
  PROVE  IndexInv'
<1>1. /\ request' = [request EXCEPT ![r] = [request[r] EXCEPT !.step = "failed", !.fault = TRUE]]
      /\ request[r] \in RequestState
      /\ TypeOK
  BY DEF fault, IndexInv, TypeOK
<1>2. TypeOK'
  BY <1>1 DEF TypeOK, Steps, Finished
<1>3. \A q \in Requests :
         /\ request'[q].step \in {"failed", request[q].step}
         /\ request'[q].loan = request[q].loan /\ request'[q].process = request[q].process
         /\ request'[q].shortid = request[q].shortid
  BY <1>1 DEF TypeOK
<1> QED
  BY <1>2, <1>3, Failing DEF IndexInv, HasId

LEMMA RejectStep ==
  ASSUME IndexInv, NEW r \in Requests, goto(r, "failed"),
         UNCHANGED <<loan_metadata, deployed_loan_parameters, generated>>
  PROVE  IndexInv'
<1>1. /\ request' = [request EXCEPT ![r] = [request[r] EXCEPT !.step = "failed"]]
      /\ request[r] \in RequestState
      /\ TypeOK
  BY DEF goto, IndexInv, TypeOK
<1>2. TypeOK'
  BY <1>1 DEF TypeOK, Steps, Finished
<1>3. \A q \in Requests :
         /\ request'[q].step \in {"failed", request[q].step}
         /\ request'[q].loan = request[q].loan /\ request'[q].process = request[q].process
         /\ request'[q].shortid = request[q].shortid
  BY <1>1 DEF TypeOK
<1> QED
  BY <1>2, <1>3, Failing DEF IndexInv, HasId

LEMMA RestartStep ==
  ASSUME IndexInv, NEW p \in Processes, Restart(p) PROVE IndexInv'
<1>1. /\ UNCHANGED <<loan_metadata, deployed_loan_parameters>> /\ TypeOK
      /\ generated' = [generated EXCEPT ![p] = {}]
      /\ \A q \in Requests :
            request'[q] = IF request[q].process # p \/ request[q].step \in Finished THEN request[q]
                          ELSE [request[q] EXCEPT !.step = "failed", !.fault = TRUE]
  BY DEF Restart, IndexInv
<1>2. \A q \in Requests :
         request[q] \in RequestState
  BY <1>1 DEF TypeOK
<1>3. \A q \in Requests :
         LET x == [request[q] EXCEPT !.step = "failed", !.fault = TRUE]
         IN /\ x \in RequestState
            /\ x.step = "failed" /\ x.loan = request[q].loan /\ x.process = request[q].process
            /\ x.shortid = request[q].shortid
  BY <1>2 DEF Steps, Finished
<1>4. \A q \in Requests :
         /\ request'[q].step \in {"failed", request[q].step}
         /\ request'[q].step # "failed" => request[q].process # p \/ request[q].step \in Finished
         /\ request'[q].loan = request[q].loan /\ request'[q].process = request[q].process
         /\ request'[q].shortid = request[q].shortid
         /\ request'[q] \in RequestState
  <2> SUFFICES ASSUME NEW q \in Requests
               PROVE  /\ request'[q].step \in {"failed", request[q].step}
                      /\ request'[q].step # "failed" => request[q].process # p \/ request[q].step \in Finished
                      /\ request'[q].loan = request[q].loan /\ request'[q].process = request[q].process
                      /\ request'[q].shortid = request[q].shortid
                      /\ request'[q] \in RequestState
    OBVIOUS
  <2>1. CASE request[q].process # p \/ request[q].step \in Finished
    <3>1. request'[q] = request[q]
      BY <1>1, <2>1
    <3> QED
      BY <1>2, <2>1, <3>1
  <2>2. CASE ~(request[q].process # p \/ request[q].step \in Finished)
    <3>1. request'[q] = [request[q] EXCEPT !.step = "failed", !.fault = TRUE]
      BY <1>1, <2>2
    <3> QED
      BY <1>3, <3>1
  <2> QED
    BY <2>1, <2>2
<1>5. TypeOK'
  <2>1. request' \in [Requests -> RequestState]
    BY <1>4 DEF Restart
  <2> QED
    BY <1>1, <2>1 DEF TypeOK
<1>6. \A q \in Requests : request'[q].step \in {"upsert", "insert", "commit"} =>
         request[q].shortid \in generated'[request[q].process]
  BY <1>1, <1>4 DEF Finished, IndexInv, HasId, TypeOK
<1> QED
  BY <1>1, <1>4, <1>5, <1>6, Failing

LEMMA IndexLoanStep ==
  ASSUME IndexInv, NEW r \in Requests, NEW p \in Processes, NEW a \in Loans, IndexLoan(r, p, a)
  PROVE  IndexInv'
<1>1. CASE fault(r)
  BY <1>1, FaultStep DEF IndexLoan, Finished
<1>2. CASE request' = [request EXCEPT ![r].step = "generate", ![r].loan = a, ![r].process = p]
  <2>1. /\ request' = [request EXCEPT ![r] = [request[r] EXCEPT !.step = "generate", !.loan = a, !.process = p]]
        /\ request[r].step = "new" /\ request[r].shortid = None /\ TypeOK
        /\ UNCHANGED <<loan_metadata, deployed_loan_parameters, generated>>
    BY <1>2 DEF IndexLoan, IndexInv, TypeOK, HasId
  <2>2. TypeOK'
    <3>1. request[r] \in RequestState
      BY <2>1 DEF TypeOK
    <3>2. [request[r] EXCEPT !.step = "generate", !.loan = a, !.process = p] \in RequestState
      BY <3>1 DEF Steps
    <3> QED
      BY <2>1, <3>2 DEF TypeOK
  <2>3. /\ request'[r].step = "generate" /\ request'[r].loan = a /\ request'[r].process = p
        /\ request'[r].shortid = None
        /\ \A q \in Requests \ {r} : request'[q] = request[q]
    BY <2>1 DEF TypeOK
  <2>4. \A q \in Requests : Settled(q)
    BY <2>1, <2>3 DEF Settled
  <2>5. \A q \in Requests \ {r} : Row(q)' = Row(q)
    BY <2>3 DEF Row
  <2>6. \A q \in Requests : request[q].step \in {"upsert", "insert", "commit", "answered"} /\ alone(q)' => alone(q)
    BY <2>4, AloneBefore, NoneAssumption DEF IndexInv, HasId
  <2>7. HasId' /\ Stored' /\ NotShared' /\ ParametersStored'
    BY <2>1, <2>3 DEF IndexInv, HasId, Stored, NotShared, ParametersStored, IdStored
  <2>8. StillUnused' /\ RowStored'
    BY <2>1, <2>3, <2>5, <2>6 DEF IndexInv, StillUnused, RowStored, IdStored
  <2> QED
    BY <2>2, <2>7, <2>8 DEF IndexInv
<1> QED
  BY <1>1, <1>2 DEF IndexLoan, LoadParametersFromBlockchain

LEMMA GenerateStep ==
  ASSUME IndexInv, NEW r \in Requests, generateShortId(r) PROVE IndexInv'
<1> DEFINE p == request[r].process
<1>1. /\ request[r].step = "generate" /\ request[r].shortid = None /\ p \in Processes /\ request[r].loan \in Loans
      /\ TypeOK /\ UNCHANGED <<loan_metadata, deployed_loan_parameters>>
  BY DEF generateShortId, IndexInv, HasId
<1>2. CASE fault(r) /\ UNCHANGED generated
  BY <1>1, <1>2, FaultStep DEF Finished
<1>3. ASSUME NEW id \in ShortIds \ generated[p], generated' = [generated EXCEPT ![p] = generated[p] \cup {id}],
             ~unused(id), UNCHANGED request
      PROVE  IndexInv'
  <2>1. TypeOK'
    BY <1>1, <1>3 DEF TypeOK
  <2>2. \A q \in Processes : generated[q] \subseteq generated'[q]
    BY <1>1, <1>3 DEF TypeOK
  <2>3. \A q \in Requests : request'[q].step \in {"upsert", "insert", "commit"} =>
           request[q].shortid \in generated'[request[q].process]
    BY <1>1, <1>3, <2>2 DEF IndexInv, HasId
  <2> QED
    BY <1>1, <1>3, <2>1, <2>3, Failing
<1>4. ASSUME NEW id \in ShortIds \ generated[p], generated' = [generated EXCEPT ![p] = generated[p] \cup {id}],
             unused(id), request' = [request EXCEPT ![r].step = "upsert", ![r].shortid = id]
      PROVE  IndexInv'
  <2>1. request' = [request EXCEPT ![r] = [request[r] EXCEPT !.step = "upsert", !.shortid = id]]
    BY <1>1, <1>4 DEF TypeOK
  <2>2. TypeOK'
    BY <1>1, <1>4, <2>1 DEF TypeOK, Steps
  <2>3. /\ request'[r].step = "upsert" /\ request'[r].loan = request[r].loan /\ request'[r].process = p
        /\ request'[r].shortid = id
        /\ \A q \in Requests \ {r} : request'[q] = request[q]
    BY <1>1, <2>1 DEF TypeOK
  <2>4. id \in ShortIds /\ ~IdStored(id)
    BY <1>4 DEF unused, shortIdsStored, IdStored
  <2>5. \A q \in Processes : generated[q] \subseteq generated'[q] /\ id \in generated'[p]
    BY <1>1, <1>4 DEF TypeOK
  <2>6. \A q \in Requests : Settled(q)
    BY <1>1, <2>3 DEF Settled
  <2>7. \A q \in Requests \ {r} : Row(q)' = Row(q)
    BY <2>3 DEF Row
  <2>8. \A q \in Requests : request[q].step \in {"upsert", "insert", "commit", "answered"} /\ alone(q)' => alone(q)
    BY <2>6, AloneBefore, NoneAssumption DEF IndexInv, HasId
  <2>9. HasId'
    BY <1>1, <2>3, <2>4, <2>5 DEF IndexInv, HasId
  <2>10. \A q \in Requests \ {r} :
            request[q].step \in {"upsert", "insert", "commit", "answered"} /\ request[q].shortid = id =>
               request[q].process # p
    <3>1. SUFFICES ASSUME NEW q \in Requests \ {r}, request[q].shortid = id, request[q].process = p,
                          request[q].step \in {"upsert", "insert", "commit", "answered"}
                   PROVE  FALSE
      OBVIOUS
    <3>2. CASE request[q].step = "answered"
      BY <2>4, <3>1, <3>2 DEF IndexInv, Stored
    <3>3. CASE request[q].step # "answered"
      BY <1>4, <3>1, <3>3 DEF IndexInv, HasId
    <3> QED
      BY <3>2, <3>3
  <2>11. NotShared'
    BY <1>1, <2>3, <2>10 DEF IndexInv, NotShared
  <2>12. Stored' /\ ParametersStored'
    BY <1>1, <2>3 DEF IndexInv, Stored, ParametersStored, IdStored
  <2>13. StillUnused' /\ RowStored'
    BY <1>1, <2>3, <2>4, <2>7, <2>8 DEF IndexInv, StillUnused, RowStored, IdStored
  <2> QED
    BY <2>2, <2>9, <2>11, <2>12, <2>13 DEF IndexInv
<1>5. \/ fault(r) /\ UNCHANGED generated
      \/ \E id \in ShortIds \ generated[p] :
            /\ generated' = [generated EXCEPT ![p] = generated[p] \cup {id}]
            /\ \/ ~unused(id) /\ UNCHANGED request
               \/ unused(id) /\ request' = [request EXCEPT ![r].step = "upsert", ![r].shortid = id]
  BY DEF generateShortId
<1> QED
  BY <1>2, <1>3, <1>4, <1>5

(* A step of one call that neither fails nor changes what it knows.          *)
LEMMA GoesTo ==
  ASSUME IndexInv, NEW r \in Requests, NEW step \in {"insert", "commit", "answered"}, goto(r, step),
         request[r].step \in {"upsert", "insert", "commit"}
  PROVE  /\ request' \in [Requests -> RequestState]
         /\ request'[r].step = step /\ \A q \in Requests \ {r} : request'[q] = request[q]
         /\ request'[r].loan = request[r].loan /\ request'[r].process = request[r].process
         /\ request'[r].shortid = request[r].shortid
         /\ \A q \in Requests : Row(q)' = Row(q) /\ (alone(q)' => alone(q))
<1>1. /\ request' = [request EXCEPT ![r] = [request[r] EXCEPT !.step = step]]
      /\ request \in [Requests -> RequestState]
  BY DEF goto, IndexInv, TypeOK
<1>2. /\ request' \in [Requests -> RequestState]
      /\ request'[r].step = step /\ \A q \in Requests \ {r} : request'[q] = request[q]
      /\ request'[r].loan = request[r].loan /\ request'[r].process = request[r].process
      /\ request'[r].shortid = request[r].shortid
  BY <1>1 DEF Steps, Finished
<1>3. \A q \in Requests :
         request'[q].shortid = request[q].shortid /\ request'[q].process = request[q].process
         /\ request'[q].loan = request[q].loan
  BY <1>2
<1> QED
  BY <1>2, <1>3 DEF Row, alone

LEMMA UpsertStep ==
  ASSUME IndexInv, NEW r \in Requests, UpsertMetadata(r) PROVE IndexInv'
<1> DEFINE id == request[r].shortid
           a == request[r].loan
<1>1. /\ request[r].step = "upsert" /\ id \in ShortIds /\ a \in Loans /\ TypeOK
      /\ UNCHANGED <<deployed_loan_parameters, generated>>
  BY DEF UpsertMetadata, IndexInv, HasId
<1>2. CASE (fault(r) \/ goto(r, "failed")) /\ UNCHANGED loan_metadata
  BY <1>1, <1>2, FaultStep, RejectStep DEF Finished
<1>3. ASSUME goto(r, "insert"), loan_metadata' \subseteq Rows,
             \A m, n \in loan_metadata' :
                m.shortid = n.shortid \/ m.deployed_address = n.deployed_address => m = n,
             \A m \in loan_metadata : \E n \in loan_metadata' : n.shortid = m.shortid,
             \A m \in loan_metadata : m.shortid # id => m \in loan_metadata',
             \A m \in loan_metadata' : m.shortid # id => m \in loan_metadata,
             \E m \in loan_metadata' : m.shortid = id, ~IdStored(id) => Row(r) \in loan_metadata'
      PROVE  IndexInv'
  <2>1. /\ request' \in [Requests -> RequestState]
        /\ request'[r].step = "insert" /\ \A q \in Requests \ {r} : request'[q] = request[q]
        /\ request'[r].loan = a /\ request'[r].process = request[r].process /\ request'[r].shortid = id
        /\ \A q \in Requests : Row(q)' = Row(q) /\ (alone(q)' => alone(q))
    BY <1>1, <1>3, GoesTo
  <2>2. TypeOK' /\ HasId' /\ ParametersStored'
    BY <1>1, <1>3, <2>1 DEF IndexInv, TypeOK, HasId, ParametersStored
  <2>3. \A i \in ShortIds : IdStored(i) => IdStored(i)'
    BY <1>3 DEF IdStored
  <2>4. Stored'
    BY <1>1, <1>3, <2>1, <2>3 DEF IndexInv, Stored, HasId, IdStored
  <2>5. NotShared'
    BY <1>1, <2>1 DEF IndexInv, NotShared
  (* Who else has this identifier got it from another process.              *)
  <2>6. \A q \in Requests \ {r} :
           request[q].step \in {"upsert", "insert", "commit", "answered"} /\ alone(q) => request[q].shortid # id
    BY <1>1 DEF IndexInv, NotShared, alone
  <2>7. StillUnused'
    <3>1. SUFFICES ASSUME NEW q \in Requests, request'[q].step = "upsert", alone(q)', \E m \in loan_metadata' : m.shortid = request'[q].shortid
                   PROVE  FALSE
      BY DEF StillUnused, IdStored
    <3>2. q # r /\ request'[q] = request[q] /\ alone(q)
      BY <2>1, <3>1
    <3>3. ~IdStored(request[q].shortid) /\ request[q].shortid # id
      BY <2>6, <3>1, <3>2 DEF IndexInv, StillUnused
    <3> QED
      BY <1>3, <3>1, <3>2, <3>3 DEF IdStored
  <2>8. RowStored'
    <3>1. SUFFICES ASSUME NEW q \in Requests, request'[q].step \in {"insert", "commit", "answered"}, alone(q)'
                   PROVE  Row(q) \in loan_metadata'
      BY <2>1 DEF RowStored
    <3>2. CASE q = r
      BY <1>1, <1>3, <2>1, <3>1, <3>2 DEF IndexInv, StillUnused
    <3>3. CASE q # r
      <4>1. Row(q) \in loan_metadata /\ request[q].shortid # id
        BY <2>1, <2>6, <3>1, <3>3 DEF IndexInv, RowStored
      <4> QED
        BY <1>3, <4>1 DEF Row
    <3> QED
      BY <3>2, <3>3
  <2> QED
    BY <2>2, <2>4, <2>5, <2>7, <2>8 DEF IndexInv
<1>4. CASE /\ id \in shortIdsStored /\ goto(r, "insert")
           /\ loan_metadata' = {IF m.shortid = id THEN [m EXCEPT !.description = r] ELSE m : m \in loan_metadata}
  <2>1. \A m \in loan_metadata :
           /\ m \in Rows
           /\ [m EXCEPT !.description = r] \in Rows
           /\ [m EXCEPT !.description = r].shortid = m.shortid
           /\ [m EXCEPT !.description = r].deployed_address = m.deployed_address
           /\ [m EXCEPT !.description = r].description = r
    BY <1>1 DEF TypeOK, Rows
  <2> DEFINE new(m) == IF m.shortid = id THEN [m EXCEPT !.description = r] ELSE m
  <2>2. \A m \in loan_metadata :
           /\ new(m) \in Rows /\ new(m).shortid = m.shortid /\ new(m).deployed_address = m.deployed_address
           /\ m.shortid # id => new(m) = m
    BY <2>1
  <2>3. loan_metadata' = {new(m) : m \in loan_metadata}
    BY <1>4
  <2> HIDE DEF new
  <2>4. (\E m \in loan_metadata' : m.shortid = id) /\ IdStored(id)
    BY <1>4, <2>2, <2>3 DEF IdStored, shortIdsStored
  <2>5. \A m, n \in loan_metadata' : m.shortid = n.shortid \/ m.deployed_address = n.deployed_address => m = n
    BY <1>1, <2>2, <2>3 DEF TypeOK
  <2>6. /\ loan_metadata' \subseteq Rows
        /\ \A m \in loan_metadata : \E n \in loan_metadata' : n.shortid = m.shortid
        /\ \A m \in loan_metadata : m.shortid # id => m \in loan_metadata'
        /\ \A m \in loan_metadata' : m.shortid # id => m \in loan_metadata
    BY <2>2, <2>3 DEF IdStored
  <2> HIDE DEF id
  <2> QED
    BY <1>3, <1>4, <2>4, <2>5, <2>6
<1>5. CASE /\ id \notin shortIdsStored /\ a \notin addressesStored /\ goto(r, "insert")
           /\ loan_metadata' = loan_metadata \cup {[shortid |-> id, deployed_address |-> a, description |-> r]}
  <2>1. /\ loan_metadata' = loan_metadata \cup {Row(r)} /\ Row(r) \in Rows
        /\ Row(r).shortid = id /\ Row(r).deployed_address = a
    BY <1>1, <1>5 DEF Row, Rows
  <2>2. \A m \in loan_metadata : m.shortid # id /\ m.deployed_address # a
    BY <1>5 DEF shortIdsStored, addressesStored
  <2>3. /\ loan_metadata' \subseteq Rows
        /\ \A m, n \in loan_metadata' :
              m.shortid = n.shortid \/ m.deployed_address = n.deployed_address => m = n
    BY <1>1, <2>1, <2>2 DEF TypeOK
  <2>4. /\ \A m \in loan_metadata : m \in loan_metadata'
        /\ \A m \in loan_metadata : \E n \in loan_metadata' : n.shortid = m.shortid
        /\ \A m \in loan_metadata' : m.shortid # id => m \in loan_metadata
        /\ (\E m \in loan_metadata' : m.shortid = id) /\ Row(r) \in loan_metadata'
    BY <2>1 DEF IdStored
  <2> HIDE DEF id, a
  <2> QED
    BY <1>3, <1>5, <2>3, <2>4
<1> QED
  BY <1>2, <1>4, <1>5 DEF UpsertMetadata

LEMMA InsertStep ==
  ASSUME IndexInv, NEW r \in Requests, InsertParameters(r) PROVE IndexInv'
<1>1. /\ request[r].step = "insert" /\ request[r].loan \in Loans /\ TypeOK
      /\ UNCHANGED <<loan_metadata, generated>>
  BY DEF InsertParameters, IndexInv, HasId
<1>2. CASE (fault(r) \/ goto(r, "failed")) /\ UNCHANGED deployed_loan_parameters
  BY <1>1, <1>2, FaultStep, RejectStep DEF Finished
<1>3. CASE goto(r, "commit") /\ deployed_loan_parameters' = deployed_loan_parameters \cup {request[r].loan}
  <2>1. /\ request' \in [Requests -> RequestState]
        /\ request'[r].step = "commit" /\ \A q \in Requests \ {r} : request'[q] = request[q]
        /\ request'[r].loan = request[r].loan /\ request'[r].process = request[r].process
        /\ request'[r].shortid = request[r].shortid
        /\ \A q \in Requests : Row(q)' = Row(q) /\ (alone(q)' => alone(q))
    BY <1>1, <1>3, GoesTo
  <2>2. TypeOK' /\ HasId' /\ ParametersStored'
    BY <1>1, <1>3, <2>1 DEF IndexInv, TypeOK, HasId, ParametersStored
  <2>3. Stored' /\ NotShared' /\ StillUnused' /\ RowStored'
    BY <1>1, <2>1 DEF IndexInv, Stored, NotShared, StillUnused, RowStored, IdStored
  <2> QED
    BY <2>2, <2>3 DEF IndexInv
<1> QED
  BY <1>2, <1>3 DEF InsertParameters

LEMMA CommitStep ==
  ASSUME IndexInv, NEW r \in Requests, Commit(r) PROVE IndexInv'
<1>1. /\ request[r].step = "commit" /\ request[r].loan \in Loans /\ TypeOK
      /\ UNCHANGED <<loan_metadata, deployed_loan_parameters, generated>>
  BY DEF Commit, IndexInv, HasId
<1>2. CASE fault(r)
  BY <1>1, <1>2, FaultStep DEF Finished
<1>3. CASE goto(r, "answered")
  <2>1. /\ request' \in [Requests -> RequestState]
        /\ request'[r].step = "answered" /\ \A q \in Requests \ {r} : request'[q] = request[q]
        /\ request'[r].loan = request[r].loan /\ request'[r].process = request[r].process
        /\ request'[r].shortid = request[r].shortid
        /\ \A q \in Requests : Row(q)' = Row(q) /\ (alone(q)' => alone(q))
    BY <1>1, <1>3, GoesTo
  <2>2. TypeOK' /\ HasId' /\ ParametersStored'
    BY <1>1, <2>1 DEF IndexInv, TypeOK, HasId, ParametersStored
  <2>3. Stored' /\ NotShared' /\ StillUnused' /\ RowStored'
    BY <1>1, <2>1 DEF IndexInv, Stored, NotShared, StillUnused, RowStored, IdStored
  <2> QED
    BY <2>2, <2>3 DEF IndexInv
<1> QED
  BY <1>2, <1>3 DEF Commit

LEMMA IndexStep == IndexInv /\ [Next]_vars => IndexInv'
<1> SUFFICES ASSUME IndexInv, [Next]_vars PROVE IndexInv'
  OBVIOUS
<1>1. CASE UNCHANGED vars
  BY <1>1 DEF vars, IndexInv, TypeOK, HasId, Stored, NotShared, StillUnused, RowStored, ParametersStored, IdStored, Row,
              alone
<1> QED
  BY <1>1, RestartStep, IndexLoanStep, GenerateStep, UpsertStep, InsertStep, CommitStep DEF Next

(* A short id that was returned serves its loan and description from then    *)
(* on, whatever other calls, failures and restarts do (server.go:116-166,   *)
(* model/loans.go:307-396).                                                *)
THEOREM AnswersServed == Spec => []ServesWhatItAnswered
<1>1. ASSUME IndexInv PROVE ServesWhatItAnswered
  <2>1. SUFFICES ASSUME NEW r \in Requests, answered(r), alone(r)
                 PROVE  GetLoans(request[r].shortid) = {Row(r)}
    BY DEF ServesWhatItAnswered, Row
  <2>2. /\ Row(r) \in loan_metadata /\ request[r].loan \in deployed_loan_parameters
        /\ Row(r).shortid = request[r].shortid /\ Row(r).deployed_address = request[r].loan
    BY <1>1, <2>1 DEF IndexInv, RowStored, ParametersStored, answered, Row
  <2>3. \A m \in loan_metadata : m.shortid = request[r].shortid => m = Row(r)
    BY <1>1, <2>2 DEF IndexInv, TypeOK
  <2> QED
    BY <2>2, <2>3 DEF GetLoans
<1> QED
  BY <1>1, IndexInit, IndexStep, PTL DEF Spec

(* A short id stays with its loan and its loan in the index, also when       *)
(* processes hand out the same one (model/loans.go:339-367).                *)
THEOREM ShortIdsRemain == Spec => ShortIdsStay
<1> DEFINE Stays ==
      /\ \A m \in loan_metadata : \E n \in loan_metadata' :
            n.shortid = m.shortid /\ n.deployed_address = m.deployed_address
      /\ \A id \in ShortIds : \A m \in GetLoans(id) : \E n \in GetLoans(id)' :
            n.deployed_address = m.deployed_address
<1>1. ASSUME IndexInv, Next PROVE Stays
  <2>1. deployed_loan_parameters \subseteq deployed_loan_parameters'
    BY <1>1 DEF Next, Restart, IndexLoan, generateShortId, UpsertMetadata, InsertParameters, Commit
  <2>2. \A m \in loan_metadata : \E n \in loan_metadata' :
           n.shortid = m.shortid /\ n.deployed_address = m.deployed_address
    <3>1. CASE UNCHANGED loan_metadata
      BY <3>1
    <3>2. ASSUME NEW r \in Requests,
                 loan_metadata' = {IF m.shortid = request[r].shortid THEN [m EXCEPT !.description = r] ELSE m :
                                      m \in loan_metadata}
          PROVE  \A m \in loan_metadata : \E n \in loan_metadata' :
                    n.shortid = m.shortid /\ n.deployed_address = m.deployed_address
      <4>1. SUFFICES ASSUME NEW m \in loan_metadata
                     PROVE  \E n \in loan_metadata' :
                               n.shortid = m.shortid /\ n.deployed_address = m.deployed_address
        OBVIOUS
      <4>2. m \in Rows
        BY <1>1 DEF IndexInv, TypeOK
      <4>3. /\ [m EXCEPT !.description = r].shortid = m.shortid
            /\ [m EXCEPT !.description = r].deployed_address = m.deployed_address
        BY <4>2 DEF Rows
      <4> DEFINE n == IF m.shortid = request[r].shortid THEN [m EXCEPT !.description = r] ELSE m
      <4>4. n \in loan_metadata' /\ n.shortid = m.shortid /\ n.deployed_address = m.deployed_address
        BY <3>2, <4>3
      <4> QED
        BY <4>4
    <3>3. ASSUME NEW new, loan_metadata' = loan_metadata \cup {new}
          PROVE  \A m \in loan_metadata : \E n \in loan_metadata' :
                    n.shortid = m.shortid /\ n.deployed_address = m.deployed_address
      BY <3>3
    <3> QED
      BY <1>1, <3>1, <3>2, <3>3 DEF Next, Restart, IndexLoan, generateShortId, UpsertMetadata, InsertParameters, Commit
  <2> QED
    BY <2>1, <2>2 DEF GetLoans
<1>2. IndexInv /\ [Next]_vars => [Stays]_vars
  BY <1>1
<1> QED
  BY <1>2, IndexInit, IndexStep, PTL DEF Spec, ShortIdsStay
=============================================================================
