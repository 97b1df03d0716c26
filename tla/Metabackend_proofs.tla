-------------------------- MODULE Metabackend_proofs --------------------------
(***************************************************************************)
(* The metabackend.  GetLoans answers with what was so during the request,   *)
(* however the reads of its goroutines and the transactions of the loans     *)
(* interleave.  What the linker serves as linked can be deployed, for any    *)
(* artifacts and any order of the visits.                                   *)
(***************************************************************************)
EXTENDS LoanQuery, Linker, FiniteSetTheorems, TLAPS

AsPaid == {"Payback", "Paidback", "Defaulted"}

(* The counter counts the goroutines that have not returned.                *)
Counter == wg = Cardinality(running) /\ loansFiltered \cap running = {}

(* Loans move forward only, and nobody's investment disappears.              *)
History == \A l \in Loans : Leads(since.state[l], state[l]) /\ since.investors[l] \subseteq investors[l]

(* The chain sets a deadline with the state it belongs to.                   *)
Deadlines ==
    \A l \in Loans :
        /\ state[l] # "CollateralCollection" => "fundraisingDeadline" \in deadlines[l]
        /\ state[l] \in AsPaid => "paybackDeadline" \in deadlines[l]

(* What a goroutine knows before its n-th read.                              *)
Knows(l, n) ==
    /\ n > 1 => /\ known[l].state \in States
                /\ Leads(since.state[l], known[l].state) /\ Leads(known[l].state, state[l])
    /\ n > 2 /\ known[l].state # "CollateralCollection" => known[l].fundraisingDeadline
    /\ n > 3 /\ known[l].state \in AsPaid => known[l].paybackDeadline

Passed(l) == Knows(l, 4) /\ known[l].state = request.state

Goroutines ==
    /\ at = "state" => /\ \A l \in running : Knows(l, getter[l])
                       /\ \A l \in loansFiltered : Passed(l)
    /\ at \in {"investor", "answered"} /\ request.state # INVALID => \A l \in res : Passed(l)

Matches(l) ==
    /\ request.owner \in {Nobody, borrower[l]}
    /\ request.state = INVALID \/ (since.state[l] = request.state /\ state[l] = request.state)
    /\ request.investor = Nobody \/ request.investor \in since.investors[l]

(* A loan that matches is not lost on the way.                               *)
Awaited ==
    ~fault => \A l \in Loans : Matches(l) =>
        /\ at \in {"state", "investor"} => l \in running \cup loansFiltered
        /\ at = "answered" => l \in res

Filters == (at = "state" => request.state # INVALID) /\ (at = "investor" => request.investor # Nobody)

QueryInv ==
    TypeOK /\ Counter /\ History /\ Deadlines /\ Goroutines /\ Awaited /\ Filters

LEMMA LeadsOn ==
  ASSUME NEW s \in States, NEW t \in States, NEW w \in States
  PROVE  /\ Leads(s, s)
         /\ Leads(s, t) /\ Leads(t, w) => Leads(s, w)
         /\ Leads(s, t) /\ Leads(t, s) => s = t
         /\ Leads(s, t) /\ t = "CollateralCollection" => s = "CollateralCollection"
         /\ Leads(s, t) /\ s \in AsPaid => t \in AsPaid
<1>1. /\ Leads(s, s)
      /\ Leads(s, t) /\ Leads(t, s) => s = t
      /\ Leads(s, t) /\ t = "CollateralCollection" => s = "CollateralCollection"
      /\ Leads(s, t) /\ s \in AsPaid => t \in AsPaid
  BY DEF Leads, States, AsPaid
<1>2. ASSUME Leads(s, t), Leads(t, w) PROVE Leads(s, w)
  BY <1>2 DEF Leads, States
<1> QED
  BY <1>1, <1>2

LEMMA UnknownType == Unknown \in LoanState
BY DEF Unknown, LoanState

LEMMA QueryInit == Init => QueryInv
<1> SUFFICES ASSUME Init PROVE QueryInv
  OBVIOUS
<1>1. TypeOK
  <2>1. /\ state = [l \in Loans |-> "CollateralCollection"] /\ deadlines = [l \in Loans |-> {}]
        /\ investors = [l \in Loans |-> {}] /\ request \in Requests /\ at = "idle" /\ res = {}
        /\ running = {} /\ loansFiltered = {} /\ wg = 0 /\ fault = FALSE
        /\ known = [l \in Loans |-> Unknown] /\ getter = [l \in Loans |-> 1]
        /\ since = [state |-> state, investors |-> investors]
    BY DEF Init
  <2>2. known \in [Loans -> LoanState]
    BY <2>1, UnknownType
  <2>3. state \in [Loans -> States] /\ investors \in [Loans -> SUBSET Users]
    BY <2>1 DEF States
  <2>4. since \in [state : [Loans -> States], investors : [Loans -> SUBSET Users]]
    BY <2>1, <2>3
  <2>5. getter \in [Loans -> 1 .. 3] /\ deadlines \in [Loans -> SUBSET {"fundraisingDeadline", "paybackDeadline"}]
    BY <2>1
  <2>6. /\ res \subseteq Loans /\ running \subseteq res /\ loansFiltered \subseteq res
        /\ wg \in Nat /\ fault \in BOOLEAN /\ request \in Requests
        /\ at \in {"idle", "select", "state", "investor", "answered", "failed"}
    BY <2>1
  <2> QED
    BY <2>2, <2>3, <2>4, <2>5, <2>6 DEF TypeOK
<1>2. Counter
  BY FS_EmptySet DEF Init, Counter
<1>3. \A l \in Loans : state[l] = "CollateralCollection"
  BY DEF Init
<1>4. History
  BY DEF Init, History, Leads
<1> QED
  BY <1>1, <1>2, <1>3, <1>4 DEF Init, QueryInv, Deadlines, AsPaid, Goroutines, Awaited, Filters

(* A transaction takes one loan forward.                                    *)
LEMMA ChainMoves ==
  ASSUME TypeOK, Deadlines, Chain
  PROVE  /\ TypeOK' /\ Deadlines'
         /\ \A l \in Loans : Leads(state[l], state'[l]) /\ investors[l] \subseteq investors'[l]
<1> USE DEF TypeOK, Deadlines, AsPaid, Leads, States
<1>1. UNCHANGED queryVars
  BY DEF Chain
<1>2. ASSUME NEW l \in Loans, gatherCollateral(l)
      PROVE  /\ TypeOK' /\ Deadlines'
             /\ \A m \in Loans : Leads(state[m], state'[m]) /\ investors[m] \subseteq investors'[m]
  BY <1>1, <1>2 DEF gatherCollateral, queryVars, filterVars
<1>3. ASSUME NEW l \in Loans, payback(l) \/ processTimeouts(l)
      PROVE  /\ TypeOK' /\ Deadlines'
             /\ \A m \in Loans : Leads(state[m], state'[m]) /\ investors[m] \subseteq investors'[m]
  BY <1>1, <1>3 DEF payback, processTimeouts, queryVars, filterVars
<1>4. ASSUME NEW l \in Loans, NEW u \in Investors, invest(l, u)
      PROVE  /\ TypeOK' /\ Deadlines'
             /\ \A m \in Loans : Leads(state[m], state'[m]) /\ investors[m] \subseteq investors'[m]
  BY <1>1, <1>4, LoansAssumption DEF invest, queryVars, filterVars
<1> QED
  BY <1>2, <1>3, <1>4 DEF Chain

LEMMA ChainStep == QueryInv /\ Chain => QueryInv'
<1> SUFFICES ASSUME QueryInv, Chain PROVE QueryInv'
  OBVIOUS
<1>1. UNCHANGED queryVars /\ UNCHANGED <<request, at, res, known, getter, running, wg, loansFiltered, since, fault>>
  BY DEF Chain, queryVars, filterVars
<1>2. /\ TypeOK /\ TypeOK' /\ Deadlines'
      /\ \A l \in Loans : Leads(state[l], state'[l]) /\ investors[l] \subseteq investors'[l]
  BY ChainMoves DEF QueryInv
<1>3. \A l \in Loans : state[l] \in States /\ state'[l] \in States /\ since.state[l] \in States
  BY <1>2 DEF TypeOK
<1>4. History'
  BY <1>1, <1>2, <1>3, LeadsOn DEF QueryInv, History
<1>5. \A l \in Loans, n \in 1 .. 4 : Knows(l, n) => Knows(l, n)'
  BY <1>1, <1>2, <1>3, LeadsOn DEF Knows
<1>6. Goroutines'
  <2>1. \A l \in running : getter[l] \in 1 .. 4
    BY <1>2 DEF TypeOK
  <2>2. running \subseteq Loans /\ loansFiltered \subseteq Loans /\ res \subseteq Loans
    BY <1>2 DEF TypeOK
  <2> QED
    BY <1>1, <1>5, <2>1, <2>2 DEF QueryInv, Goroutines, Passed
<1>7. \A l \in Loans : Matches(l)' => Matches(l)
  BY <1>1, <1>2, <1>3, LeadsOn DEF QueryInv, History, Matches
<1> QED
  BY <1>1, <1>2, <1>4, <1>6, <1>7 DEF QueryInv, Counter, Awaited, Filters

LEMMA GetLoansStep ==
  ASSUME QueryInv, NEW r \in Requests, GetLoans(r) PROVE QueryInv'
<1>1. TypeOK'
  <2>1. /\ UNCHANGED <<state, deadlines, investors>> /\ request' = r /\ at' = "select" /\ res' = {}
        /\ running' = {} /\ loansFiltered' = {} /\ wg' = 0 /\ fault' = FALSE
        /\ known' = [l \in Loans |-> Unknown] /\ getter' = [l \in Loans |-> 1]
        /\ since' = [state |-> state, investors |-> investors]
    BY FS_EmptySet DEF GetLoans, start, chainVars
  <2>2. known' \in [Loans -> LoanState]
    BY <2>1, UnknownType
  <2>3. since' \in [state : [Loans -> States], investors : [Loans -> SUBSET Users]]
    BY <2>1 DEF QueryInv, TypeOK
  <2>4. getter' \in [Loans -> 1 .. 3]
    BY <2>1
  <2>5. /\ res' \subseteq Loans /\ running' \subseteq res' /\ loansFiltered' \subseteq res'
        /\ wg' \in Nat /\ fault' \in BOOLEAN /\ request' \in Requests
        /\ at' \in {"idle", "select", "state", "investor", "answered", "failed"}
    BY <2>1
  <2> QED
    BY <2>1, <2>2, <2>3, <2>4, <2>5 DEF QueryInv, TypeOK
<1>2. Counter'
  BY FS_EmptySet DEF GetLoans, start, Counter
<1>3. History'
  BY LeadsOn DEF GetLoans, chainVars, QueryInv, TypeOK, History
<1> QED
  BY <1>1, <1>2, <1>3 DEF GetLoans, chainVars, QueryInv, Deadlines, Goroutines, Awaited, Filters

(* A filter that starts, or an answer, takes on the loans it is given.       *)
LEMMA Started ==
  ASSUME TypeOK, NEW L \in SUBSET Loans, filterByInvestor(L)
  PROVE  /\ at' \in {"investor", "answered"} /\ res' = L /\ loansFiltered' = {}
         /\ running' \subseteq L /\ wg' = Cardinality(running') /\ wg' \in Nat
         /\ at' = "investor" => running' = L /\ request.investor # Nobody
         /\ getter' \in [Loans -> 1 .. 3]
<1>1. IsFiniteSet(L) /\ Cardinality(L) \in Nat /\ Cardinality({}) = 0
  BY LoansAssumption, FS_Subset, FS_CardinalityType, FS_EmptySet
<1> QED
  BY <1>1 DEF filterByInvestor, filter, answer, start

LEMMA SelectStep == QueryInv /\ selectJoinedLoansMetadataParameters => QueryInv'
<1> SUFFICES ASSUME QueryInv, selectJoinedLoansMetadataParameters PROVE QueryInv'
  OBVIOUS
<1> DEFINE L == {l \in Loans : request.owner \in {Nobody, borrower[l]}}
<1>1. /\ at = "select" /\ UNCHANGED <<state, deadlines, investors, request, known, since>>
      /\ TypeOK /\ L \in SUBSET Loans
  BY DEF selectJoinedLoansMetadataParameters, chainVars, QueryInv
<1>2. \/ filterByState(L) /\ fault' = fault
      \/ at' = "failed" /\ fault' = TRUE /\ res' = res /\ start({})
  BY DEF selectJoinedLoansMetadataParameters
<1>3. \A l \in Loans : Matches(l)' => l \in L
  BY <1>1 DEF Matches
<1> HIDE DEF L
<1>4. History' /\ Deadlines'
  BY <1>1 DEF QueryInv, History, Deadlines
<1>5. CASE at' = "failed" /\ fault' = TRUE /\ res' = res /\ start({})
  <2>1. /\ running' = {} /\ wg' = 0 /\ loansFiltered' = {} /\ getter' = [l \in Loans |-> 1]
    BY <1>5, FS_EmptySet DEF start
  <2>2. TypeOK' /\ Counter'
    BY <1>1, <1>5, <2>1, FS_EmptySet DEF TypeOK, Counter
  <2> QED
    BY <1>4, <1>5, <2>2 DEF QueryInv, Goroutines, Awaited, Filters
<1>6. CASE request.state # INVALID /\ filter(L, "state") /\ fault' = fault
  <2>1. IsFiniteSet(L) /\ Cardinality(L) \in Nat
    BY <1>1, LoansAssumption, FS_Subset, FS_CardinalityType
  <2>2. /\ at' = "state" /\ res' = L /\ running' = L /\ wg' = Cardinality(L)
        /\ loansFiltered' = {} /\ getter' = [l \in Loans |-> 1]
    BY <1>6 DEF filter, start
  <2>3. TypeOK' /\ Counter'
    BY <1>1, <1>6, <2>1, <2>2 DEF TypeOK, Counter
  <2>4. \A l \in L : Knows(l, getter[l])'
    BY <1>1, <2>2 DEF Knows
  <2>5. Goroutines'
    BY <2>2, <2>4 DEF Goroutines
  <2> QED
    BY <1>1, <1>3, <1>4, <1>6, <2>2, <2>3, <2>5 DEF QueryInv, Awaited, Filters
<1>7. CASE request.state = INVALID /\ filterByInvestor(L) /\ fault' = fault
  <2>1. /\ at' \in {"investor", "answered"} /\ res' = L /\ loansFiltered' = {}
        /\ running' \subseteq L /\ wg' = Cardinality(running') /\ wg' \in Nat
        /\ at' = "investor" => running' = L /\ request.investor # Nobody
        /\ getter' \in [Loans -> 1 .. 3]
    BY <1>1, <1>7, Started
  <2>2. TypeOK' /\ Counter'
    BY <1>1, <1>7, <2>1 DEF TypeOK, Counter
  <2> QED
    BY <1>1, <1>3, <1>4, <1>7, <2>1, <2>2 DEF QueryInv, Goroutines, Awaited, Filters
<1> QED
  BY <1>2, <1>5, <1>6, <1>7 DEF filterByState

(* A goroutine returns, with its loan or without.                           *)
LEMMA Returned ==
  ASSUME TypeOK, Counter, NEW l \in running, Done(l), loansFiltered' \in {loansFiltered, loansFiltered \cup {l}},
         UNCHANGED res
  PROVE  /\ Counter' /\ running' = running \ {l} /\ wg' \in Nat
         /\ running' \subseteq res' /\ loansFiltered' \subseteq res'
<1>1. IsFiniteSet(running)
  BY LoansAssumption, FS_Subset DEF TypeOK
<1>2. Cardinality(running \ {l}) = Cardinality(running) - 1 /\ Cardinality(running \ {l}) \in Nat
  BY <1>1, FS_RemoveElement, FS_CardinalityType
<1> QED
  BY <1>2 DEF Done, TypeOK, Counter

LEMMA FailsStep ==
  ASSUME QueryInv, NEW l \in Loans, readFails(l) PROVE QueryInv'
<1>1. /\ l \in running /\ Done(l) /\ UNCHANGED loansFiltered /\ fault' = TRUE
      /\ UNCHANGED <<state, deadlines, investors, request, at, res, known, getter, since>>
  BY DEF readFails, return, chainVars
<1>2. Counter' /\ running' = running \ {l} /\ wg' \in Nat
  BY <1>1, Returned DEF QueryInv
<1>3. TypeOK'
  BY <1>1, <1>2 DEF QueryInv, TypeOK
<1>4. \A m \in Loans, n \in 1 .. 4 : Knows(m, n) => Knows(m, n)'
  BY <1>1 DEF Knows
<1>5. Goroutines'
  BY <1>1, <1>2, <1>4 DEF QueryInv, TypeOK, Goroutines, Passed
<1> QED
  BY <1>1, <1>2, <1>3, <1>5 DEF QueryInv, History, Deadlines, Awaited, Filters

(* The n-th read of a goroutine, whatever the loan has done since the last.   *)
LEMMA Reads ==
  ASSUME QueryInv, NEW l \in Loans, NEW n \in 1 .. 3, getter[l] = n, LoadStateFromBlockchain(l)
  PROVE  /\ known' \in [Loans -> LoanState]
         /\ \A m \in Loans \ {l} : known'[m] = known[m]
         /\ Knows(l, n + 1)'
<1> DEFINE k == known[l]
           name == Getters[n]
<1>1. /\ n \in {1, 2, 3} /\ k.state \in States \cup {INVALID} /\ l \in running /\ at = "state"
      /\ state[l] \in States /\ since.state[l] \in States
      /\ UNCHANGED <<state, deadlines, since>>
  BY DEF QueryInv, TypeOK, LoanState, LoadStateFromBlockchain, chainVars
<1>2. known' = [known EXCEPT ![l] = [k EXCEPT ![name] = read(l, name)]]
  BY DEF LoadStateFromBlockchain, receiver
<1>3. Knows(l, n) /\ Leads(since.state[l], state[l])
  BY <1>1 DEF QueryInv, Goroutines, History
<1>4. k \in LoanState
  BY DEF k, QueryInv, TypeOK, LoanState
<1> HIDE DEF k
<1>5. CASE n = 1
  <2>1. known' = [known EXCEPT ![l] = [k EXCEPT !["state"] = state[l]]]
    BY <1>2, <1>5 DEF Getters, read
  <2>2. [k EXCEPT !["state"] = state[l]] = [k EXCEPT !.state = state[l]]
    BY <1>4, Zenon DEF LoanState
  <2>3. known' = [known EXCEPT ![l] = [k EXCEPT !.state = state[l]]]
    BY <2>1, <2>2
  <2>4. known' \in [Loans -> LoanState]
    BY <1>1, <1>4, <2>3 DEF QueryInv, TypeOK, LoanState
  <2>5. known'[l].state = state[l] /\ \A m \in Loans \ {l} : known'[m] = known[m]
    BY <1>4, <2>3 DEF QueryInv, TypeOK, LoanState
  <2>6. Leads(state[l], state[l])
    BY <1>1, LeadsOn
  <2>7. Knows(l, n + 1)'
    BY <1>1, <1>3, <1>5, <2>5, <2>6 DEF Knows
  <2> QED
    BY <2>4, <2>5, <2>7
<1>6. CASE n = 2
  <2> DEFINE v == "fundraisingDeadline" \in deadlines[l]
  <2>1. known' = [known EXCEPT ![l] = [k EXCEPT !["fundraisingDeadline"] = v]]
    BY <1>2, <1>6 DEF Getters, read
  <2>2. v \in BOOLEAN /\ (state[l] # "CollateralCollection" => v)
    BY DEF QueryInv, Deadlines
  <2> HIDE DEF v
  <2>3. [k EXCEPT !["fundraisingDeadline"] = v] = [k EXCEPT !.fundraisingDeadline = v]
    BY <1>4, Zenon DEF LoanState
  <2>4. known' = [known EXCEPT ![l] = [k EXCEPT !.fundraisingDeadline = v]]
    BY <2>1, <2>3
  <2>5. k.state \in States /\ Leads(since.state[l], k.state) /\ Leads(k.state, state[l])
    BY <1>3, <1>6 DEF Knows, k
  <2>6. k.state # "CollateralCollection" => v
    BY <1>1, <2>2, <2>5, LeadsOn
  <2> QED
    BY <1>1, <1>4, <1>6, <2>2, <2>4, <2>5, <2>6 DEF Knows, QueryInv, TypeOK, LoanState
<1>7. CASE n = 3
  <2> DEFINE v == "paybackDeadline" \in deadlines[l]
  <2>1. known' = [known EXCEPT ![l] = [k EXCEPT !["paybackDeadline"] = v]]
    BY <1>2, <1>7 DEF Getters, read
  <2>2. v \in BOOLEAN /\ (state[l] \in AsPaid => v)
    BY DEF QueryInv, Deadlines
  <2> HIDE DEF v
  <2>3. [k EXCEPT !["paybackDeadline"] = v] = [k EXCEPT !.paybackDeadline = v]
    BY <1>4, Zenon DEF LoanState
  <2>4. known' = [known EXCEPT ![l] = [k EXCEPT !.paybackDeadline = v]]
    BY <2>1, <2>3
  <2>5. /\ k.state \in States /\ Leads(since.state[l], k.state) /\ Leads(k.state, state[l])
        /\ k.state # "CollateralCollection" => k.fundraisingDeadline
    BY <1>3, <1>7 DEF Knows, k
  <2>6. k.state \in AsPaid => v
    BY <1>1, <2>2, <2>5, LeadsOn
  <2> QED
    BY <1>1, <1>4, <1>7, <2>2, <2>4, <2>5, <2>6 DEF Knows, QueryInv, TypeOK, LoanState
<1> QED
  BY <1>5, <1>6, <1>7

LEMMA LoadStep ==
  ASSUME QueryInv, NEW l \in Loans, LoadStateFromBlockchain(l) PROVE QueryInv'
<1>1. /\ at = "state" /\ l \in running /\ getter[l] \in 1 .. 3
      /\ UNCHANGED <<state, deadlines, investors, request, at, res, since, fault>>
  BY DEF LoadStateFromBlockchain, chainVars, QueryInv, TypeOK
<1>2. PICK n \in 1 .. 3 : n = getter[l]
  BY <1>1
<1>3. /\ known' \in [Loans -> LoanState] /\ \A m \in Loans \ {l} : known'[m] = known[m]
      /\ Knows(l, n + 1)'
  BY <1>2, Reads
<1>4. \/ /\ n < 3 /\ getter' = [getter EXCEPT ![l] = n + 1]
         /\ UNCHANGED <<running, wg, loansFiltered>>
      \/ /\ n = 3 /\ getter' = [getter EXCEPT ![l] = 1]
         /\ known'[l].state = request.state /\ send(l)
      \/ /\ n = 3 /\ getter' = [getter EXCEPT ![l] = 1]
         /\ known'[l].state # request.state /\ return(l)
  BY <1>2 DEF LoadStateFromBlockchain, Getters
<1>5. /\ TypeOK /\ Counter /\ running \subseteq Loans /\ loansFiltered \subseteq Loans /\ l \notin loansFiltered
      /\ getter \in [Loans -> 1 .. 3]
  BY <1>1 DEF QueryInv, TypeOK, Counter
<1>6. \A m \in Loans \ {l}, i \in 1 .. 4 : Knows(m, i) => Knows(m, i)'
  BY <1>1, <1>3 DEF Knows
<1>7. \A m \in running \ {l} : Knows(m, getter[m])'
  <2>1. \A m \in running \ {l} : getter'[m] = getter[m] /\ getter[m] \in 1 .. 4 /\ m \in Loans \ {l}
    BY <1>4, <1>5
  <2>2. \A m \in running \ {l} : Knows(m, getter[m])
    BY <1>1 DEF QueryInv, Goroutines
  <2>3. \A m \in running \ {l}, i \in 1 .. 4 : getter[m] = i => Knows(m, i)'
    BY <1>5, <1>6, <2>2
  <2> QED
    BY <2>1, <2>3
<1>8. \A m \in loansFiltered : Passed(m)'
  <2>1. \A m \in loansFiltered : Passed(m) /\ m \in Loans \ {l}
    BY <1>1, <1>5 DEF QueryInv, Goroutines
  <2> QED
    BY <1>1, <1>3, <1>6, <2>1 DEF Passed
<1>9. History' /\ Deadlines' /\ Filters' /\ \A m \in Loans : Matches(m)' => Matches(m)
  BY <1>1 DEF QueryInv, History, Deadlines, Filters, Matches
<1>10. CASE /\ n < 3 /\ getter' = [getter EXCEPT ![l] = n + 1]
            /\ UNCHANGED <<running, wg, loansFiltered>>
  <2>1. TypeOK' /\ Counter'
    BY <1>1, <1>3, <1>5, <1>10 DEF TypeOK, Counter
  <2>2. Knows(l, getter[l])'
    BY <1>3, <1>5, <1>10
  <2>3. Goroutines'
    BY <1>1, <1>7, <1>8, <1>10, <2>2 DEF Goroutines
  <2> QED
    BY <1>1, <1>9, <1>10, <2>1, <2>3 DEF QueryInv, Awaited
<1>11. CASE /\ n = 3 /\ getter' = [getter EXCEPT ![l] = 1]
            /\ known'[l].state = request.state /\ send(l)
  <2>1. Counter' /\ running' = running \ {l} /\ wg' \in Nat /\ running' \subseteq res' /\ loansFiltered' \subseteq res'
        /\ loansFiltered' = loansFiltered \cup {l}
    BY <1>1, <1>5, <1>11, Returned DEF send
  <2>2. TypeOK'
    BY <1>1, <1>3, <1>5, <1>11, <2>1 DEF TypeOK
  <2>3. Passed(l)'
    BY <1>1, <1>3, <1>11 DEF Passed
  <2>4. Goroutines'
    BY <1>1, <1>7, <1>8, <2>1, <2>3 DEF Goroutines
  <2> QED
    BY <1>1, <1>9, <2>1, <2>2, <2>4 DEF QueryInv, Awaited
<1>12. CASE /\ n = 3 /\ getter' = [getter EXCEPT ![l] = 1]
            /\ known'[l].state # request.state /\ return(l)
  <2>1. Counter' /\ running' = running \ {l} /\ wg' \in Nat /\ running' \subseteq res' /\ loansFiltered' \subseteq res'
        /\ loansFiltered' = loansFiltered
    BY <1>1, <1>5, <1>12, Returned DEF return
  <2>2. TypeOK'
    BY <1>1, <1>3, <1>5, <1>12, <2>1 DEF TypeOK
  <2>3. Goroutines'
    BY <1>1, <1>7, <1>8, <2>1 DEF Goroutines
  <2>4. ~Matches(l)'
    <3>1. /\ known'[l].state \in States /\ Leads(since.state[l], known'[l].state)
          /\ Leads(known'[l].state, state[l])
      BY <1>1, <1>3, <1>12 DEF Knows
    <3>2. state[l] \in States /\ since.state[l] \in States /\ request.state # INVALID
      BY <1>1 DEF QueryInv, TypeOK, Filters
    <3> QED
      BY <1>1, <1>12, <3>1, <3>2, LeadsOn DEF Matches
  <2> QED
    BY <1>1, <1>9, <2>1, <2>2, <2>3, <2>4 DEF QueryInv, Awaited
<1> QED
  BY <1>4, <1>10, <1>11, <1>12

LEMMA InvestorStep ==
  ASSUME QueryInv, NEW l \in Loans, GetInvestmentAmountFromBlockchain(l) PROVE QueryInv'
<1>1. /\ at = "investor" /\ l \in running
      /\ UNCHANGED <<state, deadlines, investors, request, at, res, known, getter, since, fault>>
      /\ \/ request.investor \in investors[l] /\ send(l)
         \/ request.investor \notin investors[l] /\ return(l)
  BY DEF GetInvestmentAmountFromBlockchain, receiver, chainVars
<1>2. /\ Counter' /\ running' = running \ {l} /\ wg' \in Nat
      /\ running' \subseteq res' /\ loansFiltered' \subseteq res'
      /\ loansFiltered' = IF request.investor \in investors[l] THEN loansFiltered \cup {l} ELSE loansFiltered
  BY <1>1, Returned DEF QueryInv, send, return
<1>3. TypeOK'
  BY <1>1, <1>2 DEF QueryInv, TypeOK
<1>4. Goroutines'
  BY <1>1 DEF QueryInv, Goroutines, Passed, Knows
<1>5. Matches(l) => request.investor \in investors[l]
  BY <1>1 DEF QueryInv, Filters, History, Matches
<1>6. \A m \in Loans : Matches(m)' => Matches(m)
  BY <1>1 DEF Matches
<1>7. Awaited'
  BY <1>1, <1>2, <1>5, <1>6 DEF QueryInv, Awaited
<1> QED
  BY <1>1, <1>2, <1>3, <1>4, <1>7 DEF QueryInv, History, Deadlines, Filters

LEMMA WaitStep == QueryInv /\ Wait => QueryInv'
<1> SUFFICES ASSUME QueryInv, Wait PROVE QueryInv'
  OBVIOUS
<1> DEFINE L == loansFiltered
<1>1. /\ UNCHANGED <<state, deadlines, investors, request, since, fault>> /\ wg = 0
      /\ at \in {"state", "investor"}
      /\ known' = [l \in Loans |-> IF l \in L THEN known[l] ELSE Unknown]
      /\ TypeOK /\ L \in SUBSET Loans /\ L \subseteq res
  BY DEF Wait, waited, chainVars, QueryInv, TypeOK
<1>2. running = {}
  <2>1. IsFiniteSet(running) /\ Cardinality(running) = 0
    BY <1>1, LoansAssumption, FS_Subset DEF QueryInv, TypeOK, Counter
  <2> QED
    BY <2>1, FS_EmptySet
<1>3. \/ at = "state" /\ filterByInvestor(L)
      \/ at = "investor" /\ answer(L)
  BY DEF Wait
<1>4. \A l \in L : request.state # INVALID => Passed(l)
  BY <1>1 DEF QueryInv, Goroutines
<1>5. ~fault => \A l \in Loans : Matches(l)' => l \in L
  BY <1>1, <1>2 DEF QueryInv, Awaited, Matches
<1> HIDE DEF L
<1>6. /\ at' \in {"investor", "answered"} /\ res' = L /\ loansFiltered' = {}
      /\ running' \subseteq L /\ wg' = Cardinality(running') /\ wg' \in Nat
      /\ at' = "investor" => running' = L /\ request.investor # Nobody
      /\ getter' \in [Loans -> 1 .. 3]
  <2>1. CASE at = "state" /\ filterByInvestor(L)
    BY <1>1, <2>1, Started
  <2>2. CASE at = "investor" /\ answer(L)
    BY <2>2, FS_EmptySet DEF answer, start
  <2> QED
    BY <1>3, <2>1, <2>2
<1>7. \A l \in L : request.state # INVALID => Passed(l)'
  BY <1>1, <1>4 DEF Passed, Knows
<1>8. TypeOK' /\ Counter'
  BY <1>1, <1>6, UnknownType DEF TypeOK, Counter
<1>9. Goroutines' /\ Awaited'
  BY <1>1, <1>5, <1>6, <1>7 DEF Goroutines, Awaited
<1> QED
  BY <1>1, <1>6, <1>8, <1>9 DEF QueryInv, History, Deadlines, Filters

LEMMA QueryStep == QueryInv /\ [Next]_vars => QueryInv'
<1> SUFFICES ASSUME QueryInv, [Next]_vars PROVE QueryInv'
  OBVIOUS
<1>1. CASE UNCHANGED vars
  BY <1>1 DEF vars, chainVars, queryVars, filterVars, QueryInv, TypeOK, Counter, History, Deadlines, Goroutines,
              Passed, Knows, Awaited, Matches, Filters
<1> QED
  BY <1>1, ChainStep, GetLoansStep, SelectStep, FailsStep, LoadStep, InvestorStep, WaitStep DEF Next, Run

-----------------------------------------------------------------------------
(* A loan is listed with a state it had during the request, however many     *)
(* loans there are and whatever happens to them meanwhile                   *)
(* (model/loans.go:246-273).                                                *)
THEOREM ListedTruly == Spec => []ListedStateIsTrue
<1>1. QueryInv => ListedStateIsTrue
  BY DEF QueryInv, TypeOK, Goroutines, Passed, Knows, ListedStateIsTrue
<1> QED
  BY <1>1, QueryInit, QueryStep, PTL DEF Spec

(* A loan is listed with every deadline that its listed state comes with     *)
(* (model/loans.go:451-464).                                                *)
THEOREM DeadlinesListed == Spec => []ListedWithDeadlines
<1>1. QueryInv => ListedWithDeadlines
  BY DEF QueryInv, TypeOK, Goroutines, Passed, Knows, AsPaid, ListedWithDeadlines
<1> QED
  BY <1>1, QueryInit, QueryStep, PTL DEF Spec

(* No loan that matches throughout is missing from the answer, unless a read *)
(* failed (model/loans.go:246-302).                                        *)
THEOREM NoneMissed == Spec => []NothingIsMissed
<1>1. QueryInv => NothingIsMissed
  BY DEF QueryInv, Awaited, Matches, NothingIsMissed
<1> QED
  BY <1>1, QueryInit, QueryStep, PTL DEF Spec
-----------------------------------------------------------------------------
(* The artifact linker.                                                     *)

LinkerTypeOK ==
    /\ needs \in [Contracts -> SUBSET (Contracts \cup {Missing})]
    /\ links \in [Contracts -> SUBSET (Contracts \cup {Missing})]
    /\ unresolved \in [Contracts -> SUBSET (Contracts \cup {Missing})]
    /\ linked \subseteq Contracts

(* A placeholder disappears from a binary only when its library is where    *)
(* the artifact says.                                                      *)
FilledIn == \A c \in Contracts : needs[c] \ unresolved[c] \subseteq (links[c] \cap Contracts) \ moved

LinkedIsResolved == \A c \in linked : unresolved[c] = {}

LinkedInv == LinkerTypeOK /\ FilledIn /\ LinkedIsResolved

LEMMA LinkedStep == LinkedInv /\ [LinkerNext]_linkerVars => LinkedInv'
<1> SUFFICES ASSUME LinkedInv, [LinkerNext]_linkerVars PROVE LinkedInv'
  OBVIOUS
<1> USE DEF LinkedInv, LinkerTypeOK, FilledIn, LinkedIsResolved, artifacts
<1>1. CASE EndLinkPass \/ EndResolvePass
  BY <1>1 DEF EndLinkPass, EndResolvePass
<1>2. ASSUME NEW c \in Contracts, VisitLink(c) PROVE LinkedInv'
  BY <1>2 DEF VisitLink, tryMakeLinked
<1>3. ASSUME NEW c \in Contracts, VisitResolve(c) PROVE LinkedInv'
  <2>1. CASE c \in linked
    BY <1>3, <2>1 DEF VisitResolve
  <2>2. CASE c \notin linked
    <3>1. unresolved' = [unresolved EXCEPT ![c] = unresolved[c] \ resolvable(c)]
      BY <1>3, <2>2 DEF VisitResolve
    <3>2. resolvable(c) \subseteq (links[c] \cap Contracts) \ moved
      BY DEF resolvable
    <3>3. UNCHANGED <<needs, links, moved, linked>>
      BY <1>3 DEF VisitResolve
    <3> QED
      BY <2>2, <3>1, <3>2, <3>3
  <2> QED
    BY <2>1, <2>2
<1>4. CASE UNCHANGED linkerVars
  BY <1>4 DEF linkerVars
<1> QED
  BY <1>1, <1>2, <1>3, <1>4 DEF LinkerNext

(* A linked contract's libraries are all on the network, at the addresses    *)
(* in its binary (link.go:44-81).                                          *)
THEOREM LinkedDeployable == LinkerSpec => []LinkedIsDeployable
<1>1. LinkerInit => LinkedInv
  BY DEF LinkerInit, LinkedInv, LinkerTypeOK, FilledIn, LinkedIsResolved
<1>2. LinkedInv /\ [LinkerNext]_linkerVars => LinkedInv'
  BY LinkedStep
<1>3. LinkedInv => LinkedIsDeployable
  BY DEF LinkedInv, LinkerTypeOK, FilledIn, LinkedIsResolved, LinkedIsDeployable, Deployable
<1> QED
  BY <1>1, <1>2, <1>3, PTL DEF LinkerSpec
-----------------------------------------------------------------------------
(* Why a pass that finds nothing more to fill in links what is left.         *)

PlacesType == prevUnlinkedCount \in Nat /\ \A c \in Contracts : unresolved[c] \subseteq needs[c]

(* What a pass has visited, it has dealt with.                              *)
Visited ==
    /\ pass = "link" => \A c \in Contracts \ visiting : unresolved[c] = {} => c \in linked
    /\ pass = "resolve" => \A c \in Contracts \ visiting : c \in linked \/ resolvable(c) = {}

(* Contracts that need nothing are linked by the first pass.                *)
FirstLinked == pass \in {"resolve", "done"} => \A c \in Contracts : needs[c] = {} => c \in linked

(* After the first pair of passes everything is filled in that can be, so    *)
(* that the next pass links all that can be.                               *)
LaterRound == prevUnlinkedCount < Cardinality(Contracts)
FilledUp == LaterRound => \A c \in Contracts : c \in linked \/ resolvable(c) = {}
LinkedUp == LaterRound /\ pass = "resolve" => \A c \in Contracts : unresolved[c] = {} => c \in linked

LinksInv == LinkedInv /\ PlacesType /\ Visited /\ FirstLinked /\ FilledUp /\ LinkedUp /\ LinksAll

LEMMA Counted ==
  ASSUME LinkerTypeOK
  PROVE  /\ Cardinality(Contracts) \in Nat /\ Cardinality(Unlinked) \in Nat
         /\ linked # {} => Cardinality(Unlinked) < Cardinality(Contracts)
<1>1. IsFiniteSet(Contracts) /\ Unlinked \subseteq Contracts
  BY ContractsAssumption DEF Unlinked
<1>2. linked # {} => Unlinked # Contracts
  BY DEF LinkerTypeOK, Unlinked
<1> QED
  BY <1>1, <1>2, FS_Subset, FS_CardinalityType

LEMMA LinksInit == LinkerInit => LinksInv
<1> SUFFICES ASSUME LinkerInit PROVE LinksInv
  OBVIOUS
<1>1. LinkedInv
  BY DEF LinkerInit, LinkedInv, LinkerTypeOK, FilledIn, LinkedIsResolved
<1>2. Cardinality(Contracts) \in Nat
  BY <1>1, Counted DEF LinkedInv
<1> QED
  BY <1>1, <1>2 DEF LinkerInit, LinksInv, PlacesType, Visited, FirstLinked, FilledUp, LinkedUp, LaterRound, LinksAll

LEMMA LinksStep == LinksInv /\ [LinkerNext]_linkerVars => LinksInv'
<1> SUFFICES ASSUME LinksInv, [LinkerNext]_linkerVars PROVE LinksInv'
  OBVIOUS
<1> USE DEF LinksInv, artifacts
<1>1. LinkedInv'
  BY LinkedStep
<1>2. /\ unresolved \in [Contracts -> SUBSET (Contracts \cup {Missing})]
      /\ linked \subseteq Contracts /\ prevUnlinkedCount \in Nat
      /\ Cardinality(Contracts) \in Nat /\ Cardinality(Unlinked) \in Nat
      /\ linked # {} => Cardinality(Unlinked) < Cardinality(Contracts)
  BY Counted DEF LinkedInv, LinkerTypeOK, PlacesType
<1>3. CASE EndLinkPass
  <2>1. /\ pass = "link" /\ pass' = "resolve" /\ visiting = {} /\ visiting' = Contracts
        /\ UNCHANGED <<needs, links, moved, unresolved, linked, prevUnlinkedCount>>
    BY <1>3 DEF EndLinkPass
  <2>2. \A c \in Contracts : unresolved[c] = {} => c \in linked
    BY <2>1 DEF Visited
  <2>3. \A c \in Contracts : needs[c] = {} => c \in linked
    BY <2>2 DEF PlacesType
  <2> QED
    BY <1>1, <2>1, <2>2, <2>3 DEF PlacesType, Visited, FirstLinked, FilledUp, LinkedUp, LaterRound, LinksAll,
                                  resolvable
<1>4. CASE EndResolvePass
  <2>1. /\ pass = "resolve" /\ visiting = {} /\ pass' \in {"done", "link"}
        /\ prevUnlinkedCount' = Cardinality(Unlinked)
        /\ pass' = "done" => Cardinality(Unlinked) = prevUnlinkedCount \/ Unlinked = {}
        /\ pass' = "link" => visiting' = Contracts
        /\ UNCHANGED <<needs, links, moved, unresolved, linked>>
    BY <1>4 DEF EndResolvePass, Finished
  <2>2. \A c \in Contracts : c \in linked \/ resolvable(c) = {}
    BY <2>1 DEF Visited
  <2>3. \A c \in Contracts : needs[c] = {} => c \in linked
    BY <2>1 DEF FirstLinked
  <2>4. ASSUME pass' = "done", \E c \in Contracts : needs[c] = {}
        PROVE  Deployable \subseteq linked
    <3>1. linked # {}
      BY <2>3, <2>4
    <3>2. CASE Unlinked = {}
      BY <3>2 DEF Unlinked, Deployable
    <3>3. CASE LaterRound
      <4>1. SUFFICES ASSUME NEW c \in Deployable PROVE c \in linked
        OBVIOUS
      <4>2. c \in Contracts /\ unresolved[c] \subseteq (links[c] \cap Contracts) \ moved
        BY DEF Deployable, PlacesType
      <4>3. c \in linked \/ unresolved[c] = {}
        BY <2>2, <4>2 DEF resolvable
      <4> QED
        BY <2>1, <3>3, <4>2, <4>3 DEF LinkedUp
    <3> QED
      BY <1>2, <2>1, <2>4, <3>1, <3>2, <3>3 DEF LaterRound
  <2> QED
    BY <1>1, <1>2, <2>1, <2>2, <2>3, <2>4 DEF PlacesType, Visited, FirstLinked, FilledUp, LinkedUp, LinksAll,
                                  Deployable, resolvable
<1>5. ASSUME NEW c \in Contracts, VisitLink(c) PROVE LinksInv'
  <2>1. /\ pass = "link" /\ pass' = "link" /\ visiting' = visiting \ {c} /\ linked \subseteq linked'
        /\ unresolved[c] = {} => c \in linked'
        /\ UNCHANGED <<needs, links, moved, unresolved, prevUnlinkedCount>>
    BY <1>5 DEF VisitLink, tryMakeLinked
  <2> QED
    BY <1>1, <2>1 DEF PlacesType, Visited, FirstLinked, FilledUp, LinkedUp, LaterRound, LinksAll, resolvable
<1>6. ASSUME NEW c \in Contracts, VisitResolve(c) PROVE LinksInv'
  <2>1. /\ pass = "resolve" /\ pass' = "resolve" /\ visiting' = visiting \ {c}
        /\ UNCHANGED <<needs, links, moved, linked, prevUnlinkedCount>>
    BY <1>6 DEF VisitResolve
  <2>2. /\ \A d \in Contracts \ {c} : unresolved'[d] = unresolved[d]
        /\ unresolved'[c] = IF c \in linked THEN unresolved[c] ELSE unresolved[c] \ resolvable(c)
    BY <1>2, <1>6 DEF VisitResolve
  <2>3. \A d \in Contracts : unresolved'[d] \subseteq unresolved[d]
    BY <2>2
  <2>4. \A d \in Contracts : resolvable(d)' \subseteq resolvable(d)
    BY <2>1, <2>3 DEF resolvable
  <2>5. c \in linked \/ resolvable(c)' = {}
    BY <2>1, <2>2 DEF resolvable
  <2>6. Visited'
    BY <2>1, <2>4, <2>5 DEF Visited
  <2>7. LaterRound => \A d \in Contracts : d \in linked \/ unresolved'[d] = unresolved[d]
    BY <2>2 DEF FilledUp
  <2>8. FilledUp' /\ LinkedUp'
    BY <2>1, <2>4, <2>7 DEF FilledUp, LinkedUp, LaterRound
  <2> QED
    BY <1>1, <2>1, <2>3, <2>6, <2>8 DEF PlacesType, FirstLinked, LinksAll
<1>7. CASE UNCHANGED linkerVars
  BY <1>1, <1>7 DEF linkerVars, PlacesType, Visited, FirstLinked, FilledUp, LinkedUp, LaterRound, LinksAll, Deployable,
                    resolvable
<1> QED
  BY <1>3, <1>4, <1>5, <1>6, <1>7 DEF LinkerNext

(* When the linker stops it has linked every contract that can be deployed,  *)
(* in any order of the visits, if one of them needs no library: a second     *)
(* pair of passes always follows the first (link.go:85-122).                *)
THEOREM AllLinked == LinkerSpec => []LinksAll
<1>1. LinksInv => LinksAll
  BY DEF LinksInv
<1> QED
  BY <1>1, LinksInit, LinksStep, PTL DEF LinkerSpec
=============================================================================
