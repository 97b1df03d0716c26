------------------------------- MODULE Linker -------------------------------
(***************************************************************************)
(* link.go: the linker that turns the contract artifacts of one network     *)
(* into deployable bytecode.  A binary is abstracted to the set of names    *)
(* whose placeholders it still contains.  Each pass visits the contracts    *)
(* in the unspecified order of a Go map.                                   *)
(***************************************************************************)
EXTENDS FiniteSets, Naturals

CONSTANTS
    Contracts,      \* the artifacts: every one is put on every network
    Missing         \* a library that has no artifact

ASSUME ContractsAssumption == IsFiniteSet(Contracts) /\ Missing \notin Contracts

VARIABLES
    needs,          \* the placeholders of each artifact's binary
    links,          \* the dependencies each artifact records an address for
    moved,          \* dependencies since redeployed at another address
    unresolved,     \* the placeholders left in each binary (UnlinkedBinary)
    linked,         \* contracts with a LinkedBinary
    pass,           \* "link", "resolve", "count" or "done"
    visiting,       \* the contracts this pass has still to visit
    prevUnlinkedCount

artifacts == <<needs, links, moved>>
linkerVars == <<artifacts, unresolved, linked, pass, visiting, prevUnlinkedCount>>

Unlinked == Contracts \ linked

(* A library is deployed before the contracts that link to it, so that      *)
(* needs has no cycle.  Links the binary does not use are left out: the      *)
(* linker skips them.                                                      *)
LinkerInit ==
    /\ needs \in [Contracts -> SUBSET (Contracts \cup {Missing})]
    /\ \A S \in SUBSET Contracts \ {{}} : \E c \in S : needs[c] \cap S = {}
    /\ links \in [Contracts -> SUBSET (Contracts \cup {Missing})]
    /\ \A c \in Contracts : links[c] \subseteq needs[c]
    /\ moved \in SUBSET Contracts
    /\ unresolved = needs
    /\ linked = {}
    /\ pass = "link" /\ visiting = Contracts
    /\ prevUnlinkedCount = Cardinality(Contracts)

(* A contract is linked when nothing is left to resolve in its binary.      *)
tryMakeLinked(c) == linked' = IF unresolved[c] = {} THEN linked \cup {c} ELSE linked

resolvable_AnyAddress(c) == {d \in links[c] \cap unresolved[c] : d \in Contracts}

(* A placeholder is filled in when its library is on the network, at the    *)
(* address the contract's artifact recorded, and occurs in the binary.      *)
resolvable(c) == {d \in links[c] \cap unresolved[c] : d \in Contracts /\ d \notin moved}

VisitLink(c) ==
    /\ pass = "link" /\ c \in visiting
    /\ visiting' = visiting \ {c}
    /\ IF c \in linked THEN UNCHANGED linked ELSE tryMakeLinked(c)
    /\ UNCHANGED <<artifacts, unresolved, pass, prevUnlinkedCount>>

VisitResolve(c) ==
    /\ pass = "resolve" /\ c \in visiting
    /\ visiting' = visiting \ {c}
    /\ unresolved' = IF c \in linked THEN unresolved
                     ELSE [unresolved EXCEPT ![c] = @ \ resolvable(c)]
    /\ UNCHANGED <<artifacts, linked, pass, prevUnlinkedCount>>

EndLinkPass ==
    /\ pass = "link" /\ visiting = {}
    /\ pass' = "resolve" /\ visiting' = Contracts
    /\ UNCHANGED <<artifacts, unresolved, linked, prevUnlinkedCount>>

Finished_AfterOne == TRUE
Finished_AllLinked == Unlinked = {}

(* Stop when the pair of passes linked nothing, or everything is linked.    *)
Finished == Cardinality(Unlinked) = prevUnlinkedCount \/ Unlinked = {}

EndResolvePass ==
    /\ pass = "resolve" /\ visiting = {}
    /\ IF Finished THEN pass' = "done" /\ UNCHANGED visiting
       ELSE pass' = "link" /\ visiting' = Contracts
    /\ prevUnlinkedCount' = Cardinality(Unlinked)
    /\ UNCHANGED <<artifacts, unresolved, linked>>

LinkerNext ==
    \/ EndLinkPass \/ EndResolvePass
    \/ \E c \in Contracts : VisitLink(c) \/ VisitResolve(c)

LinkerSpec == LinkerInit /\ [][LinkerNext]_linkerVars
LinkerFairSpec == LinkerSpec /\ WF_linkerVars(LinkerNext)

-----------------------------------------------------------------------------
(* What can be deployed: every library its binary needs is on the network   *)
(* where the artifact says.                                                *)
Deployable == {c \in Contracts : needs[c] \subseteq (links[c] \cap Contracts) \ moved}

(* No contract is served as linked while a library it needs is absent or    *)
(* elsewhere (link.go:44-81), whatever the order of the visits.             *)
LinkedIsDeployable == linked \subseteq Deployable

(* When the linker stops, it has linked all it could, in any order of the   *)
(* visits - provided some contract needed no library, so that the first     *)
(* pair of passes counted progress (link.go:85-122).                        *)
LinksAll ==
    pass = "done" /\ (\E c \in Contracts : needs[c] = {}) => Deployable \subseteq linked

(* The linker stops, also when some contracts cannot be linked.             *)
Terminates == <>(pass = "done")
=============================================================================
