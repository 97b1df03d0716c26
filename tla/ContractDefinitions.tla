------------------------ MODULE ContractDefinitions ------------------------
(***************************************************************************)
(* getline.ts/src/metabackend.ts: one MetabackendClient, whose contract      *)
(* definitions are downloaded once, under a mutex, however many callers     *)
(* await getABI and getBytecode at the same time.  A step runs from one     *)
(* await to the next.                                                      *)
(***************************************************************************)
EXTENDS Naturals, Sequences, FiniteSets, SequencesExt

CONSTANTS
    Callers,        \* the asynchronous calls that can be under way at once
    Gone,           \* stands in the lock for a call that ended without a release
    Answers         \* what the metabackend can do: see invoke

ASSUME CallersAssumption == Gone \notin Callers
ASSUME AnswersAssumption == Answers \subseteq {"definitions", "otherNetwork", "error"}

VARIABLES
    contractDefinitions,    \* BOOLEAN: not undefined
    lock,                   \* contractDefinitionsLock: its holder, then who waits
    call                    \* what each caller's promise is waiting for, or became

vars == <<contractDefinitions, lock, call>>

(* A promise is resolved, rejected with the error of the metabackend, or     *)
(* rejected because the answer was for another network.                     *)
Settled == {"resolved", "failed", "invalidNetwork"}

TypeOK ==
    /\ contractDefinitions \in BOOLEAN
    /\ lock \in Seq(Callers \cup {Gone}) /\ IsInjective(lock)
    /\ call \in [Callers -> {"idle", "acquire", "invoke"} \cup Settled]

Init ==
    /\ contractDefinitions = FALSE
    /\ lock = << >>
    /\ call = [c \in Callers |-> "idle"]

(* The mutex of async-mutex is handed on in the order of the acquires.      *)
acquire(c) == lock' = Append(lock, c)
holds(c) == lock # << >> /\ Head(lock) = c
release == lock' = Tail(lock)
abandon == lock' = <<Gone>> \o Tail(lock)

settle(c, outcome) == call' = [call EXCEPT ![c] = outcome]

(* getABI or getBytecode.  A caller whose call settled may call again.      *)
getABI(c) ==
    /\ call[c] \in {"idle"} \cup Settled
    /\ acquire(c)
    /\ call' = [call EXCEPT ![c] = "acquire"]
    /\ UNCHANGED contractDefinitions

(* A name continued after an underscore is a definition with a mistake.     *)
cached_Never(c) == FALSE

(* What an earlier holder of the lock downloaded is used.                   *)
cached(c) == contractDefinitions

getContractDefinitions(c) ==
    /\ call[c] = "acquire" /\ holds(c)
    /\ IF cached(c) THEN release /\ settle(c, "resolved")
       ELSE settle(c, "invoke") /\ UNCHANGED lock
    /\ UNCHANGED contractDefinitions

downloaded(c) ==
    /\ contractDefinitions' = TRUE
    /\ release /\ settle(c, "resolved")

invalidNetwork_KeepsLock(c) == abandon /\ settle(c, "invalidNetwork") /\ UNCHANGED contractDefinitions

invalidNetwork_RetriesLocked(c) ==
    acquire(c) /\ settle(c, "acquire") /\ UNCHANGED contractDefinitions

invalidNetwork(c) == release /\ settle(c, "invalidNetwork") /\ UNCHANGED contractDefinitions

(* The promise of invoke settles.  Its rejection is thrown at the await,    *)
(* past every release.                                                     *)
invoke(c, answer) ==
    /\ call[c] = "invoke"
    /\ CASE answer = "definitions" -> downloaded(c)
         [] answer = "otherNetwork" -> invalidNetwork(c)
         [] answer = "error" -> abandon /\ settle(c, "failed") /\ UNCHANGED contractDefinitions

Answer(c) == \E answer \in Answers : invoke(c, answer)

Next == \E c \in Callers : getABI(c) \/ getContractDefinitions(c) \/ Answer(c)

Spec == Init /\ [][Next]_vars

(* The event loop runs every continuation, and every request is answered.   *)
FairSpec ==
    Spec /\ \A c \in Callers : WF_vars(getContractDefinitions(c)) /\ WF_vars(Answer(c))

-----------------------------------------------------------------------------
(* However many callers are waiting, the definitions are asked for by one   *)
(* at a time and never again once they are there: the check of the cache    *)
(* after the lock was acquired is not stale (metabackend.ts:118-134).       *)
OneDownload ==
    \A c \in Callers : call[c] = "invoke" =>
        ~contractDefinitions /\ \A d \in Callers \ {c} : call[d] # "invoke"

(* As long as the metabackend answers, every call comes to an end, also     *)
(* behind callers who keep calling and answers from the wrong network       *)
(* (metabackend.ts:118-137).                                               *)
EveryCallSettles ==
    [](\A c \in Callers : call[c] # "failed") =>
        \A c \in Callers : call[c] = "acquire" ~> call[c] \in Settled

(* getABI returns the ABI of a contract (its comment, metabackend.ts:71-73), *)
(* or says why not - also when the server failed an earlier call.           *)
SettlesAfterErrors == \A c \in Callers : call[c] = "acquire" ~> call[c] \in Settled
=============================================================================
