------------------------------- MODULE Session -------------------------------
(***************************************************************************)
(* How a page of the web frontend gets hold of a client of getline.ts:      *)
(* every 1.5 seconds a Client is made and initialised, until an attempt     *)
(* succeeds, while the calls of the pages use the newest one and initialise *)
(* it themselves if they have to.  Attempts overlap when the web3 provider   *)
(* takes longer than that.                                                 *)
(***************************************************************************)
EXTENDS Naturals, FiniteSets

CONSTANTS
    Clients,        \* bound: the Client objects that are in use at the same time
    Calls,          \* the calls of api functions that can be under way
    NoClient,       \* undefined
    Providers       \* what the provider can be like

AllProviders == {"ready", "locked", "otherNetwork", "failing"}

ASSUME ClientsAssumption == NoClient \notin Clients /\ Clients \cap Calls = {}
ASSUME ProvidersAssumption == Providers \subseteq AllProviders

VARIABLES
    api,            \* the client that was made last
    initialized,    \* Client.initialized, of each client
    ticking,        \* the interval of init was not cleared
    at,             \* where the attempt that made a client, and each call, is
    client,         \* the client that a call was given
    page,           \* where the router is
    loggedIn        \* of the account store

sessionVars == <<api, initialized, ticking, at, client, page, loggedIn>>
webVars == <<ticking, page, loggedIn>>

ErrorPages == {"unlock-metamask", "network", "install-metamask", "unknown"}
Pages == {"invest", "print"} \cup ErrorPages

isErrorPage == page \in ErrorPages

(* Balance.vue is created with the page and asks for the balance.           *)
SessionInit(first) ==
    /\ api = NoClient /\ ticking = TRUE
    /\ initialized = [k \in Clients |-> FALSE]
    /\ at = [x \in Clients \cup Calls |-> IF x = first THEN "waiting" ELSE "idle"]
    /\ client = [c \in Calls |-> NoClient]
    /\ page = "invest" /\ loggedIn = FALSE

(* A client that nobody holds: initClient makes a new one.                  *)
unused(k) ==
    /\ k # api /\ at[k] = "idle"
    /\ \A c \in Calls : client[c] # k

(* The interval fires: initClient, up to its first await.                   *)
initClient(k) ==
    /\ ticking /\ unused(k)
    /\ api' = k
    /\ initialized' = [initialized EXCEPT ![k] = FALSE]
    /\ at' = [at EXCEPT ![k] = "initialize"]
    /\ UNCHANGED <<client, webVars>>

(* Where a call goes on that has a client: initializeIfNeeded.              *)
initializeIfNeeded_Never(k, done) == "ready"

initializeIfNeeded(k, done) == IF done[k] THEN "ready" ELSE "initialize"

(* Where a call starts that asks for API.instance and uses what it gets.    *)
instance == IF api = NoClient THEN "waiting" ELSE initializeIfNeeded(api, initialized)

(* The page for the reason why a provider cannot be used.                   *)
ErrorPageOf == [locked |-> "unlock-metamask", otherNetwork |-> "network", failing |-> "install-metamask"]

(* Whether the interval goes on after an attempt.                           *)
keepsTrying_Once(success) == FALSE

keepsTrying(success) == ~success

(* An initialisation ends with an error: a call is rejected with it, an     *)
(* attempt shows the page for the error, even if another has succeeded.     *)
handleInitError(x, provider) ==
    /\ at' = [at EXCEPT ![x] = "idle"]
    /\ client' = [c \in Calls |-> IF c = x THEN NoClient ELSE client[c]]
    /\ page' = IF x \in Clients THEN ErrorPageOf[provider] ELSE page
    /\ ticking' = (ticking /\ (x \in Clients => keepsTrying(FALSE)))
    /\ UNCHANGED <<api, initialized, loggedIn>>

(* The attempt has succeeded: leave an error page, hand the newest client,  *)
(* which may be another one, to the calls that wait, clear the interval.    *)
afterSuccessfulInitialization(k) ==
    LET done == [initialized EXCEPT ![k] = TRUE]
        sleepers == {c \in Calls : at[c] = "waiting"}
    IN /\ initialized' = done
       /\ loggedIn' = TRUE
       /\ page' = IF isErrorPage THEN "invest" ELSE page
       /\ client' = [c \in Calls |-> IF c \in sleepers THEN api ELSE client[c]]
       /\ at' = [x \in Clients \cup Calls |->
                    CASE x = k -> "idle"
                      [] x \in sleepers -> initializeIfNeeded(api, done)
                      [] OTHER -> at[x]]
       /\ ticking' = (ticking /\ keepsTrying(TRUE))
       /\ UNCHANGED <<api>>

(* GetlineBlockchain.initialize: the provider was asked for its network and *)
(* then its accounts, and the user may lock or unlock it at any time.  Two   *)
(* initialisations of one client may overlap.                              *)
initialize(x) ==
    /\ at[x] = "initialize"
    /\ \/ \E provider \in Providers \ {"ready"} : handleInitError(x, provider)
       \/ x \in Clients /\ afterSuccessfulInitialization(x)
       \/ /\ x \in Calls
          /\ initialized' = [initialized EXCEPT ![client[x]] = TRUE]
          /\ at' = [at EXCEPT ![x] = "ready"]
          /\ UNCHANGED <<api, client, webVars>>

(* The user follows a link, or types an address.                           *)
navigate(to) ==
    /\ to \in Pages \ ErrorPages /\ page # to
    /\ page' = to
    /\ UNCHANGED <<api, initialized, ticking, at, client, loggedIn>>
=============================================================================
