------------------------------- MODULE Wallet -------------------------------
(***************************************************************************)
(* The balance at the top of every page and the page that prints demo        *)
(* tokens: the account store, PrintDemoTokens.vue and the api functions      *)
(* behind them, on top of the clients of Session and of a PrintableToken     *)
(* that everybody else uses too.                                            *)
(***************************************************************************)
EXTENDS Session, PrintableToken

CONSTANTS
    me,             \* the account of the user
    thePrint        \* bound: one of the Calls at a time is a requestTokens

ASSUME MeAssumption == me \in Addresses
ASSUME PrintAssumption == thePrint \in Calls

(* Bound: so many answers for the balance can be under way.                 *)
BalanceCalls == Calls \ {thePrint}

VARIABLES
    isLoading, errorReceivingBalance,  \* of the account store
    loading,        \* of PrintDemoTokens
    late,           \* history: the calls that had read before the last print ended
    shown           \* history: what is shown, relative to the last print

accountVars == <<isLoading, errorReceivingBalance>>
historyVars == <<late, shown>>
walletVars == <<accountVars, historyVars, loading, sessionVars, vars>>

WalletInit ==
    /\ Init
    /\ \E first \in BalanceCalls : SessionInit(first)
    /\ isLoading = TRUE /\ errorReceivingBalance = FALSE
    /\ loading = FALSE
    /\ late = {} /\ shown = "fresh"

(* getMyBalance: the client is there, and balanceOf is called ...           *)
readBalance(c) ==
    /\ at[c] = "ready"
    /\ at' = [at EXCEPT ![c] = "read"]
    /\ UNCHANGED <<accountVars, historyVars, loading, api, initialized, client, webVars, vars>>

(* ... and answers arrive in any order.                                     *)
RECEIVE_MY_BALANCE(c) ==
    /\ at[c] = "read"
    /\ at' = [at EXCEPT ![c] = "idle"]
    /\ isLoading' = FALSE /\ errorReceivingBalance' = FALSE
    /\ late' = late \ {c}
    /\ shown' = IF c \in late THEN "excused" ELSE "fresh"
    /\ client' = [client EXCEPT ![c] = NoClient]
    /\ UNCHANGED <<loading, api, initialized, webVars, vars>>

(* The client could not be initialised, or a call of the contract failed.   *)
REJECT_MY_BALANCE(c) ==
    /\ at' = [at EXCEPT ![c] = "idle"]
    /\ client' = [client EXCEPT ![c] = NoClient]
    /\ isLoading' = FALSE /\ errorReceivingBalance' = TRUE
    /\ late' = late \ {c}
    /\ shown' = IF shown = "old" THEN "excused" ELSE shown

readFails(c) ==
    /\ at[c] \in {"ready", "read"}
    /\ REJECT_MY_BALANCE(c)
    /\ UNCHANGED <<loading, api, initialized, webVars, vars>>

(* The button of PrintDemoTokens, which a spinner replaces while it works.  *)
requestTokens ==
    /\ page = "print" /\ ~loading /\ at[thePrint] = "idle"
    /\ loading' = TRUE
    /\ at' = [at EXCEPT ![thePrint] = instance]
    /\ client' = [client EXCEPT ![thePrint] = api]
    /\ UNCHANGED <<accountVars, historyVars, api, initialized, webVars, vars>>

(* Token.print: the transaction is sent, unless the user refuses to sign.   *)
sendPrint ==
    /\ at[thePrint] = "ready"
    /\ at' = [at EXCEPT ![thePrint] = "sent"]
    /\ UNCHANGED <<accountVars, historyVars, loading, api, initialized, client, webVars, vars>>

(* It is mined; it can fail for want of gas or because a sum overflows.     *)
minePrint ==
    /\ at[thePrint] = "sent"
    /\ at' = [at EXCEPT ![thePrint] = "mined"]
    /\ print(me) \/ UNCHANGED vars
    /\ UNCHANGED <<accountVars, historyVars, loading, api, initialized, client, webVars>>

(* Where the promises are once the balance was asked for again, in c; and    *)
(* if it was asked for without an await, before the print.                  *)
dispatched_BeforePrint(c) == [at EXCEPT ![thePrint] = "idle"]

dispatched(c) == [at EXCEPT ![thePrint] = "idle", ![c] = instance]

(* The rest of requestTokens, on whatever page the user is by now.          *)
printed(c) ==
    /\ at[thePrint] = "mined"
    /\ c \in BalanceCalls /\ at[c] = "idle"
    /\ at' = dispatched(c)
    /\ client' = [client EXCEPT ![c] = api, ![thePrint] = NoClient]
    /\ isLoading' = TRUE
    /\ page' = "invest" /\ loading' = FALSE
    /\ late' = {d \in BalanceCalls : at[d] = "read"}
    /\ shown' = "old"
    /\ UNCHANGED <<errorReceivingBalance, api, initialized, ticking, loggedIn, vars>>

(* Or an error is thrown: the user refuses to sign, a call of the provider   *)
(* fails, waitTxMined gives up.  Nothing catches it, nothing resets loading. *)
printFails ==
    /\ at[thePrint] \in {"ready", "sent", "mined"}
    /\ at' = [at EXCEPT ![thePrint] = "idle"]
    /\ client' = [client EXCEPT ![thePrint] = NoClient]
    /\ UNCHANGED <<accountVars, historyVars, loading, api, initialized, webVars, vars>>

initializeForBalance(c) ==
    /\ initialize(c)
    /\ IF at'[c] = "idle" THEN REJECT_MY_BALANCE(c) ELSE UNCHANGED <<accountVars, historyVars>>
    /\ UNCHANGED <<loading, vars>>

BalanceStep(c) == initializeForBalance(c) \/ readBalance(c) \/ RECEIVE_MY_BALANCE(c) \/ readFails(c)
PrintStep == sendPrint \/ printFails \/ \E c \in BalanceCalls : printed(c)

(* Leaving a page destroys its component, but not its promises.             *)
leaving == loading' = (loading /\ page' = page)

visit(to) == navigate(to) /\ leaving /\ UNCHANGED <<accountVars, historyVars, vars>>

SessionOnly(step) == step /\ leaving /\ UNCHANGED <<accountVars, historyVars, vars>>

(* Everybody else's use of the token.                                       *)
OthersUseToken == Next /\ UNCHANGED <<accountVars, historyVars, loading, sessionVars>>

WalletNext ==
    \/ requestTokens \/ minePrint \/ PrintStep \/ OthersUseToken
    \/ \E k \in Clients : SessionOnly(initClient(k))
    \/ \E x \in Clients \cup {thePrint} : SessionOnly(initialize(x))
    \/ \E c \in BalanceCalls : BalanceStep(c)
    \/ \E to \in Pages : visit(to)

WalletSpec == WalletInit /\ [][WalletNext]_walletVars

-----------------------------------------------------------------------------
WalletTypeOK ==
    /\ TypeOK
    /\ api \in Clients \cup {NoClient} /\ initialized \in [Clients -> BOOLEAN]
    /\ at \in [Clients \cup Calls ->
                  {"idle", "waiting", "initialize", "ready", "read", "sent", "mined"}]
    /\ client \in [Calls -> Clients \cup {NoClient}]
    /\ page \in Pages
    /\ isLoading \in BOOLEAN /\ errorReceivingBalance \in BOOLEAN /\ loading \in BOOLEAN

(* No call reads the chain or sends a transaction with a client that was    *)
(* not initialised, although API.instance hands out one that is still being *)
(* initialised or never will be (api.ts:42-52, client.ts:61-78, 221-227).   *)
InitializedBeforeUse ==
    \A c \in Calls : at[c] \in {"ready", "read", "sent", "mined"} => initialized[client[c]]

(* Until the user is logged in another attempt is made after every failure, *)
(* and no call goes on waiting for a client once he is: none misses the     *)
(* moment at which the sleepers are woken (api.ts:21-41, 42-52).            *)
NobodyForgotten == (loggedIn \/ ticking) /\ (loggedIn => \A c \in Calls : at[c] # "waiting")

(* After a print the balance that is shown was read after it, or a request  *)
(* for that one is under way, or failed, or an older answer overtook it;    *)
(* and the spinner in its place never outlasts the requests                 *)
(* (PrintDemoTokens.vue:50-55, store/account/actions.ts:7-16,               *)
(* store/account/mutations.ts:5-16).                                       *)
PrintShows ==
    /\ shown = "old" => \E c \in BalanceCalls \ late : at[c] # "idle"
    /\ isLoading => \E c \in BalanceCalls : at[c] # "idle"
=============================================================================
