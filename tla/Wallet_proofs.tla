--------------------------- MODULE Wallet_proofs ---------------------------
(***************************************************************************)
(* The token that the wallet works with keeps its supply and its owners'     *)
(* authority, the clients that the pages use are initialised, nobody waits  *)
(* for one for ever, and a print shows: for any width, holders, clients and *)
(* calls.  And, for any accounts, the roles of AccessControl.                 *)
(***************************************************************************)
EXTENDS Wallet, AccessControl, BasicToken_proofs

(* The token by itself.                                                     *)
IInv == TypeOK /\ Conservation

LEMMA InitInv == Init => IInv
<1> SUFFICES ASSUME Init PROVE IInv
  OBVIOUS
<1>1. TypeOK
  BY WordAssumption DEF Init, TypeOK, Uint
<1>2. Conservation
  BY TotalZero DEF Init, Conservation
<1> QED
  BY <1>1, <1>2 DEF IInv

(* A transfer from one holder to another, by whichever call.                *)
LEMMA MoveStep ==
  ASSUME IInv, NEW from \in Addresses, NEW to \in Addresses \cup {NullAddress},
         NEW v \in Amounts, CanTransfer(balanceOf, from, to, v),
         balanceOf' = Moved(balanceOf, from, to, v), UNCHANGED totalSupply
  PROVE  /\ balanceOf' \in [Addresses -> Uint(Word)]
         /\ Conservation'
         /\ \A c \in Addresses : balanceOf'[c] < balanceOf[c] =>
               c = from /\ balanceOf[c] - balanceOf'[c] = v
<1>1. to \in Addresses /\ v \in Uint(Word)
  BY AmountAssumption DEF CanTransfer
<1>2. balanceOf \in [Addresses -> Uint(Word)]
  BY DEF IInv, TypeOK
<1>3. /\ balanceOf' \in [Addresses -> Uint(Word)]
      /\ from = to => balanceOf' = balanceOf
      /\ from # to => balanceOf'[from] = balanceOf[from] - v /\ balanceOf'[to] = balanceOf[to] + v
      /\ \A c \in Addresses \ {from, to} : balanceOf'[c] = balanceOf[c]
  BY <1>1, <1>2, WordAssumption, MovedExact
<1>4. Total(balanceOf') = Total(balanceOf)
  BY <1>1, <1>2, WordAssumption, AddressAssumption, MovedTotal
<1>5. ASSUME NEW c \in Addresses, balanceOf'[c] < balanceOf[c]
      PROVE  c = from /\ balanceOf[c] - balanceOf'[c] = v
  BY <1>1, <1>2, <1>3, <1>5 DEF Uint
<1> QED
  BY <1>3, <1>4, <1>5 DEF IInv, Conservation

LEMMA StepInv == IInv /\ [Next]_vars => IInv'
<1> SUFFICES ASSUME IInv, [Next]_vars PROVE IInv'
  OBVIOUS
<1> USE DEF IInv, TypeOK
<1>1. ASSUME NEW sender \in Addresses, NEW to \in Addresses \cup {NullAddress},
             NEW v \in Amounts, Transfer(sender, to, v)
      PROVE  IInv'
  <2>1. balanceOf' \in [Addresses -> Uint(Word)] /\ Conservation'
    BY <1>1, MoveStep DEF Transfer
  <2> QED
    BY <1>1, <2>1 DEF Transfer
<1>2. ASSUME NEW sender \in Addresses, NEW from \in Addresses,
             NEW to \in Addresses \cup {NullAddress},
             NEW v \in Amounts, TransferFrom(sender, from, to, v)
      PROVE  IInv'
  <2>1. balanceOf' \in [Addresses -> Uint(Word)] /\ Conservation'
    BY <1>2, MoveStep DEF TransferFrom, CanTransferFrom
  <2>2. SubMod(allowance[from][sender], v, Word) \in Uint(Word)
    BY WordAssumption, AmountAssumption, SubModType
  <2>3. allowance' \in [Addresses -> [Addresses -> Uint(Word)]]
    BY <1>2, <2>2 DEF TransferFrom
  <2> QED
    BY <1>2, <2>1, <2>3 DEF TransferFrom
<1>3. ASSUME NEW sender \in Addresses, NEW spender \in Addresses, NEW v \in Amounts,
             Approve(sender, spender, v)
      PROVE  IInv'
  BY <1>3, AmountAssumption DEF Approve, Conservation
<1>4. ASSUME NEW who \in Addresses \cup {NullAddress}, print(who)
      PROVE  IInv'
  <2>1. who \in Addresses /\ PrintValue \in Uint(Word) /\ balanceOf[who] \in Uint(Word)
    BY <1>4, AmountAssumption DEF print
  <2>2. /\ AddMod(totalSupply, PrintValue, Word) = totalSupply + PrintValue
        /\ AddMod(totalSupply, PrintValue, Word) \in Uint(Word)
    BY <1>4, <2>1, WordAssumption, AddModType DEF print
  <2>3. /\ AddMod(balanceOf[who], PrintValue, Word) = balanceOf[who] + PrintValue
        /\ AddMod(balanceOf[who], PrintValue, Word) \in Uint(Word)
    BY <1>4, <2>1, WordAssumption, AddModType DEF print
  <2>4. /\ balanceOf' \in [Addresses -> Uint(Word)]
        /\ balanceOf'[who] = balanceOf[who] + PrintValue
        /\ \A c \in Addresses \ {who} : balanceOf'[c] = balanceOf[c]
    BY <1>4, <2>1, <2>3 DEF print
  <2>5. balanceOf \in [Addresses -> Nat] /\ balanceOf' \in [Addresses -> Nat]
    BY <2>4 DEF Uint
  <2>6. Total(balanceOf') + balanceOf[who] = Total(balanceOf) + balanceOf'[who]
    <3>1. IsFiniteSet(Addresses)
      BY AddressAssumption
    <3> QED
      BY <2>1, <2>4, <2>5, <3>1, TotalChange
  <2>7. Total(balanceOf') \in Nat /\ Total(balanceOf) \in Nat
    BY <2>5, AddressAssumption, TotalType
  <2>8. totalSupply' = totalSupply + PrintValue /\ totalSupply' \in Uint(Word)
    BY <1>4, <2>2 DEF print
  <2>9. Conservation'
    BY <2>1, <2>4, <2>5, <2>6, <2>7, <2>8 DEF Conservation, Uint
  <2> QED
    BY <1>4, <2>4, <2>8, <2>9 DEF print
<1>5. CASE UNCHANGED vars
  BY <1>5 DEF vars, Conservation
<1> QED
  BY <1>1, <1>2, <1>3, <1>4, <1>5 DEF Next

(* The token's variables keep their types: no balance, supply or allowance  *)
(* leaves 0 .. 2^256-1 (BasicToken.sol:44-74, PrintableToken.sol:22-30).     *)
THEOREM TypeCorrect == Spec => []TypeOK
<1>1. IInv => TypeOK
  BY DEF IInv
<1> QED
  BY <1>1, InitInv, StepInv, PTL DEF Spec

(* The balances always add up to the supply (BasicToken.sol:44-74,           *)
(* PrintableToken.sol:22-30).                                              *)
THEOREM SupplyConserved == Spec => []Conservation
<1>1. IInv => Conservation
  BY DEF IInv
<1> QED
  BY <1>1, InitInv, StepInv, PTL DEF Spec

(* An account loses tokens only by its owner's transfer or to a spender     *)
(* whose allowance shrinks by the same amount (BasicToken.sol:44-74).        *)
THEOREM SpendingAuthorized == Spec => SpendingIsAuthorized
<1> DEFINE Authorized ==
      \A a \in Addresses :
          LET lost == balanceOf[a] - balanceOf'[a]
          IN balanceOf'[a] < balanceOf[a] =>
                \/ \E v \in Amounts, to \in Addresses : Transfer(a, to, v)
                \/ \E s \in Addresses :
                      /\ allowance[a][s] >= lost
                      /\ allowance'[a][s] + lost = allowance[a][s]
<1>1. ASSUME IInv, [Next]_vars PROVE [Authorized]_vars
  <2> SUFFICES ASSUME Next, NEW a \in Addresses, balanceOf'[a] < balanceOf[a]
               PROVE  \/ \E v \in Amounts, to \in Addresses : Transfer(a, to, v)
                      \/ \E s \in Addresses :
                           /\ allowance[a][s] >= balanceOf[a] - balanceOf'[a]
                           /\ allowance'[a][s] + (balanceOf[a] - balanceOf'[a]) = allowance[a][s]
    BY <1>1
  <2> USE <1>1
  <2>1. ASSUME NEW sender \in Addresses, NEW to \in Addresses \cup {NullAddress},
               NEW v \in Amounts, Transfer(sender, to, v)
        PROVE  \E w \in Amounts, x \in Addresses : Transfer(a, x, w)
    <3>1. a = sender
      BY <2>1, MoveStep DEF Transfer
    <3>2. to \in Addresses
      BY <2>1 DEF Transfer, CanTransfer
    <3> QED
      BY <2>1, <3>1, <3>2
  <2>2. ASSUME NEW sender \in Addresses, NEW from \in Addresses,
               NEW to \in Addresses \cup {NullAddress},
               NEW v \in Amounts, TransferFrom(sender, from, to, v)
        PROVE  \E s \in Addresses :
                  /\ allowance[a][s] >= balanceOf[a] - balanceOf'[a]
                  /\ allowance'[a][s] + (balanceOf[a] - balanceOf'[a]) = allowance[a][s]
    <3>1. a = from /\ balanceOf[a] - balanceOf'[a] = v
      BY <2>2, MoveStep DEF TransferFrom, CanTransferFrom
    <3>2. v \in Uint(Word) /\ allowance[from][sender] \in Uint(Word) /\ allowance[from][sender] >= v
      BY <2>2, AmountAssumption DEF TransferFrom, CanTransferFrom, IInv, TypeOK, Uint
    <3>3. SubMod(allowance[from][sender], v, Word) = allowance[from][sender] - v
      BY <3>2, WordAssumption, SubModType
    <3>4. allowance'[from][sender] = allowance[from][sender] - v
      BY <2>2, <3>3 DEF TransferFrom, IInv, TypeOK
    <3> QED
      BY <3>1, <3>2, <3>4 DEF Uint
  <2>3. ASSUME NEW sender \in Addresses, NEW spender \in Addresses, NEW v \in Amounts,
               Approve(sender, spender, v)
        PROVE  FALSE
    BY <2>3 DEF Approve, IInv, TypeOK, Uint
  <2>4. ASSUME NEW who \in Addresses \cup {NullAddress}, print(who)
        PROVE  FALSE
    <3>1. PrintValue \in Uint(Word) /\ who \in Addresses /\ balanceOf \in [Addresses -> Uint(Word)]
      BY <2>4, AmountAssumption DEF print, IInv, TypeOK
    <3>2. AddMod(balanceOf[who], PrintValue, Word) = balanceOf[who] + PrintValue
      BY <2>4, <3>1, WordAssumption, AddModType DEF print
    <3> QED
      BY <2>4, <3>1, <3>2 DEF print, Uint
  <2> QED
    BY <2>1, <2>2, <2>3, <2>4 DEF Next
<1> QED
  BY <1>1, InitInv, StepInv, PTL DEF Spec, SpendingIsAuthorized

-----------------------------------------------------------------------------
(* The session.                                                             *)
Working == {"ready", "read", "sent", "mined"}

SessionType ==
    /\ api \in Clients \cup {NoClient}
    /\ initialized \in [Clients -> BOOLEAN]
    /\ at \in [Clients \cup Calls -> {"idle", "waiting", "initialize"} \cup Working]
    /\ client \in [Calls -> Clients \cup {NoClient}]
    /\ ticking \in BOOLEAN /\ loggedIn \in BOOLEAN

(* A call that went on from API.instance holds the client it was given.     *)
HoldsClient == \A c \in Calls : at[c] \in {"initialize"} \cup Working => client[c] \in Clients

(* Who wakes the sleepers has something to give them.                       *)
HasApi == loggedIn \/ (\E k \in Clients : at[k] = "initialize") => api \in Clients

SessionInv == SessionType /\ HoldsClient /\ HasApi /\ InitializedBeforeUse /\ NobodyForgotten

USE DEF Working, SessionType, HoldsClient, HasApi, InitializedBeforeUse, NobodyForgotten

LEMMA SessionInvInit == WalletInit => SessionInv
  BY ClientsAssumption DEF WalletInit, SessionInit, SessionInv, BalanceCalls

LEMMA InitClientKeeps ==
    ASSUME SessionInv, NEW k \in Clients, initClient(k) PROVE SessionInv'
  BY ClientsAssumption DEF SessionInv, initClient, unused, webVars

LEMMA InitErrorKeeps ==
    ASSUME SessionInv, NEW x \in Clients \cup Calls, at[x] = "initialize",
           NEW provider, handleInitError(x, provider)
    PROVE  SessionInv'
<1>1. ticking' = ticking
  BY DEF handleInitError, keepsTrying, SessionInv
<1>2. /\ at' = [at EXCEPT ![x] = "idle"]
      /\ client' = [c \in Calls |-> IF c = x THEN NoClient ELSE client[c]]
      /\ UNCHANGED <<api, initialized, loggedIn>>
  BY DEF handleInitError
<1>3. SessionType' /\ HasApi' /\ NobodyForgotten'
  BY <1>1, <1>2, ClientsAssumption DEF SessionInv
<1>4. HoldsClient' /\ InitializedBeforeUse'
  BY <1>2, ClientsAssumption DEF SessionInv
<1> QED
  BY <1>3, <1>4 DEF SessionInv

LEMMA SuccessKeeps ==
    ASSUME SessionInv, NEW k \in Clients, at[k] = "initialize", afterSuccessfulInitialization(k)
    PROVE  SessionInv'
<1>1. api \in Clients /\ api' = api /\ loggedIn' = TRUE
  BY DEF SessionInv, afterSuccessfulInitialization
<1>2. initialized' = [initialized EXCEPT ![k] = TRUE]
  BY DEF afterSuccessfulInitialization
<1>3. \A c \in Calls : at[c] = "waiting" =>
        /\ client'[c] = api
        /\ at'[c] = IF initialized'[api] THEN "ready" ELSE "initialize"
  BY <1>2, ClientsAssumption DEF SessionInv, afterSuccessfulInitialization, initializeIfNeeded
<1>4. \A c \in Calls : at[c] # "waiting" => client'[c] = client[c] /\ at'[c] = at[c]
  BY ClientsAssumption DEF SessionInv, afterSuccessfulInitialization
<1>5. SessionType'
  <2>1. at' \in [Clients \cup Calls -> {"idle", "waiting", "initialize"} \cup Working]
    BY <1>1 DEF SessionInv, afterSuccessfulInitialization, initializeIfNeeded
  <2>2. client' \in [Calls -> Clients \cup {NoClient}]
    BY <1>1 DEF SessionInv, afterSuccessfulInitialization
  <2>3. ticking' \in BOOLEAN
    BY DEF afterSuccessfulInitialization
  <2> QED
    BY <1>1, <1>2, <2>1, <2>2, <2>3 DEF SessionInv
<1>6. InitializedBeforeUse' /\ HoldsClient' /\ NobodyForgotten'
  BY <1>1, <1>2, <1>3, <1>4 DEF SessionInv
<1> QED
  BY <1>1, <1>5, <1>6 DEF SessionInv

LEMMA InitializeKeeps ==
    ASSUME SessionInv, NEW x \in Clients \cup Calls, initialize(x) PROVE SessionInv'
<1>1. at[x] = "initialize"
  BY DEF initialize
<1>2. ASSUME NEW provider, handleInitError(x, provider) PROVE SessionInv'
  BY <1>1, <1>2, InitErrorKeeps
<1>3. CASE x \in Clients /\ afterSuccessfulInitialization(x)
  BY <1>1, <1>3, SuccessKeeps
<1>4. CASE /\ x \in Calls
           /\ initialized' = [initialized EXCEPT ![client[x]] = TRUE]
           /\ at' = [at EXCEPT ![x] = "ready"]
           /\ UNCHANGED <<api, client, webVars>>
  BY <1>1, <1>4, ClientsAssumption DEF SessionInv, webVars
<1> QED
  BY <1>2, <1>3, <1>4 DEF initialize

LEMMA RequestTokensKeeps == ASSUME SessionInv, requestTokens PROVE SessionInv'
  BY PrintAssumption, ClientsAssumption
     DEF SessionInv, requestTokens, instance, initializeIfNeeded, webVars

LEMMA PrintKeeps == ASSUME SessionInv, PrintStep \/ minePrint PROVE SessionInv'
<1> USE PrintAssumption, ClientsAssumption DEF SessionInv, webVars
<1>1. CASE sendPrint \/ minePrint \/ printFails
  BY <1>1 DEF sendPrint, minePrint, printFails
<1>2. ASSUME NEW c \in BalanceCalls, printed(c) PROVE SessionInv'
  <2>1. c \in Calls /\ c # thePrint
    BY DEF BalanceCalls
  <2> QED
    BY <1>2, <2>1 DEF printed, dispatched, instance, initializeIfNeeded
<1> QED
  BY <1>1, <1>2 DEF PrintStep

LEMMA BalanceKeeps == ASSUME SessionInv, NEW c \in BalanceCalls, BalanceStep(c) PROVE SessionInv'
<1>1. c \in Calls
  BY DEF BalanceCalls
<1>2. CASE initializeForBalance(c)
  BY <1>1, <1>2, InitializeKeeps DEF initializeForBalance
<1>3. CASE readBalance(c)
  BY <1>1, <1>3, ClientsAssumption DEF SessionInv, readBalance, webVars
<1>4. CASE RECEIVE_MY_BALANCE(c)
  BY <1>1, <1>4, ClientsAssumption DEF SessionInv, RECEIVE_MY_BALANCE, webVars
<1>5. CASE readFails(c)
  BY <1>1, <1>5, ClientsAssumption DEF SessionInv, readFails, REJECT_MY_BALANCE, webVars
<1> QED
  BY <1>2, <1>3, <1>4, <1>5 DEF BalanceStep

LEMMA SessionInvNext == SessionInv /\ [WalletNext]_walletVars => SessionInv'
<1> SUFFICES ASSUME SessionInv, [WalletNext]_walletVars PROVE SessionInv'
  OBVIOUS
<1>1. CASE requestTokens
  BY <1>1, RequestTokensKeeps
<1>2. CASE minePrint \/ PrintStep
  BY <1>2, PrintKeeps
<1>3. CASE OthersUseToken \/ UNCHANGED walletVars
  BY <1>3 DEF SessionInv, OthersUseToken, walletVars, sessionVars
<1>4. ASSUME NEW k \in Clients, SessionOnly(initClient(k)) PROVE SessionInv'
  BY <1>4, InitClientKeeps DEF SessionOnly
<1>5. ASSUME NEW x \in Clients \cup {thePrint}, SessionOnly(initialize(x)) PROVE SessionInv'
  BY <1>5, InitializeKeeps, PrintAssumption DEF SessionOnly
<1>6. ASSUME NEW c \in BalanceCalls, BalanceStep(c) PROVE SessionInv'
  BY <1>6, BalanceKeeps
<1>7. ASSUME NEW to \in Pages, visit(to) PROVE SessionInv'
  BY <1>7 DEF SessionInv, visit, navigate
<1> QED
  BY <1>1, <1>2, <1>3, <1>4, <1>5, <1>6, <1>7 DEF WalletNext

LEMMA SessionInvAlways == WalletSpec => []SessionInv
  BY SessionInvInit, SessionInvNext, PTL DEF WalletSpec

(* No call of a page uses a client that was not initialised (api.ts:42-52,   *)
(* client.ts:221-227).                                                      *)
THEOREM ClientsReady == WalletSpec => []InitializedBeforeUse
<1>1. SessionInv => InitializedBeforeUse
  BY DEF SessionInv
<1> QED
  BY <1>1, SessionInvAlways, PTL

(* Attempts are made until the user is logged in, and then no call waits for *)
(* a client any more (api.ts:21-41).                                        *)
THEOREM SleepersWoken == WalletSpec => []NobodyForgotten
<1>1. SessionInv => NobodyForgotten
  BY DEF SessionInv
<1> QED
  BY <1>1, SessionInvAlways, PTL

(* A request that was under way when a print ended is one for the balance,   *)
(* and under way still.                                                     *)
LateType == late \subseteq BalanceCalls /\ \A c \in late : at[c] # "idle"

WalletInv == SessionType /\ LateType /\ PrintShows

LEMMA WalletInvInit == WalletInit => WalletInv
<1> SUFFICES ASSUME WalletInit PROVE WalletInv
  OBVIOUS
<1>1. SessionType
  BY SessionInvInit DEF SessionInv
<1>2. PICK first \in BalanceCalls : SessionInit(first)
  BY DEF WalletInit
<1>3. at[first] # "idle" /\ late = {} /\ shown = "fresh"
  BY <1>2 DEF WalletInit, SessionInit, BalanceCalls
<1> QED
  BY <1>1, <1>3 DEF WalletInv, LateType, PrintShows

(* What becomes of a request for the balance decides; nothing else ends one. *)
LEMMA GoingOnKeeps ==
    ASSUME WalletInv, SessionType', UNCHANGED <<late, shown, isLoading>>,
           \A c \in BalanceCalls : at[c] # "idle" => at'[c] # "idle"
    PROVE  WalletInv'
  BY DEF WalletInv, LateType, PrintShows

LEMMA EndedKeeps ==
    ASSUME WalletInv, SessionType', NEW c \in BalanceCalls,
           at' = [at EXCEPT ![c] = "idle"], late' = late \ {c},
           shown' # "old", isLoading' = FALSE
    PROVE  WalletInv'
  BY DEF WalletInv, LateType, PrintShows, BalanceCalls

LEMMA PrintedKeeps ==
    ASSUME WalletInv, SessionType', NEW c \in BalanceCalls, printed(c) PROVE WalletInv'
<1>1. c \in Calls /\ c # thePrint /\ thePrint \notin BalanceCalls /\ thePrint \in Calls
  BY PrintAssumption DEF BalanceCalls
<1>2. at'[c] # "idle"
  BY <1>1 DEF WalletInv, printed, dispatched, instance, initializeIfNeeded
<1>3. \A d \in BalanceCalls : at[d] = "read" => at'[d] = "read"
  BY <1>1 DEF WalletInv, printed, dispatched, BalanceCalls
<1>4. late' = {d \in BalanceCalls : at[d] = "read"} /\ c \notin late'
  BY DEF printed
<1> QED
  BY <1>2, <1>3, <1>4 DEF WalletInv, LateType, PrintShows

LEMMA InitializeGoesOn ==
    ASSUME WalletInv, NEW x \in Clients \cup {thePrint}, initialize(x),
           NEW c \in BalanceCalls, at[c] # "idle"
    PROVE  at'[c] # "idle"
<1>1. c \in Calls /\ c # x
  BY ClientsAssumption DEF BalanceCalls
<1>2. ASSUME NEW provider, handleInitError(x, provider) PROVE at'[c] = at[c]
  BY <1>1, <1>2 DEF handleInitError, WalletInv
<1>3. ASSUME afterSuccessfulInitialization(x) PROVE at'[c] # "idle"
  BY <1>1, <1>3 DEF afterSuccessfulInitialization, initializeIfNeeded, WalletInv
<1>4. ASSUME at' = [at EXCEPT ![x] = "ready"] PROVE at'[c] = at[c]
  BY <1>1, <1>4 DEF WalletInv
<1> QED
  BY <1>2, <1>3, <1>4 DEF initialize

LEMMA BalanceStepKeeps ==
    ASSUME WalletInv, SessionType', NEW c \in BalanceCalls, BalanceStep(c) PROVE WalletInv'
<1>1. c \in Calls /\ c \notin Clients
  BY ClientsAssumption DEF BalanceCalls
<1>2. ASSUME REJECT_MY_BALANCE(c) PROVE WalletInv'
  <2>1. shown' # "old"
    BY <1>2 DEF REJECT_MY_BALANCE
  <2> QED
    BY <1>2, <2>1, EndedKeeps DEF REJECT_MY_BALANCE
<1>3. CASE RECEIVE_MY_BALANCE(c)
  <2>1. shown' # "old"
    BY <1>3 DEF RECEIVE_MY_BALANCE
  <2> QED
    BY <1>3, <2>1, EndedKeeps DEF RECEIVE_MY_BALANCE
<1>4. CASE readBalance(c)
  BY <1>1, <1>4, GoingOnKeeps DEF readBalance, accountVars, historyVars, WalletInv
<1>5. ASSUME initialize(c), at'[c] # "idle", UNCHANGED <<accountVars, historyVars>>
      PROVE  WalletInv'
  <2>1. at' = [at EXCEPT ![c] = "ready"]
    BY <1>1, <1>5 DEF initialize, handleInitError, WalletInv
  <2> QED
    BY <1>1, <1>5, <2>1, GoingOnKeeps DEF accountVars, historyVars, WalletInv
<1> QED
  BY <1>2, <1>3, <1>4, <1>5 DEF BalanceStep, initializeForBalance, readFails

LEMMA WalletInvNext == SessionInv /\ WalletInv /\ [WalletNext]_walletVars => WalletInv'
<1> SUFFICES ASSUME SessionInv, WalletInv, [WalletNext]_walletVars PROVE WalletInv'
  OBVIOUS
<1>1. SessionType'
  BY SessionInvNext DEF SessionInv
<1> USE <1>1, PrintAssumption, ClientsAssumption DEF accountVars, historyVars
<1>2. CASE requestTokens \/ minePrint \/ sendPrint \/ printFails
  <2>1. \A c \in BalanceCalls : at'[c] = at[c]
    BY <1>2 DEF WalletInv, BalanceCalls, requestTokens, minePrint, sendPrint, printFails
  <2>2. UNCHANGED <<late, shown, isLoading>>
    BY <1>2 DEF requestTokens, minePrint, sendPrint, printFails
  <2> QED
    BY <2>1, <2>2, GoingOnKeeps
<1>3. ASSUME NEW c \in BalanceCalls, printed(c) PROVE WalletInv'
  BY <1>3, PrintedKeeps
<1>4. ASSUME NEW c \in BalanceCalls, BalanceStep(c) PROVE WalletInv'
  BY <1>4, BalanceStepKeeps
<1>5. ASSUME NEW x \in Clients \cup {thePrint}, SessionOnly(initialize(x)) PROVE WalletInv'
  BY <1>5, InitializeGoesOn, GoingOnKeeps DEF SessionOnly
<1>6. ASSUME NEW k \in Clients, SessionOnly(initClient(k)) PROVE WalletInv'
  <2>1. \A c \in BalanceCalls : at'[c] = at[c]
    BY <1>6 DEF WalletInv, BalanceCalls, SessionOnly, initClient
  <2> QED
    BY <1>6, <2>1, GoingOnKeeps DEF SessionOnly
<1>7. CASE OthersUseToken \/ UNCHANGED walletVars \/ \E to \in Pages : visit(to)
  <2>1. UNCHANGED <<at, late, shown, isLoading>>
    BY <1>7 DEF OthersUseToken, walletVars, sessionVars, visit, navigate
  <2> QED
    BY <2>1, GoingOnKeeps
<1> QED
  BY <1>2, <1>3, <1>4, <1>5, <1>6, <1>7 DEF WalletNext, PrintStep

(* After a print the balance that was read after it is shown, or is on its   *)
(* way, or failed or was overtaken; and the spinner in its place ends with   *)
(* the requests (PrintDemoTokens.vue:50-55, store/account/mutations.ts:5-16). *)
THEOREM PrintIsShown == WalletSpec => []PrintShows
<1>1. WalletSpec => []WalletInv
  BY SessionInvAlways, WalletInvInit, WalletInvNext, PTL DEF WalletSpec
<1>2. WalletInv => PrintShows
  BY DEF WalletInv
<1> QED
  BY <1>1, <1>2, PTL

(* The page is one of the router's, and the stores' flags are flags.         *)
PageType ==
    page \in Pages /\ isLoading \in BOOLEAN /\ errorReceivingBalance \in BOOLEAN /\ loading \in BOOLEAN

LEMMA PageTypeNext == SessionInv /\ PageType /\ [WalletNext]_walletVars => PageType'
<1> SUFFICES ASSUME SessionInv, PageType, [WalletNext]_walletVars PROVE PageType'
  OBVIOUS
<1> USE DEF PageType, Pages, ErrorPages
<1>1. ASSUME NEW x, initialize(x) PROVE page' \in Pages
  <2>1. ASSUME NEW provider \in Providers \ {"ready"}, handleInitError(x, provider) PROVE page' \in Pages
    BY <2>1, ProvidersAssumption DEF handleInitError, ErrorPageOf, AllProviders
  <2>2. CASE afterSuccessfulInitialization(x)
    BY <2>2 DEF afterSuccessfulInitialization
  <2> QED
    BY <1>1, <2>1, <2>2 DEF initialize, webVars
<1>2. CASE requestTokens \/ minePrint \/ PrintStep
  BY <1>2 DEF requestTokens, minePrint, PrintStep, sendPrint, printFails, printed, accountVars, webVars
<1>3. CASE OthersUseToken \/ UNCHANGED walletVars
  BY <1>3 DEF OthersUseToken, walletVars, accountVars, sessionVars
<1>4. ASSUME NEW k \in Clients, SessionOnly(initClient(k)) PROVE PageType'
  BY <1>4 DEF SessionOnly, leaving, initClient, accountVars, webVars
<1>5. ASSUME NEW x \in Clients \cup {thePrint}, SessionOnly(initialize(x)) PROVE PageType'
  BY <1>1, <1>5 DEF SessionOnly, leaving, accountVars
<1>6. ASSUME NEW c \in BalanceCalls, BalanceStep(c) PROVE PageType'
  <2>1. CASE initializeForBalance(c)
    BY <1>1, <2>1 DEF initializeForBalance, REJECT_MY_BALANCE, accountVars
  <2>2. CASE readBalance(c) \/ RECEIVE_MY_BALANCE(c) \/ readFails(c)
    BY <2>2 DEF readBalance, RECEIVE_MY_BALANCE, readFails, REJECT_MY_BALANCE, accountVars, webVars
  <2> QED
    BY <1>6, <2>1, <2>2 DEF BalanceStep
<1>7. ASSUME NEW to \in Pages, visit(to) PROVE PageType'
  BY <1>7 DEF visit, navigate, leaving, accountVars
<1> QED
  BY <1>2, <1>3, <1>4, <1>5, <1>6, <1>7 DEF WalletNext

(* The token under the pages is the token: what is proved of PrintableToken,  *)
(* such as SupplyConserved, holds of it (common.ts:192-195 calls            *)
(* PrintableToken.sol:21-29).                                              *)
THEOREM TokenInside == WalletSpec => Spec
<1>1. WalletInit => Init
  BY DEF WalletInit
<1>2. [WalletNext]_walletVars => [Next]_vars
  <2> SUFFICES ASSUME [WalletNext]_walletVars PROVE [Next]_vars
    OBVIOUS
  <2>1. CASE minePrint
    <3>1. print(me) => Next
      BY MeAssumption DEF Next
    <3> QED
      BY <2>1, <3>1 DEF minePrint
  <2>2. CASE OthersUseToken
    BY <2>2 DEF OthersUseToken
  <2>3. CASE UNCHANGED walletVars
    BY <2>3 DEF walletVars
  <2>4. CASE requestTokens \/ PrintStep
    BY <2>4 DEF requestTokens, PrintStep, sendPrint, printFails, printed
  <2>5. CASE \/ \E k \in Clients : SessionOnly(initClient(k))
             \/ \E x \in Clients \cup {thePrint} : SessionOnly(initialize(x))
             \/ \E to \in Pages : visit(to)
    BY <2>5 DEF SessionOnly, visit
  <2>6. ASSUME NEW c \in BalanceCalls, BalanceStep(c) PROVE UNCHANGED vars
    BY <2>6 DEF BalanceStep, initializeForBalance, readBalance, RECEIVE_MY_BALANCE, readFails
  <2> QED
    BY <2>1, <2>2, <2>3, <2>4, <2>5, <2>6 DEF WalletNext
<1> QED
  BY <1>1, <1>2, PTL DEF WalletSpec, Spec

(* The token, the clients, the calls and the stores keep their types, while   *)
(* pages come and go and attempts overlap.                                  *)
THEOREM WalletTypeCorrect == WalletSpec => []WalletTypeOK
<1>1. WalletInit => PageType
  BY DEF WalletInit, SessionInit, PageType, Pages
<1>2. WalletSpec => []PageType
  BY <1>1, SessionInvAlways, PageTypeNext, PTL DEF WalletSpec
<1>3. TypeOK /\ SessionInv /\ PageType => WalletTypeOK
  BY DEF SessionInv, SessionType, Working, PageType, WalletTypeOK
<1> QED
  BY <1>2, <1>3, TokenInside, TypeCorrect, SessionInvAlways, PTL

(* In the wallet's hands, too, tokens are only created by prints and spent   *)
(* by who is entitled to (BasicToken.sol:44-74, PrintableToken.sol:22-30).   *)
THEOREM WalletKeepsTokens == WalletSpec => []Conservation /\ SpendingIsAuthorized
BY TokenInside, SupplyConserved, SpendingAuthorized, PTL

-----------------------------------------------------------------------------
(* The roles of AccessControl, which any contract can inherit.              *)

(* Nobody is ever an admin and a manager (AccessControl.sol:24-44).          *)
THEOREM RolesDisjoint == RolesSpec => []OneRole
<1>1. RolesInit => OneRole
  BY DEF RolesInit, OneRole
<1>2. OneRole /\ [RolesNext]_rolesVars => OneRole'
  <2> SUFFICES ASSUME OneRole, [RolesNext]_rolesVars PROVE OneRole'
    OBVIOUS
  <2> USE DEF OneRole
  <2>1. ASSUME NEW s \in Accounts, NEW a \in Accounts, addAdmin(s, a) PROVE OneRole'
    BY <2>1 DEF addAdmin
  <2>2. ASSUME NEW s \in Accounts, NEW a \in Accounts, addManager(s, a) PROVE OneRole'
    BY <2>2 DEF addManager
  <2>3. ASSUME NEW s \in Accounts, NEW a \in Accounts, removeAdmin(s, a) PROVE OneRole'
    BY <2>3 DEF removeAdmin
  <2>4. ASSUME NEW s \in Accounts, NEW a \in Accounts, removeManager(s, a) PROVE OneRole'
    BY <2>4 DEF removeManager
  <2>5. CASE UNCHANGED rolesVars
    BY <2>5 DEF rolesVars
  <2> QED
    BY <2>1, <2>2, <2>3, <2>4, <2>5 DEF RolesNext
<1> QED
  BY <1>1, <1>2, PTL DEF RolesSpec

(* Without admins the roles are frozen (AccessControl.sol:8-18, 31-44).      *)
THEOREM NoAdminsNoChange == RolesSpec => LockedWithoutAdmins
<1>1. [RolesNext]_rolesVars => [admins # {}]_rolesVars
  BY DEF RolesNext, addAdmin, addManager, removeAdmin, removeManager, adminOnly
<1> QED
  BY <1>1, PTL DEF RolesSpec, LockedWithoutAdmins
=============================================================================
