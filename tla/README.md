# TLA+ verification of Getline

Getline is a peer-to-peer lending platform. A borrower locks a collateral in a
smart contract, investors fund the loan, the borrower pays it back with
interest or loses the collateral. This directory holds TLA+ models of its
contracts, its server, its client library and the pages of its web frontend,
the TLC runs that check them on small instances, and TLAPS proofs for instances
of any size. Paths below are relative to `src/`.

## 1. The system

| Part | State | Operations | Talks to |
|---|---|---|---|
| **Loan contract**: `dapp/contracts/loans/Loan.sol`, `InvestorLedger.sol` | the `Ledger` struct: terms, state, collateral, investments, deadlines, withdrawals | `gatherCollateral`, `invest`, `payback`, `withdraw`, `withdrawable`, `state` | moves two tokens by `transfer` and `transferFrom`; reads `block.timestamp` |
| **Tokens**: `dapp/contracts/tokens` | balances, allowances, supply | `transfer`, `approve`, `transferFrom`, `print` | called by users and loans |
| **AccessControl**: `dapp/contracts/common` | admins, managers | add and remove each | nothing (no contract inherits it yet) |
| **Artifact linker**: `metabackend/deployments/link.go` | per network: unlinked and linked binaries | `linkAll` at startup | the deployments the metabackend serves |
| **Loan index**: `metabackend/server`, `metabackend/model` | two SQL tables, a short-id generator in memory | `IndexLoan`, `GetLoans` | the Ethereum node, PostgreSQL or SQLite |
| **Client library**: `getline.ts/src` | per `Loan` object the last known `blockchainState`; per `MetabackendClient` the downloaded definitions and a mutex; per `Client` whether it is initialised | `newLoan`, `sendCollateral`, `invest`, `payback`, `withdrawAll`, `possibleWithdrawals`, `updateStateFromBlockchain`; `print`, `balanceOf`; `getABI`, `getBytecode`; `initialize` | the metabackend (gRPC), the Ethereum node (JSON-RPC) |
| **Session**: `frontend/src/api`, `router` | the newest `Client`, the waiters for one, the interval that tries again, the route | `API.init`, `API.instance`, redirects to and from the error pages | the client library, the web3 provider |
| **Account**: `store/account`, `components/demo-tokens` | the balance, its spinner and error; the spinner of the print button | `GET_MY_BALANCE`, `requestTokens` | Session, the token |
| **Loans on pages**: `store/my-loans`, `store/invest`, `components/my-loans`, `invest`, `withdrawal` | two lists of one's own, the list of all loans, one active loan, their spinners, errors and flags of transfers | the `GET` actions, `TRANSFER_COLLATERAL`, `TRANSFER_PAYBACK`, `INVEST`, `WithdrawalButton` | Session, `Loan` objects |
| **Loan form**: `components/borrow` | the spinner and the error of the form | `requestLoanAction` | Client library |

What is hard about it:

- **Time nobody drives.** A contract runs only when called. A deadline takes
  effect when it passes and is recorded when somebody calls; every entry point
  has to behave as if it had been recorded (`processTimeouts`).
- **Machine integers.** Solidity 0.4 wraps silently. Some sums are checked,
  some rely on a check made earlier for a different sum.
- **One token in two roles.** `newLoan` (`client.ts`) passes the same token for
  loan and collateral, so that one balance backs two kinds of debt.
- **Transactions that are not.** `IndexLoan` opens a database transaction and
  then writes on the connection pool.
- **Reads side by side.** `GetLoans` asks the chain about every loan in
  goroutines, in several reads each, while the loans move on.
- **Awaits.** Client calls check a state, await an approval, and send a
  transaction into a chain that has moved on; receipts come late or never, and
  of reverted transactions too. Calls on the same object overlap and share one
  allowance.
- **Pages that are gone.** A component asks when it is created and is destroyed
  when the user moves on; its promises go on, change the stores and even the
  page. Answers come in any order, and one flag stands for several requests.
- **A provider that is not there.** The page starts without an account; attempts
  to get one overlap, while calls already wait for the result.

What makes each part correct:

- Contract: no token is lost; it holds what it owes; nobody is paid twice; the
  investments add up; an outcome is final; the whole period is available for
  repayment; everybody is paid in the end.
- Tokens: the supply is conserved and spending is authorised.
- AccessControl: roles are disjoint and frozen once there is no admin.
- Linker: it stops, serves only complete binaries, and links all it can.
- Index: a short id that was returned keeps serving its loan; `GetLoans` lists
  what matches, with states the loans had, and answers.
- Client: a loan takes no more than was asked; what it reports is right or
  `Unknown`; promises settle; only a contract that is a loan gets indexed.
- Session: nobody uses a client that is not initialised, and nobody waits for
  one that is there.
- Pages: a spinner has a request behind it; what a transfer changed is asked
  for again; the page of a loan shows that loan; no tile offers a step that its
  contract has not reached. The code does not order answers, leaves a flag
  behind a failed request and ignores reverted transactions, and the properties
  excuse what follows from that (section 6).

## 2. The modules

    Uint, Sums
      BasicToken -- BasicToken_proofs (of Sums, too)
        PrintableToken
        |   Session
        |     \
        +----- Wallet -- MCWallet, Wallet_proofs (of PrintableToken and AccessControl, too)
        InvestorLedger -- MCInvestorLedger, InvestorLedger_proofs
          |        \
          |         LoanPromise (what InvestorLedger implements)
          LoanClient -- MCLoanClient, LoanClient_proofs
    ContractDefinitions -- MCContractDefinitions
        NewLoan -- MCNewLoan, NewLoan_proofs
    Pages -- MCPages, Pages_proofs
    LoanIndex -- MCLoanIndex, LoanIndex_proofs
    LoanQuery -- MCLoanQuery   \
                                Metabackend_proofs
    Linker -- MCLinker         /
    AccessControl

Compositions: `Wallet` runs the session, the account store and the print page
over the token that everybody else uses; `NewLoan` runs requests for loans over
the definitions that all callers share; `LoanClient` runs the library over the
contract with its tokens and its clock.

| Module | Models | State and actions |
|---|---|---|
| `Uint`, `Sums` | unsigned words; sums over users | `AddMod` .. wrap at `2^w`; `Total(f)` is the number of units that `f` hands out |
| `BasicToken` | the balance changes of `BasicToken.sol` | `CanTransfer`, `CanTransferFrom` are the requires, `Moved` both assignments, in order |
| `PrintableToken` | `PrintableToken.sol` with allowances between all addresses | one action per method |
| `Session` | `api.ts`, `initialize` of `client.ts` and `blockchain.ts`, the redirects of `router/redirects.ts` | `initClient` up to its first `await`, then `initialize`, whose outcome depends on the provider at that moment; a call is `waiting` (a sleeper of `instance()`), in `initialize` (its own `initializeIfNeeded`) or `ready` |
| `Wallet` | the account store, `PrintDemoTokens.vue`, `print` and `balanceOf` | one action per `await` of a request for the balance and of a print; `late` and `shown` record which answers are older than the print |
| `NewLoan` | `RequestLoan.vue`, `newLoan`, `deploy`, `waitContractDeployed`, `waitTxMined` | a request's `stage` is the `await` it is at; `Continue` is what can end it; `mine` is the chain; `visit` destroys the form, not the request |
| `Pages` | the stores `my-loans` and `invest`, their pages, tiles and buttons | a request is read at one moment and answered or rejected at another; `click`, `mined`, `resolve` and `fail` are the life of one transfer; `move` is everybody else. A view is derived from the flags as the templates do, and a button lives as long as its tile |
| `InvestorLedger` | `Loan.sol` and `InvestorLedger.sol` with both tokens and the clock | one action per transaction. A failing `require` is a guard that is false: the transaction is reverted. `currentState` is what the body of a method sees after `processTimeouts`; the primed `state` is what it stores. `withdrawable` stands for the two public readers, which store the timeout too |
| `LoanPromise` | the abstract loan: deadlines that need no caller, natural numbers, no tokens | refined by `InvestorLedger!KeepsPromise` with `phase <- currentState` |
| `AccessControl` | `AccessControl.sol` | one action per method |
| `Linker` | `link.go` for one network | an action per contract visited, in any order (Go map iteration), and one per end of pass. A binary is the set of names still to be filled in |
| `ContractDefinitions` | `metabackend.ts` | a step runs from one `await` to the next; `lock` is the queue of async-mutex; a caller who left without a release stays as `Gone` |
| `LoanIndex` | `IndexLoan` and `GetLoans` by short id | an action per statement that reaches the database; a fault can replace each of them; `Restart` ends a process with its calls and its generator |
| `LoanQuery` | `GetLoans` by owner, state and investor: `LoanQuery.Run` in `model/loans.go` | a goroutine per loan, a step per read; `wg` and `loansFiltered` are the WaitGroup and the channel. The loans are `InvestorLedger` reduced to the state, which deadlines are set, and who invested; a timeout counts from when the deadline passes, since the getter applies it |
| `LoanClient` | the methods of `Loan` in `loan.ts` with `mutate` and `waitTxMined` of `blockchain.ts`, over `InvestorLedger` | a step runs from one `await` to the next; `pool` are transactions sent and not mined, `mine` executes the first or reverts it; others act in between. The user's own transactions all come from the library object |

A definition named `x_Something` next to a definition `x` is `x` with a mistake
that a change to the code could make. No specification uses it; each property
was seen to fail when it replaces `x`.

### Abstractions

Amounts, times and addresses are small numbers and model values; loan
descriptions, signatures, events, gas and logging are left out. The allowances
in `InvestorLedger` are those given to the loan contract, the only ones it can
use. Identifiers are taken from a finite set that a generator does not repeat
between restarts, as the shortid library promises. Calls in `LoanClient` are
numbered in the order in which they start. `Pages` knows a contract by its
state and by what the user put in and took out; what `LoanClient` shows of a
transfer, that it may be mined late, never or without effect, is here the order
of `mined`, `fail` and `resolve`. The clients of `Session` are as many as can
be in use at once: one that nobody holds is forgotten, as by the garbage
collector.

### Bounds

Every bound is a constant and is named a bound where it is declared: `MaxTime`
stops the clock, `MaxSupply` stops prints, `MaxCalls` the calls of the library,
`Requests` the submissions, or the requests that are under way at once, `Calls`
and `Clients` what is in use at once, `Sessions` where a user starts and the
pages he goes to. `Approvals` and `Transfers` list what users do outside of the
loan. None of them limits the order of steps, with two exceptions: in `Pages`
the user follows a link only while two requests are free, and one transfer is
under way at a time.

## 3. The runs

| Run | Instance | Shows |
|---|---|---|
| `loan_two_tokens` | a borrower, two investors; amounts 1 to 3, interest 0 and 40 %; clock of 4 bits with deltas of 1, 2, 13 and 14 | `TypeOK`, `FundsAddUp`, `PaidOnce`, `DustBounded`, `FullTimeToPay`, `OutcomeIsFinal`, `KeepsPromise`, `EventuallySettled` |
| `loan_one_token` | one token in both roles, prints, transfers to the loan, to others and to oneself | `Conservation`, `Solvent` |
| `wallet` | two clients at a time, two requests for the balance, a print, a provider that is locked and unlocked; two holders of a token whose words wrap at 5, so that the second print overflows | `WalletTypeOK`, `Conservation`, `SpendingIsAuthorized`, `InitializedBeforeUse`, `NobodyForgotten`, `PrintShows` |
| `linker` | three artifacts and a library without one; every acyclic dependency, recorded address and redeployment | `LinkedIsDeployable`, `LinksAll`, `Terminates` |
| `new_loan` | two requests for loans and another caller of `getABI`, who calls again and again; right, wrong and failing answers; three polls | `NewLoanTypeOK`, `OneDownload`, `IndexedIsALoan`, `SpinnerIsForARequest`, `EveryLoanRequestEnds` |
| `index` | three submissions of two loans to two processes with two identifiers; faults and restarts | `ServesWhatItAnswered`, `ShortIdsStay` |
| `query` | two loans of two borrowers, one of whom invests; requests by owner, by state, by investor and by both, one after the other; any read may fail | `ListedStateIsTrue`, `ListedWithDeadlines`, `NothingIsMissed`, `EveryRequestEnds` |
| `client` | two overlapping calls of any method of `Loan`, by the borrower, who can invest too, or by an investor | `ClientTypeOK`, `TakesWhatWasAsked`, `PaybackHasDeadline`, `RightReason`, `CallsSettle`, `WithdrawsAll` |
| `pages` | two loans in three sessions: a borrower before the collateral; one who has invested in his own loan; an investor with a choice of two. Three requests, one transfer | `SpinnerMeansRequest`, `FreshAfterTransfer`, `ShowsTheLoanAskedFor`, `TilesNeverAhead` |
| `definitions_error`, `index_retry`, `client_invests` | the same modules | one disagreement each, section 6 |

Why the bounds are enough to meet the interesting cases:

- Two investors share 3 units at 40 %: the interest of the sum is 1, that of the
  parts, 1 and 2, is 0. A collateral of 2 cannot be shared evenly either:
  rounding is real in both tokens.
- The last investor's allowance exceeds what is missing, and the borrower may
  invest in his own loan.
- In a clock of 16 values the deltas of 13 and 14 make one deadline fit and the
  next wrap; in one where both fit the loan is funded late enough for the
  second sum to come near the width.
- With one token, transfers that reach the contract from outside and prints
  change the balance that backs both debts.
- Two identifiers for three submissions, and two processes that do not know
  each other's generators, make identifiers collide; a restart makes a
  generator hand out again what it had handed out.
- Two goroutines are the least of which one may take the other's loan or be
  waited for in vain, and three reads with a moving loan between them the least
  that can disagree. Requests are unbounded in number.
- A second client is the least that can overtake the first; `api` may then be
  the slower one. Of two requests for the balance one can have read before the
  print and be answered after the other.
- Two requests for loans are the least of which one may fail while the form
  waits for the other; with three polls a transaction is mined before, between and after
  them, or never. Another caller of `getABI` stands in the queue of the mutex
  in front of them or behind. The system cannot deadlock here, since the user
  can always visit another page, and the run checks it.
- Three requests let an answer be overtaken by two others, or by the pair that
  a withdrawal asks for; two loans are the least that the page of a loan can
  confuse. The sessions keep the state space at a million states; in each the
  loans move on as they like.
- Two calls are the least that overlap. Each property of the client relates two
  calls, or a call to the chain. Others' transactions are unbounded in number
  except by the clock and by what they own. A withdrawal that needs two rounds
  is not reached: the borrower would have to invest and pay back as well. The
  theorem about `WithdrawsAll` covers it.

`CHECK_DEADLOCK FALSE` stands only in runs whose system may stop: all requests
made, all contracts linked, a lost lock, the clock at its bound. `LoanIndex`,
`LoanQuery` and `Pages` define a type invariant that no run repeats: it is a
part of the inductive invariant of their theorems, and a value outside of it
would be an error in one of their other properties.

### Fairness

- `InvestorLedger!FairSpec`: time passes, and a user who can withdraw does. The
  chain produces blocks and users act for their own money; nobody is assumed to
  invest, to pay back or to record a timeout. `EventuallySettled` asks only for
  loans whose deadlines lie before the bound of the clock.
- `Linker!LinkerFairSpec`: a sequential loop goes on.
- `ContractDefinitions!FairSpec`: the JavaScript event loop runs continuations,
  and a request is answered, rightly or with an error. `EveryCallSettles` is
  about behaviours in which no request fails; `definitions_error` about the
  others.
- `NewLoan!NewLoanFairSpec`: the same for the definitions, and each request for
  a loan goes on: its awaits return, the interval of `waitTxMined` fires, the
  user answers the prompt to sign, either way. Nothing need ever be mined: the
  last poll ends the wait.
- `LoanQuery!FairSpec`: the goroutines of a request go on; each read returns,
  with a value or an error. Nothing is assumed about the loans.
- `Session`, `Wallet` and `Pages` assume no fairness: their properties say what
  is still under way, not that it ends.
- `LoanClient!ClientFairSpec`: some call that can go on does. No fairness for
  `mine`: a transaction may never be mined, and the minute's timeout is what
  makes `CallsSettle` hold.

## 4. What is proved

TLAPS checks the theorems for every value of the constants that satisfies the
named assumptions: any finite set of users, any terms, any word sizes.

| Module | Theorem | States |
|---|---|---|
| `InvestorLedger_proofs` | `TypeCorrect`, `TokensConserved`, `FundsConsistent`, `NobodyPaidTwice` | `Spec => []TypeOK`, `Conservation`, `FundsAddUp`, `PaidOnce` |
| | `WholePaybackPeriod`, `OutcomesFinal` | `Spec => FullTimeToPay`, `OutcomeIsFinal` |
| | `PromiseKept` | `Spec /\ []InterestFits => KeepsPromise`: the refinement |
| | `AlwaysSolvent`, `DustIsBounded` | `Spec => []Solvent`, `DustBounded` |
| `LoanClient_proofs` | `ClientTypeCorrect`, `NothingElseTaken` | `ClientSpec => []ClientTypeOK`, `[]TakesWhatWasAsked` |
| | `DeadlineKnown`, `ReasonsRight` | `PaybackHasDeadline`, `RightReason` |
| | `ClientKeepsPromise`, `EverythingWithdrawn` | `ClientSpec /\ []InterestFits => KeepsPromise`, `WithdrawsAll` |
| `LoanIndex_proofs` | `AnswersServed`, `ShortIdsRemain` | `ServesWhatItAnswered`, `ShortIdsStay` |
| `Metabackend_proofs` | `ListedTruly`, `DeadlinesListed`, `NoneMissed` | of `LoanQuery`: `ListedStateIsTrue`, `ListedWithDeadlines`, `NothingIsMissed` |
| | `LinkedDeployable`, `AllLinked` | of `Linker`: `LinkedIsDeployable`, `LinksAll` |
| `Wallet_proofs` | `TypeCorrect`, `SupplyConserved`, `SpendingAuthorized` | of `PrintableToken`: `TypeOK`, `Conservation`, `SpendingIsAuthorized` |
| | `ClientsReady`, `SleepersWoken`, `PrintIsShown` | `InitializedBeforeUse`, `NobodyForgotten`, `PrintShows` |
| | `WalletTypeCorrect` | `WalletTypeOK` |
| | `TokenInside`, `WalletKeepsTokens` | `WalletSpec => Spec` of `PrintableToken`, and what follows |
| | `RolesDisjoint`, `NoAdminsNoChange` | of `AccessControl`: `OneRole`, `LockedWithoutAdmins` |
| `NewLoan_proofs` | `DownloadedOnce`, `NewLoanTypeCorrect`, `IndexedAreLoans`, `SpinnersAreForRequests` | `OneDownload`, `NewLoanTypeOK`, `IndexedIsALoan`, `SpinnerIsForARequest` |
| | `DefinitionsInside` | `NewLoanSpec => Spec` of `ContractDefinitions` |
| `Pages_proofs` | `PagesTypeCorrect`, `SpinnersEnd`, `TransfersShow` | `PagesTypeOK`, `SpinnerMeansRequest`, `FreshAfterTransfer` |
| | `LoanShown`, `TilesNotAhead` | `ShowsTheLoanAskedFor`, `TilesNeverAhead` |

**The loan.** All its theorems come from one inductive invariant:

    IInv == TypeOK /\ Conservation /\ FundsAddUp /\ TermsPositive
            /\ DeadlinesFit /\ UnpaidBeforeFinal /\ PaidOnce

- `Conservation` is needed for the arithmetic of the tokens: a transfer adds to
  a balance without a check, and only because all balances add up to a supply
  that fits the word can that addition not wrap (`MovedExact`, `MovedTotal` in
  `BasicToken_proofs`, from the sum lemmas of `Sums` proved there).
- `FundsAddUp` bounds `totalAmountInvested` by `amountWanted`, so that what is
  missing does not wrap, and ties "fully funded" to the states that follow.
- `DeadlinesFit` says that while a loan is in Fundraising the recorded deadline
  plus `paybackDelta` does not wrap. Only `gatherCollateral` checks it; the sum
  made later in `invest` starts from an earlier time and so fits as well. That
  is the proof of `FullTimeToPay`.
- `UnpaidBeforeFinal` says that nothing is withdrawn before an outcome. It
  makes `PaidOnce` inductive: when an outcome comes into being, all counters
  are 0; afterwards the entitlements do not change (`OutcomeIsFinal`), so that
  a withdrawal brings a counter from 0 to the entitlement and then stays.

There is one lemma per action and one step per conjunct that it can disturb.

**The refinement** takes one step of `LoanPromise` per transaction. `Tick` is
where a deadline of the promise takes effect, though the contract stores
nothing; `withdrawable` and a `withdraw` that pays nothing, which store it, are
stutters. `DeadlinesFit` makes the contract's deadlines exact sums;
`InterestFits` is a premise because the contract does not check it
(`InterestExact`); the share of a defaulted collateral needs no premise, since a
product that wraps only makes it smaller (`ShareBound`).

**Solvency.** `SolventInv == IInv /\ NothingInvestedYet /\ Solvent`. What is due
is bounded in each state (`DuesBounded`): before an outcome it is a stored sum,
afterwards a sum over the users of what each may still withdraw. That sum is
compared with what the contract holds by `Proportional`: if each share is at most
a fixed proportion of its investment, all shares together are at most that
proportion of all investments, and since the payback is the largest whole number
within it (`Floor`), interest rounded per investor never exceeds the interest
rounded once. A withdrawal takes the same number from the dues and from the
balance. `NothingInvestedYet` is needed for the gathering of the collateral,
after which the dues in the loan token must be 0. Both tokens may be the same
contract: the two lines of `Covers` are then one. `DustBounded` follows from
`IInv` by the other half of the division: each share misses its proportion by
less than one unit, so all of them together by less than one per investor
(`Rounding`). The lemmas on sums (`TotalScaled`, `TotalPlus`, `TotalMonotone`,
`TotalOnes`) relate the sets of units they count by inclusion or a bijection.

**The token** is the same argument without a loan. **AccessControl** needs nothing but its own guards, and
its state space of a handful of role sets is too small to be worth a run beside
the proof.

**The linker** keeps `FilledIn`: a name missing from a binary was filled in from
a library that is where the artifact says. `LinksInv` is why it ends only when
nothing more can be linked: what a pass has visited, it has dealt with
(`Visited`); once a pair of passes has linked something, all that can be filled
in is filled in (`FilledUp`), so that the next pass links all that can be
(`LinkedUp`) and a round that links nothing really was the last. The premise of
`LinksAll` is used for the first round (`FirstLinked`).

**The index.** A live call has its identifier from the generator of its process
(`HasId`), so that two calls of one process never hold the same one
(`NotShared`). A call whose identifier no other process has handed out (`alone`)
finds it unused when it stores it (`StillUnused`) and its own row stored from
then on (`RowStored`). A call that is not `alone` never becomes so again. After a
restart, which ends the calls of a process and empties its generator, what was
stored is kept apart by the SELECT of `generateShortId`.

**Queries.** The chain is compared with what it was when the request came
(`since`): loans move forward only (`History`). `Knows(l, n)` is what a goroutine
knows before its n-th read: the state it read lies between then and now, and
each deadline read afterwards is there if that state comes with one
(`Deadlines`), since none is removed. A loan that matches all the time is in
`running` or in the channel (`Awaited`), and the WaitGroup counts `running`
(`Counter`), so that it is in the answer when the counter is 0.

**The session.** `SessionInv` adds to the two properties that a call past
`waiting` holds a client (`HoldsClient`) and that there is an `api` whenever an
attempt is under way or has succeeded (`HasApi`): otherwise the sleepers would
be handed nothing. `WalletInv` adds for `PrintShows` that late requests are
under way. `TokenInside` shows that pages and others use the token by its
transactions only, so that the token's theorems hold of the composition.

**New loans.** `DefinitionsInv` says that whoever waits is in the queue of the
mutex once, that a caller who left without a release stays in front
(`Queued`), and that who downloads is in front and the definitions are not
there yet (`DownloaderHoldsLock`). With `DefinitionsInside` it carries over to
`NewLoan`. `RequestInv` is about the requests: past each check of `newLoan` what
was checked still holds (`CheckedInOrder`), a request that waits has polls left
(`Counting`), and the form waits for a request under way (`FormWaits`).
`SpinnerIsForARequest` adds what a step may do to that spinner: only the failure
of its request or a change of the page takes it away (`SpinnerStep`).

**The library.** `ClientInv` relates each call to a chain that has moved on
since the call last looked:

- A loan moves forward only (`Leads`, `LeadsOn`), so that a state that was read
  leads to the current one. That gives `RightReason`, since an outcome that was
  read is the outcome, and `PaybackHasDeadline`, since the state is the first of
  the fields to be read and a deadline that is there stays (`Known`, `CallOK`).
- A call has one transaction in the pool or its receipt (`Pooled`). An approval
  on its way stands for what its call asked (`ApprovalOK`), and was begun in a
  state its method requires or a later one. Approvals of a call that gave up
  remain.
- `Covered` bounds the allowance: until the loan is handed out, what it has
  taken and what the allowance still lets it take are within what was granted,
  the amounts of the calls whose approval is no longer on its way. An approval
  replaces the allowance and adds its amount to what was granted; a transfer
  moves from one to the other. Once the loan is handed out only `payback` uses
  the allowance, and nothing is invested any more. The allowance for the
  collateral is one amount that was asked for, since it is spent at once.

The theorems are about transactions of the user that the library object sends:
`Others` are everybody else, and any of their transactions may come between any
two steps.

**Withdrawals.** `WithdrawInv` adds what a waiting `withdrawAll` may rely on: if
it saw something due, the loan is over; once its transaction is mined, the
loan tokens are paid, or the collateral if no loan tokens were due (`Paying`).
In a final state nothing comes due again
(`NoneComesDue`), so that a withdrawal mined for another call helps as much as
one's own. The chain would spoil this by reverting the withdrawal: `Solvent`
says that it holds what it owes, so the token lets it pay (`CanPay`, `PaysOut`),
from which comes the premise `InterestFits`. Two equal answers therefore mean
`<<0, 0>>`. `reverted` tests `paysOut`, all that can fail in a withdrawal; for the
other methods it asks whether the transaction is `ENABLED`, and no proof depends
on what that says.

**The pages.** `PagesInv` does not speak about what is shown but about what is
behind it: a flag of loading has its request even while an error hides the
spinner (`LoadingMeansRequest`); on the page of a loan every request for a loan
is for that one, but for those older than the page (`RouteIsAskedFor`); a list
on its way to the page is as justified by the contracts as the list that is
shown, and so is the success of a transfer that was mined (`AnswersNotAhead`,
`CollateralSent`). Contracts go forward, hence what is justified stays so.

### Only model-checked

Liveness (`EventuallySettled`, `Terminates`, `EveryLoanRequestEnds`,
`EveryRequestEnds`, `CallsSettle`), since fairness is out of the prover's reach;
and the three disagreements of section 6, which are counterexamples. Every
invariant and every other action property that a passing run checks is proved
as well. No recursive definition is used, so that no theorem depends on
induction over data: sums are cardinalities, and their lemmas are derived from
the library's.

## 5. Not modelled

- Reading and decoding truffle's artifacts (`deployments.go`, `json.go`), flags
  and listeners (`main.go`), generated bindings: I/O at startup.
- The race of the metabackend's startup with its first calls (`main.go`): an
  unsynchronised assignment of `s.Model` which early calls find nil, and no
  protocol whose states could be told apart.
- The choice of a web3 provider, the wrappers of token names and symbols and the
  getters of descriptions and addresses: straight lines of reads.
- In the frontend: formatting, decimals, sorting of the list (the `SORT`
  mutations order what is shown and change nothing else), the contents of the
  lists beyond what decides a button, the score pages, which show constants,
  layout and the loading of the page itself.
- Migrations, demo scripts and the production setup.

## 6. Where code and comments disagree

Shown by a run that TLC finds violated:

- `definitions_error`: when a gRPC call fails while `getContractDefinitions`
  holds the mutex, the exception passes every `release()`; all later calls of
  `getABI` and `getBytecode` wait for ever.
- `index_retry`: the INSERTs do not belong to the transaction the handler rolls
  back. A failure between them leaves a row of `loan_metadata` that makes every
  retry fail, and a loan that `GetLoans` does not find; the service definition
  calls the method idempotent.
- `client_invests`: `waitTxMined` resolves on any receipt, so that `invest`
  resolves although the contract reverted it.

Met while modelling, visible in the definitions, without a run of their own:

- `invest` after the deadline does not record the timeout, as the comments at
  `InvestorLedger.sol:292` and `Loan.sol:105-108` say: the `require` after the
  modifier reverts it (`inFundraising` is a guard in `invest`).
- `newLoan`'s comment (`client.ts:90-94`) counts both deltas from the creation
  of the loan; the contract counts them from the collateral and from the full
  funding (`gatherCollateral`, `invest`).
- `investment * interestPermil` wraps for huge amounts. `InterestFits` is the
  premise of `Solvent` and `DustBounded`.
- The comment of `link` promises to go on until no progress is possible; a pair
  of passes that only resolved names ends it. `LinksAll` has the premise that
  some contract needs no library.
- A second submission of an indexed loan fails on the unique address although
  the service definition promises the same short id again (`UpsertMetadata`).
- `updateStateFromBlockchain` reads five values in five calls; a transaction
  between them makes it store a state the loan never was in, such as Payback
  with a sum below the amount wanted. `PaybackHasDeadline` is what the order of
  the reads does guarantee.
- Two calls of `Loan` on one token can end in an investment nobody asked for.
  A slow `updateStateFromBlockchain` writes back that the loan is in
  CollateralCollection when another call's approval for `invest` is on its way; a
  second `sendCollateral` then passes its check, and its approval replaces the
  allowance before the `invest` is mined, which takes all of it. TLC shows it
  with four calls, more than the run `client` has. `TakesWhatWasAsked`
  therefore adds up both purposes when they share a token; with two tokens each
  is bounded on its own.
- `instance()` hands out a client that is still being initialised, or whose
  initialisation failed, although the comments of `api.ts` and
  `client.ts:58-64` expect one that is ready; `initializeIfNeeded` repairs it
  (`Session!instance`, `InitializedBeforeUse`).
- An attempt that fails after another has succeeded still shows its error page,
  and no attempt will lead back from there (`Session!handleInitError`).
- A failed `getAccounts` rejects but does not return: the default account is
  set from `undefined` all the same.
- `newLoan` that fails or times out may leave a contract that nobody indexes, or
  an indexed loan whose form shows an error: a second try makes a second loan
  (`NewLoan!poll`, `IndexLoan`).
- The end of `newLoan` leads to the list of own loans and that of a print to the
  start page, from whatever page the user is on.
- `INVEST` invests in the loan of the route while the page may show another
  loan, whose answer came late (`ShowsTheLoanAskedFor` excuses it). The request
  that follows it replaces the component by a spinner, so that its message of
  success (`Investment.vue:54-56`) is never seen.
- A rejected request for a loan leaves `activeLoan.isLoading`; a later
  `GET_MY_INVESTMENTS` clears the error, and the spinner stays
  (`SpinnerMeansRequest` excuses it). The error of
  `my-loans` is never cleared by a success.
- `WithdrawalButton.vue:88` resets `loading`, which the component does not
  have, instead of `isSending`.
- `RECEIVE_MY_LOANS` drops the flags of a transfer under way: the tile offers a
  second one. The two transfers (`my-loans/actions.ts:24, 35`), `invest`
  (`Investment.vue:109`) and `requestTokens` have no handler for a rejection.

## 7. Plan

Done: the loan with its tokens, since everything else depends on it; then the
linker, the definitions, the index and its queries; the library composed with
the loan; the session, the wallet, the form and the pages of the frontend.

Left:

1. Compose `Pages` with `LoanClient`, so that a transfer's end is that of the
   library's own wait; two transfers at a time. Both multiply a state space of
   a million states, but not the proofs.
2. A promise of the library of its own, as `LoanPromise` is the contract's: what
   the caller of `invest` or `withdrawAll` may conclude, implemented by
   `LoanClient`.

## 8. Running it

    tlc -workers 2 -config loan_two_tokens.cfg MCInvestorLedger.tla
    tlapm InvestorLedger_proofs.tla

`PROJECT.json` lists the runs, the mutants, which definition models which
lines, the hazards and the theorems. The longest runs are `client`, `pages` and
`wallet`, a few minutes each.
