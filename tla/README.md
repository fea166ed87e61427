# zero-protocol in TLA+

zero-protocol lends renBTC against deposits that are not final yet. A user signs
a transfer request, a *keeper* lends its amount out of a pool to the request's
module on the target chain, and when RenVM has signed the deposit the loan is
repaid by minting it. This directory holds TLA+ modules of the contracts and of
the keeper software, TLC configurations for small instances, and theorems
checked with TLAPS for all instances.

    tlc -config desk_custody.cfg MCZeroController     (one run)
    tlapm ZeroController_proofs.tla                   (one proof module)

`PROJECT.json` lists the components, the runs, the seeded bugs that break each
property, the source lines of every definition, the hazards and the theorems.

## 1. Inventory

| Component | State | Operations | Talks to |
|---|---|---|---|
| Loan desk, `contracts/controllers/ZeroController.sol` | status per digest, lock owners, approved modules, fees, gas limits | `mint`, `approveModule`, `setFee`, `setBaseFeeByAsset`, `setGasParameters`, `loan`, `repay`, `fallbackMint`, `meta`, `burn` | lock, module, strategy, gateway |
| Underwriter lock, `contracts/underwriter/ZeroUnderwriterLock.sol` | loaned, required, repaid | `trackOut`, `trackIn`, `skim`, `burn` | desk only |
| Loan modules, `contracts/modules` | a record per nonce, tokens, capacity | `receiveLoan`, `repayLoan`, `defaultLoan`, `receiveMeta`, `repayMeta` | desk, swap pools |
| Strategy, `contracts/strategies/StrategyRenVM.sol` | idle want, vault shares, ether | `permissionedSend`, `permissionedEther`, `deposit`, `withdraw`, `withdrawAll` | vault, converters |
| Base controller, `ControllerUpgradeable.sol` | strategies, vaults, converters | `earn`, `setStrategy`, `withdraw`, `withdrawAll`, `yearn`, setters | strategy |
| RenVM gateway (external) | spent nHashes | `mint`, `burn` | desk |
| User and keeper network, `lib/p2p/core.ts` | list of keepers, pending publications | `subscribeKeepers`, `unsubscribeKeepers`, `publishRequest`, `setTxDispatcher`, `handleRequestUpdates`, `advertiseAsKeeper` | libp2p, store |
| Request store, `lib/persistence/leveldb.ts` | four kinds of LevelDB entries | `set`, `get`, `remove`, `setStatus`, `getAllRequests` | LevelDB |
| Other stores, `lib/persistence/{inMemory,localStorage,plain}.ts` | a map | same interface | |
| Client requests, `lib/{Transfer,Meta,Burn,Underwriter}Request.ts` | an object's fields, the cached gateway and receiver | constructors, `sign`, `setUnderwriter`, `submitToRenVM`, `destination`, `loan`, `repay`, `fallbackMint`, `waitForHostTransaction`, `waitForRemoteTransaction` | wallet, RenVM, desk, explorers |
| Keeper script, `scripts/keeper.js` | `triggered`, open watches | transfer and burn handlers, `executeLoan` | network, RenVM, desk |
| Recovery scripts, `scripts/{repay,loan,fallback}.js` | the batch | retry what did not succeed | store, desk |
| Quotes and fees, `lib/quotes.js`, `lib/badger.js` | none | quotes per chain and token, `applyFee`, deductions | exchanges, gas price, RenVM |
| Airdrop, `lib/merkle`, `contracts/token/ZeroDistributor.sol` | claimed bits | `parseBalanceMap`, `getProof`, `claim` | token |
| Mocked runtime, `lib/mock.ts`, and the end-to-end script, `scripts/e2eTransaction.js` | timers, promises | publish, deposit, confirmations, loan and repay | network, RenVM |
| Badger and RenZEC desks, `contracts/controllers/BadgerBridge*.sol`, `RenZECController.sol` | nonces, outstanding loans, fees | `repay`, `loan`, `burnApproved`, `burnETH`, `earn` | gateway, swap pools |
| Vault, `contracts/vaults`, `contracts/vendor/yearn` | shares | `deposit`, `withdraw`, `earn` | base controller |
| Token economy, `contracts/token` | staking epochs, treasury reserves, bonds, farms | rebase, claim, mint, vest | each other |
| Everything else | | forwarding, hashing, I/O, deployment, test doubles | |

How they interact. Contract calls are transactions: a call runs to its end,
through lock, module, strategy and gateway, or reverts altogether. Between
transactions anyone may go next, so what matters is the order of `loan`,
`repay`, `fallbackMint`, `defaultLoan`, `earn` and the governance setters. The
keeper software is event-driven JavaScript: what matters is what happens between
two `await`s, a rejected promise, and a process that stops. The two halves meet
in the request: the network delivers it, the store keeps it, the desk settles it.

What is hard, by kind (every item with its line is a hazard in `PROJECT.json`):

* *Order of transactions.* A loan after a fallback mint and the other way round;
  a request signed for two underwriters; nonce collisions inside a module; one
  underwriter repaying for another; a meta call credited to a lock with no debt.
* *Limits.* A quick module's capacity, the strategy's idle balance, its vault and
  its ether, `uint128` debts, divisions by what is left of a debt.
* *Units.* `defaultLoan` compares a timestamp with a block number.
* *Interleaving.* Two `set`s between reading and writing the length; a list of
  keepers replaced under a running loop.
* *Partial failure.* A process that stops between two of the four writes of
  `set`; a keeper that cannot be dialed; a store that rejects; a receipt that
  cannot be had; `repay.js` ended between a transaction and its status.
* *Stale state.* A request object caches the promise of its gateway and its
  receiver while it is signed anew and retargeted; a count of outputs is compared
  with an earlier one although outputs are also spent.
* *Waiting for each other.* The end-to-end script's parties resolve each
  other's promises; the keeper waits for events of two versions of RenJS; the mocked keeper replaces a function a timer calls.

What makes each part correct:

* desk: no digest is lent twice, a deposit is minted once and finds its way to
  the user or the pool, nobody is paid without a deposit or a loan, lock sheets
  agree with loans and mints, and services other than lending cost the pool no
  more than their estimates and trades miss;
* modules: they hold what they owe, and lend no more than their capacity;
* store: what is stored is listed, once, and what is listed is stored;
* network: at most one delivery per keeper and publication, no known keeper is
  skipped, and nothing is acted on that is not stored;
* keeper and repay.js: what is repaid is a signed deposit of that request, what is
  marked succeeded is paid, and what repay.js tries is paid unless a call fails or
  the gateways emit the events of another version;
* client requests: a copy made by a keeper or read back from a store is worth what
  the original was, to the controller and at the gateway;
* waiting, quotes, airdrop: a wait does not end before something arrived, amounts are
  in the token they are taken for, every account is paid its claim once.

## 2. Modules

| Module | Models | Extends / uses |
|---|---|---|
| `BalanceSheet` | the arithmetic of a lock: `owed`, `trackOut`, `trackIn`, their widths and reverts | |
| `ZeroController` | desk, modules, strategy and gateway as one state machine, one action per transaction | `BalanceSheet` |
| `MCZeroController` | requests, constants and symmetry for TLC | `ZeroController` |
| `RequestLog` | abstract: what `lib/persistence/types.ts` promises | |
| `RequestStore` | `leveldb.ts`, one action per await | `RequestLog` by `INSTANCE ... WITH stored <- requests` |
| `MCRequestStore` | constants for TLC | `RequestStore` |
| `ZeroNetwork` | `ZeroUser` and `ZeroKeeper` of `core.ts` | |
| `MCZeroNetwork` | constants and symmetry for TLC | `ZeroNetwork` |
| `Keeper` | `keeper.js` and `repay.js` with the repaying side of the request objects, bitcoin, RenVM and the gateway contract | |
| `MCKeeper` | constants for TLC | `Keeper` |
| `Requests` | the request objects: construction, signing, calls, publication and the copies made of them | |
| `BurnWatch` | waiting for a burn on the chain of the controller and on the other | |
| `Quotes` | `quotes.js` and `badger.js` | |
| `Airdrop` | the Merkle tree, its proofs, the distributor's `claim` | |
| `Adapters` | `inMemory.ts` and `localStorage.ts` | |
| `Mock` | `mock.ts` | |
| `EndToEnd` | `e2eTransaction.js` with `advertiseAsKeeper` | |
| `MCClient` | the last seven as one sum, for TLC | those seven |
| `FiniteSums` | lemmas: what a sum over a finite set is worth when a term changes, induction up to a number | `TLAPS` |
| `ZeroController_proofs` | theorems about types, statuses and payouts of the desk, and the lemmas about `BalanceSheet` | `ZeroController`, `TLAPS` |
| `ZeroController_accounts` | theorems about the desk's sums: custody, capacity, locks, mints, and settlement | `ZeroController_proofs`, `FiniteSums` |
| `RequestStore_proofs`, `ZeroNetwork_proofs`, `Keeper_proofs` | theorems, the refinement of `RequestLog` among them | their modules, `TLAPS` |
| `Requests_proofs` | theorems about request objects and quotes | `Requests`, `Quotes`, `TLAPS` |
| `Client_proofs` | theorems about the burn watch, the other stores, the mocked runtime and the airdrop | `BurnWatch`, `Adapters`, `Mock`, `Airdrop`, `FiniteSums`, `TLAPS` |

Definitions named "Bug variant" are seeded bugs. They are not part of any
specification; `PROJECT.json` says which definition each one replaces and which
property must then fail.

### 2.1 ZeroController

| Variable | In the code |
|---|---|
| `ownerOf`, `approvedModules`, `loanStatus` | the mappings of the same names; `ownerOf` by underwriter, since a lock's address is a function of the underwriter |
| `params` | `fee`, `baseFeeByAsset[asset]`, and the gas limits and price as the two charges they amount to, in ether |
| `sheet` | `_balanceSheet` of every lock |
| `outstanding`, `held`, `capacity` | a module's records, tokens and capacity |
| `purse` | tokens of a `MetaExecutor` |
| `wallet` | what users were paid and did not burn |
| `desk`, `strategy` | balances of the controller and of the strategy (idle want, vault position, ether) |
| `deposits`, `claim` | outside: signed deposits and how their nHash was spent |
| `block` | block number; the timestamp is a function of it |

A `require` is a guard, a revert of a callee is a guard of the caller's action,
and `Loan`, `Repay`, `FallbackMint`, `Meta` and `Burn` make every call their
handler makes, the sweep `depositAll` and the gas refund included.

Abstractions. One asset, so one strategy. All tokens, shares of the vault and
ether are counted in one unit of value, but no conversion is exact: what a
conversion pays for `x`, and what `convertGasUsedToRen` says ether is worth, is one
of `Worth(x)`, which misses `x` by one of `Drifts`, at most `MaxDrift` either way.
That holds of the want a loan draws from the vault (`permissionedSend`), of the
shares that pay for a refund (`permissionedEther`), of the estimate a meta call, a
burn and a loan are charged by, and of both trades of `deposit`. A module's swap
loses one of `Slippages`. A signature is membership in `Signed`; the digest leaves the
receiver out, and the payload hash leaves the amount and the underwriter out, as
in the code, because requests can collide there. `GasRefunds` stands for what
`gasleft()` may come to. Gas limits enter as products with the price. Users burn
what the desk paid them; the deadline and the permit's nonce are left to the token.

### 2.2 RequestStore and RequestLog

The database is four functions: `length`, `indexOf`, `keyAt`, `requests`. An
action is one database operation and the code up to the next `await`; `call`
holds what a caller is in the middle of. `Abandon` ends a call at any await and
keeps what it wrote: a rejected operation, or a process that stops and starts
again with an empty event loop and the same database. A request's content is its
key and its status. `SetGetLength` is cut at `MaxLength`.

`RequestLog` has one variable for the requests and one for the last answer of
each caller. A change is one step; a listing names exactly the requests stored
with the type asked for, once each, or fails as a whole. The refinement maps
`stored` to the `requests` entries, so the slots and indexes are what has to
work for the promise to hold.

### 2.3 ZeroNetwork

The list of keepers, the state of each `publishRequest` loop, streams under way
and dispatch handlers waiting for the store. JavaScript iterates the array that
`this.keepers` was when the loop began: `Live` marks a loop over the current
array, and `FreezeLists` gives a loop its own copy once `unsubscribeKeepers`
replaces the array. Announcements, dials and streams may fail at any time.
Stores are sets here; the store's own hazards are `RequestStore`'s subject.

### 2.4 Keeper

| Variable | In the code |
|---|---|
| `events` | which version's events the gateways of the installed RenJS emit |
| `up`, `triggered` | whether `keeper.js` runs, and the flag of that process |
| `handler` | a call of `handleTransferRequest`: the request it works on |
| `execution` | where a call of `executeLoan` is, by handler, deposit and what started it |
| `log`, `status` | the LevelDB store as the two scripts see it |
| `sweep`, `attempt`, `query` | `batchExecute` and `execute(i)` of `repay.js`, and `_queryTxResult` of the request object it makes |
| `arrived`, `confirmations`, `signed`, `minted` | outside: deposits, their depth, RenVM's signatures, the gateway's mints |
| `orphans` | transactions a process sent before it ended, which may still be mined |

`keeper.js` listens for `deposit` and then `confirmation`, events of RenJS 2 that
`lib/mock.ts` emits as well; `waitForSignature` listens for `transaction`, the event
of the `^3.4.2` that `package.json` asks for. No gateway emits both, so `events` is
chosen once. Under `"deposit"` executions begin, and since `loan` is a stub in
`keeper.js` they come to `waitForSignature` at once, where they wait for ever: an
execution is waiting or lost, and what follows is not modelled because nothing
reaches it. Under `"transaction"` no execution begins. Either way only `repay.js`
pays, and only under `"transaction"`.

`callStatic.repay` works on a spread copy of the request object: the copy asks for a
gateway, waits for a signature and is thrown away with what it was answered, and
`repay` then does all of it again (`CallStaticRepay`, `SendRepay`). Where a gateway
received two deposits the two may be answered with different ones.

`Crash` empties the process, and `Run` reads nothing back, as the code does: what the
store holds is only retried by `repay.js`. Both scripts open the same database, which
LevelDB locks, so `BatchExecute` needs the keeper to be down. `BATCH_SIZE` is a string
and `new Array` of a string has one element, hence `Batch`, and the index `NotANumber`
that follows a batch of the default size. `None` stands for an unset `BATCH_SIZE`;
`"0"` is a text like any other, and `NextBatch` goes back by nothing.

`handleBurnRequest` is no action: it throws at `keeper.js:144`, where
`transferRequest` is not defined, before it calls anything.

### 2.5 The client library: Requests, BurnWatch, Quotes, Airdrop, Adapters, Mock, EndToEnd

These parts are used independently by an application and share no state.
`MCClient` picks one of them at the start and lets it run (`part`), so the run's
state space is the sum of theirs. The burn watch counts as two parts, one for
each chain it waits on.

* **Requests.** An object maps every field of its class to a symbolic value or
  `Unset`; a hash or a signature is the value it is taken of. The calls of a
  user, in any order: sign with a wallet on some chain for some controller (which
  retargets the object even if the wallet refuses), set the underwriter, ask for
  the receiver, submit to RenVM, publish. `Received` is what the keeper's handler
  constructs from the published fields, `Restored` what `repay.js` constructs
  from the fields `requestToPlain` keeps. `callStatic` works on a spread copy, which
  starts with what was cached when it was made and caches for itself: `CallStaticRepay`
  asks for a gateway that the object does not get to know. What a repayment names is
  compared with the live object, retargeted or given another underwriter since. How
  fields are encoded is left out.
* **BurnWatch.** Transactions of the controller and outputs on the other chain
  are environment; receipts and counts may fail. `counted` is the first count,
  which every poll is compared with, and outputs may be spent between two polls. The
  outputs are a set: the explorer library sorts its list, so the element the code
  takes from it may be any, one that was counted at the start included.
* **Quotes.** A quote is the list of calls it awaits in turn, each with the token
  it takes and gives; exchanges and estimates answer anything or fail.
* **Airdrop.** Tree nodes are leaves or unordered pairs; the order of leaves is
  any. A tree of n leaves has n + 1 layers, those above its root equal to it.
  Claims may be made with any index, account, amount and list of nodes.
  Hashes do not collide, and a leaf's encoding (84 bytes) is never a pair's (64).
* **Adapters.** One store, the Map or `localStorage`, and calls that overlap at
  `setStatus`'s await. `keyed` is what lies under requests' keys, `unprefixed` what
  `localStorage`'s `setStatus` writes under keys nobody reads. The Map's key leaves
  out the asset (misspelt) and the type, so requests may share an entry
  (`SharesEntry`). `due` is a history variable: the status the calls made for a request
  gave it last.
* **Mock.** Publishing, the timers of a gateway in the order of their delays, and
  dispatchers whose chain calls take any time or fail.
* **EndToEnd.** Three parties (`main`, `handlePeer`, `keeperCallback`) and the
  promises between them. What RenVM, the chain or libp2p is asked may fail. The
  keeper's callback gets as far as awaiting the gateway's `deposit`, which the RenJS
  that `main` and `waitForSignature` use does not emit, and no step leads on from
  there; so `main`, which waits for that callback, does not end either.

## 3. Runs

| Run | Question | Instance |
|---|---|---|
| `desk_custody` | Do tokens, records and capacity agree under every order of loans, repayments, fallbacks, defaults and `earn`, whatever records collide? | 2 users on one nonce of a converting and of a quick module, 1 underwriter, 2 deposits of 39, every trade and estimate one short, a vault of 90 that a sweep can leave too small, 2 blocks |
| `desk_locks` | Do lock sheets agree with loans and mints when underwriters repay for each other, with burns, meta calls and defaults in between? What do services cost? | 2 underwriters, 3 signed pairs on one nonce, 2 deposits (interchangeable, hence under symmetry), a burn whose gas comes from the vault, an executor with funds for several meta calls, every trade and estimate one short |
| `desk_settle` | Is every deposit settled, and if not, why? Does the timeout ever fire? | 2 users on one nonce of a converting module, one of them on that nonce of a quick module, too; 2 deposits of 39, lossy trades, little ether, timestamps ahead of block numbers, fairness |
| `desk_scripting` | README.md: after `fallbackMint` "no scripting will occur" | violated: a loan goes through afterwards |
| `desk_retarget` | README.md: `fallbackMint` only where no keeper "has successfully initiated a loan" | violated: the request is lent under another underwriter |
| `store_faults` | Does one caller's store keep its promise when calls are cut short at any await? | 3 keys, 2 abandoned calls, 5 slots, 2 types, 2 statuses |
| `store_shared` | Does `remove` always find what is stored when two callers interleave? | 2 callers, 2 keys, 4 slots |
| `store_race` | types.ts: "Get all requests made" | violated: two sets share a slot |
| `store_removed` | leveldb.ts tests each request before listing it | violated: after a `remove` every listing fails |
| `keeper_process` | Is what is repaid signed, and what is marked succeeded paid? Does `repay.js` pay what it tries, and try what it should? | events of either version, 2 requests, 2 deposits, 2 handlers, 2 confirmations to a signature, 1 crash or failed call, 2 runs of `repay.js` with `BATCH_SIZE` unset, 0 or 1, fairness |
| `client_library` | Do copies of a request keep their worth, waits not end early, quotes use tokens they have, claims pay once, stores keep what they got; does the mocked repay follow its loan, and the script's request get through? | per part: 2 controllers of which 1 deployed, 2 underwriters and accounts, 1 nonce; 1 wait, 2 transactions, 3 outputs; every chain, token and direction with 3 inputs and 2 answers; lists of up to 3 accounts; 3 requests of which two share an entry of the Map, 2 callers; 2 publications of a transfer and a meta request; fairness |
| `network_publish` | Are deliveries unique, keepers not skipped, and requests stored first? | 3 keepers under symmetry, 1 request published twice, 2 subscriptions, lists of up to 4 |

Bounds and why they are enough. `MaxBlock`, `MaxLength`, `MaxAbandons`,
`MaxPublishes`, `MaxSubscriptions` and `MaxKnown` bound counters that only grow.
`MaxHandlers`, `MaxDeposits`, `MaxFaults`, `MaxSweeps`, `MaxBatch`, `MaxNonce`,
`MaxBurnTxs`, `MaxUtxos`, `MaxLost`, `MaxEntries`, `MaxProof` and
`MaxPublications` do the same for the keeper and the client.
Two deposits, one nonce and two underwriters suffice for every collision the
code can have: two digests on one record (of one user or of two), two callers on one
sheet, a second deposit for one payload. `MaxDrift` is how far an estimate or a
conversion may miss; the instances take the losing side, one unit each time, which is
the one that could leave a debt or a balance uncovered, and the theorems take any.
The desk's amounts are chosen so that a loan is covered or not, the idle balance
suffices or the vault is drawn on, refunds lie below the gas reserve and a burn's gas
above it, a repayment equals the debt or does not, and the capacity of the quick
module is left above the volume of a record, so that `QuickDefaultLoan` fires. In the
store, 5 slots let two abandoned sets leave gaps and all three keys still be stored.
In the network, lists of 4 can hold a keeper of the second subscription while a loop
runs over those of the first. In the keeper, two deposits may pay one request or two,
two handlers may be of one request dispatched again, the count of confirmations
passes the one that starts an execution and the one that does not, and one fault
falls between any two steps; runs of `repay.js` reach a batch of one, a batch that
runs past the end of the store, and one that comes back to its index, and the second
finds what the first left. In the client, three outputs let one be spent and two
arrive between two counts; three accounts give a tree with a lonely node that moves up
a layer (longer lists are `AirdropPaysClaims`'s subject); one stored request has an
entry to itself and two share one; two publications let a dispatch meet the timers of
another. `CHECK_DEADLOCK
FALSE` is set where the bounds or an exhausted pool let the system stop.

The passing properties of `desk_locks` about governance are checked at one value
of each fee; the theorems cover every value and changes between calls.

Fairness. `desk_settle` assumes weak fairness of `Settle(dep)`: some call of
`repay` or `fallbackMint` that can succeed for a signed deposit is eventually
made. `scripts/repay.js` goes over every request in the store that did not succeed,
and the user may call `fallbackMint` from the client. It does not assume that anybody
lends. `DepositSettled` names three outcomes in which a deposit stays where it is; without
any one of them TLC finds a counterexample in this instance: the record of its nonce went with another
deposit (`RecordTaken`, two users' loans on one nonce as well as a second deposit for
one payload), the repayment equals what is owed at the ratio that divides by zero
(`ZeroDivisor`), and the strategy has no ether for the refund (`OutOfEther`): nothing
in the desk tops it up before `earn`, so `repay` reverts until someone calls that.

`keeper_process` assumes weak fairness of bitcoin and RenVM taken together (some
deposit is confirmed or signed) and of the attempts of `repay.js`, both promises that
some chain or event loop goes on with. Nothing is assumed of deposits, dispatches,
restarts, executions, or of an operator who starts or ends `repay.js`; `SweepPays`
is about gateways that emit `transaction`, and excepts what was lost to a failed
call or to the end of the process. `client_library` assumes that a node delivers the
events it has and answers or fails (`BurnHeard`), that the script's `main` and
`handlePeer` go on with a step they can take, and that an announcement, which
`advertiseAsKeeper` repeats every second, gets through (`RequestGetsThrough`). The
other runs assume no fairness.

## 4. Theorems

| Theorem | Says |
|---|---|
| `TypeCorrect` | no balance, capacity, debt or record leaves its type: guards and SafeMath suffice |
| `RecordsHaveLoans` | a record still carried has an unpaid loan of its module and nonce |
| `LoansAreFinal` | no call takes a loan out of UNPAID, the delete of `fallbackMint` included |
| `ServicesAreCharged` | no call but a loan or the settlement of a deposit costs the pool more than three misses of an estimate or a trade, however far those miss |
| `PayoutsAreBacked` | a user is paid only against a deposit of their own minted in the same transaction, or by a quick module against a loan made in it |
| `ModulesKeepCustody` | a converting module holds what its records promise |
| `CapacityIsBounded` | what a quick module has out and may still lend is at most its limit, reused nonces included |
| `SheetsMatchLoans` | what a lock has lent is the sum of the loans its underwriter made, each digest once |
| `RepaidIsMinted` | what all locks were credited with is what `repay` minted and `meta` charged, no more and no less |
| `RecordsWaitForRepay` | a converting module's record ends only with a `repay` that mints a deposit, where timestamps exceed block numbers and no swap loses everything |
| `RepaymentLowersDebt` | `trackIn` never raises what a lock owes |
| `StoreTypeCorrect` | no set writes past the bound, for any callers |
| `RemoveFindsStored` | a stored request has an index, for any callers and any cut |
| `OneCallerListsStored` | with one caller a stored request has a slot below the length |
| `OneCallerKeepsPromise` | with one caller the store implements `RequestLog` |
| `NetworkTypeCorrect` | the types of the network |
| `DeliveredOnce` | a publication hands its request to a keeper at most once |
| `AcceptedAreStored` | what a keeper acts on is in its store and in the user's |
| `NoKeeperSkipped` | a publication that is done has dialed every keeper known at its start |
| `KeeperTypeCorrect` | the types of the keeper and of `repay.js` |
| `FlagWorks` | one execution per process starts without the count it has to be at |
| `RepaysAreSigned` | what `repay.js` repays is a signed deposit of that request, whatever the static copy was answered |
| `SucceededArePaid` | what is marked succeeded is paid, across crashes and repeated dispatches |
| `IndicesTriedInTurn` | `repay.js` tries an index again only if `BATCH_SIZE` is 0, and then only when the attempt before has ended |
| `CopiesKeepSignatures` | a controller takes a copy of a request exactly if it takes the original |
| `KeeperWaitsThere` | a keeper, and the copy a static repayment works on, wait at the gateway address the user was shown |
| `RepaymentsFindLoans` | a repayment by a keeper, by `repay.js` or by the user's own object names the record its loan was entered under, unless the object was given another underwriter |
| `QuotesConnect` | exchanges are asked for the token at hand, and the last answers in the one asked for |
| `QuotedFeesAddUp` | what is left is RenVM's output less fee and gas, between zero and that output |
| `WaitsForArrival` | a wait for an output on the other chain does not end before one arrived that its first count did not see |
| `StoresKeepWhatTheyGot` | the Map has every request that was stored and not removed, with the status its calls gave it last, unless another shares its entry; `localStorage` has exactly those requests, whole |
| `AirdropPaysClaims` | every claim proves to be in the tree, nothing else does, and an account is paid its claim once |
| `RepaysFollowLoans` | the mocked repayment is announced after its loan |

The only assumptions are the named ones on constants: `SheetAssumption`,
`DeskAssumption`, `StoreAssumption`, `NetworkAssumption`, `KeeperAssumption`,
`RequestsAssumption`, `QuotesAssumption`, `BurnWatchAssumption`,
`AdaptersAssumption`, `MockAssumption`, `AirdropAssumption`. Most of what they say
is that bounds and amounts are naturals and that marker values differ from what
they mark; `DeskAssumption` and `SheetAssumption` also that fees are at most one
and that units are not zero; `DeskAssumption` and `AirdropAssumption` that
addresses and nonces, which are words of fixed width, are finitely many;
`AirdropAssumption` that earnings have at most two digits; and `MockAssumption`
that a signature belongs to one type of request. The theorems about a single caller
have `OneCaller` as hypothesis. `RecordsWaitForRepay` has two of its own, which the
instance of `desk_settle` satisfies: block numbers stay below every timestamp, as
they do on each chain the code is deployed to, and a module's swap returns
something, at whatever fees.

*The desk.* `TypeOK` is inductive by itself: each transaction has a lemma, and the
arithmetic (a fee is at most one, a quotient of naturals is natural, what `burn`
sends is at most the amount less gas) is in lemmas of its own, and `WorthBound` says
that a conversion of a natural is a natural, at most `MaxDrift` away. `RecordHasLoan`
is inductive relative to `TypeOK` (`RecordsInit`, `RecordsStep`): only `Loan` makes a
record active, and it sets the status in the same
transaction; `Repay` and the defaults clear records and leave statuses alone;
`FallbackMint` touches a status only where there is no loan. The three action
properties follow step by step from `TypeOK`: `PayoutsAreBacked` because the three
calls that raise a balance spend a deposit or set a status in the same step, `LoansAreFinal` from the guard of
`FallbackMint`, `ServicesAreCharged` by showing that a step that leaves statuses
and claims alone is no loan and no settlement (`LoanParts`), and bounding what the
others pay by what they bring in: a meta call is charged all the ether it is refunded
(`MetaParts`, `MetaDoes`), a burn sends no more than was burnt less gas (`BurnParts`),
`earn` trades what it has (`EarnPays`). None of them makes more than three conversions
or estimates, a refund that draws on the vault counted (`RefundType`), whence the
bound.

*The desk's sums.* `SumFunctionOnSet` is a fold: it takes the elements of a set in
an order of its own choosing. `FiniteSums` proves what the other modules need of it
(any element may be taken out, a term that changes moves the sum by as much, only
the values on the set count) without an induction theorem: subsets of a finite set
are well-founded, so among the sets that break a claim one is smallest
(`Smallest`), and without the element the fold takes first it is smaller still.
`CustodyInv` is `ModuleCustody` and `CapacityBounded`, inductive relative to `TypeOK`
by one lemma: each call changes at most one record, and moves tokens or capacity by
as much. `LentInv` adds to `SheetMatchesLoans` that an underwriter's loans are
finitely many, since digests are not; a loan adds a digest that was not there,
because its status was not set. `RepaidInv` adds to `RepaidMatchesMints` that the
deposits are finitely many, that no two share an id, that what is claimed is a
deposit, and that executors are only drawn on. For `RecordsWaitForRepay`, `TimeInv`
says that a converting module's record was stamped no earlier than the first block:
`defaultLoan` compares that time with a block number, so it never clears one.

*The store.* `StoredIsIndexed` is not inductive: a call between `putIndex` and
`putRequest` carries an index it promises to have written. `IndexInv` adds, for
every call in progress, that the entry it has passed exists and that its index is
within bounds. `StoredIsListed` needs more, `SlotInv`: slots and indexes agree in
both directions below the length, and a call past `putKey` has its slot. It is
inductive for a single caller only; `store_race` shows it fails for two.

For the refinement, `ListInv` says of every listing in progress that what it has
found are exactly the stored requests of the slots it has passed, once each; with
one caller nothing changes under it. With `IndexInv`, `SlotInv` and one caller, a
listing that ends has found exactly the matching requests (`FoundAll`), and every
other step is one of `RequestLog` or leaves the requests alone.

*The network.* `NetworkInv` joins the types, that the list of keepers holds nobody
twice (`Distinct`, which `subscribeKeepers` keeps by testing before it appends, and
which a loop over an older list needs as well), and `RequestInv` for every request:
the copies of a publication under way, stored or accepted add up to at most one per
publication and keeper, those a loop has yet to dial have none of it, and those
known at its start are dialed or still ahead.

*The keeper.* `KeeperInv` is `KeeperTypeOK` and `PayInv`: an orphaned or minted deposit
is signed, what is marked succeeded is paid, and of every attempt of `repay.js`
(`AttemptInv`) that past the wait it holds a signed deposit of its listed request, and
past the transaction a minted one. Deposits and indices never change once they
exist, so the invariant survives new deposits, dispatches and crashes. `FlagInv` ties
`triggered` to the executions of the process. `SweepInv` says that batches only go
down, and that the index that is no number never finishes, which is what keeps
`NextBatch` from coming back; with a size of 0 it does come back, to an index that has
finished.

*The client.* `RequestsInv` says that the gateway's address was computed from fields
the object still has, the controller excepted, and that what was published agrees
with the object on those. The copies agree with what was published on every field
its calls and signature depend on (`CopyAgrees`, `Used`), from which the theorems
follow class by class; a static copy has the fields of the object it was
spread from. `RemoteInv` says that there are never more outputs than the first count
saw and have arrived since: spending can only take away, and the order of the list
does not come into it. `AdapterInv` says that what lies under the key of a request is
what is due, what a caller of `setStatus` has in hand included. `MockInv` says that whoever waits for the mocked signature has
announced its loan, and that the emitter a signature's updates go to is that of the
publication they are about or of a later one.

For quotes, a program is a path of tokens: `Leads(o, p, h, k)` says that the calls `p`
take an order from holding `h` to holding `k`, each finding the token it takes.
`QuotesInv` says that what is left of the program leads from what is held now to the
token asked for. It holds at the start because every route is put together from
pieces that lead somewhere (`LeadsConcat`), chain by chain, and a step takes the first
call off.

For the airdrop, `ProofLeadsToRoot` goes up the layers: the proof collected below a
layer leads from the leaf to its place in it, whether that has a pair or moves up
alone (`PairHashes`). `OnlyLeavesVerify` goes down: what leads to a node of the tree
is a node (`OnlyNodesVerify`), and a node with the encoding of a claim is a leaf. Both
count layers by `UpTo`, induction stated on sets. `AirdropInv` says that what has
been paid is what the bitmap says, to the accounts of the list; that the total is
`tokenTotal` follows by re-indexing the sum (`SumThrough`).

Theorems of `Requests`, `Quotes`, `BurnWatch`, `Adapters`, `Mock` and `Airdrop` are about the
specification of that part alone (`RequestsSpec` and so on, in the proof modules);
the run checks the same properties in `MCClient`, where a behaviour is one of one
part.

Model-checked only: liveness under fairness (`DepositSettled`, `SweepPays`,
`BurnHeard`, `RequestGetsThrough`), which the prover cannot reach. Every
invariant and every action property of a passing run is stated by a theorem.

## 5. Findings

* `desk_scripting`: `fallbackMint` deletes a status that was never set, so `loan`
  still accepts the digest afterwards; the pool's tokens go out for a deposit that
  is already spent.
* `desk_retarget`: the guard of `fallbackMint` looks at one digest, and a request
  has one per underwriter it was signed for.
* `store_race`: two concurrent `set`s read one length.
* `store_removed`: `getAllRequests` assigns a field of a request before it tests
  whether there is one.

Seen while modelling, without a run of their own, since no text of the repository
says otherwise or what goes wrong is outside the models:

* `keeper.js` reads nothing back when it starts: a request that was accepted before
  a crash is only retried by `repay.js`.
* No version of RenJS lets `keeper.js` both begin an execution and get a signature: it
  begins on `deposit` and `confirmation`, and `waitForSignature`
  (`TransferRequest.ts:184`) waits for `transaction`. Version 2, which had the former,
  has no `gateway` method either.
* `e2eTransaction.js:63` awaits the gateway's `deposit`, which `@renproject/ren`
  `^3.4.2` does not emit: once the request is published the script never ends.
* `BATCH_SIZE="0"` is true as a text, so `repay.js` tries the same index for ever.
* `callStatic.repay` asks for a gateway and a signature of its own, and with two
  deposits may simulate another repayment than the one that is sent.
* `LoanStatusCode` has a `PAID` and `repay` reverts with "loan is not in the UNPAID
  state", but nothing ever sets it: a repaid loan stays `UNPAID`. What keeps it from being
  repaid again is the module's record and the gateway's nHash.
* Two loans on one nonce of a converting module overwrite one record. Once a deposit
  settled it, the other can be neither repaid (`!outstanding`) nor minted by
  `fallbackMint` (the loan exists): `RecordTaken`.
* `trackIn` divides by zero where the repayment equals what is owed at some ratios,
  and `repay` reverts every time: `ZeroDivisor`.
* `setUnderwriter` after the request was published makes the user's own `fallbackMint`
  name another digest than the keeper's loan.
* `setTxDispatcher` (`core.ts:331`) hands out the promise of a reply dispatcher that
  is not awaited, so updates never reach a user.
* `handleBurnRequest` uses `transferRequest`, which is not defined there
  (`keeper.js:144`); requests of type `META` have no handler (`keeper.js:169`).
* `requestToPlain` keeps no owner, destination and deadline, so a burn read back from
  LevelDB cannot be executed; `SignatureSurvives` excepts it.
* A gateway promise that failed stays cached in the request object.
* A transfer's typed data has the asset as a string where the controller hashes an
  address (`config/constants.ts:28`), and the expiry of a `BurnRequest` hashes `data`,
  which `ZeroController` leaves out of the nonce and the Badger controllers do not.
* `UnderwriterBurnRequest` calls `burn` with seven arguments, `DelegateUnderwriter`
  takes six.
* `getUSDTQuote` to USDT passes on the amount of renBTC, not the WBTC it was quoted;
  `RoutesConnect` excepts it.
* Earnings given as strings to `parse-balance-map.ts` are read as hexadecimal.
* A listing of the `localStorage` store is empty or fails, and its `setStatus` writes under a
  key without the prefix, so a status stays "pending" although it is to update "the status
  of pending transaction" (`types.ts:30`).
* The Map's key leaves out the asset (it reads `assset`) and the type, so requests that
  differ only there share an entry and a filtered listing finds nothing; its
  `setStatus`, which awaits `get`, puts back a request that was removed meanwhile.
* `waitForRemoteTransaction` misses an output that arrives while another is spent, and
  the output it returns, the element at the first count of a list the explorer library
  sorts, may be one that was there before.
* The mocked `publishMetaRequest` and `publishBurnRequest` make the emitter after the
  dispatch, so early updates have nowhere to go.
* The strategy's `setStrategy` leaves idle want and ether with the old strategy.

## 6. Not modelled

* **Badger and RenZEC controllers, converters, swap routes of modules.** A call
  mints, swaps and pays in one transaction and keeps nothing but fees; there is no
  order of steps to get wrong, and the amounts are the pools'. The permits they check
  are in `Requests`, the fees as the client reckons them in `Quotes`.
* **Vault, `setStrategy`, `withdraw`, `withdrawAll`.** The vault is vendored; what
  these calls move is what its shares are worth.
* **Staking, treasury, bonds, farm, token.** Taken over from other protocols and
  called by nothing of this one; their core is arithmetic on 256-bit amounts.
* **Governance, libraries, interfaces, proxies.** Thin wrappers of vendored code, or
  without state.
* **Reply dispatcher, `handleBurnRequest`.** They fail before they do anything (see
  above).
* **`loan.js`, `fallback.js`, `fix-submitToRenVM.js`, operator scripts.** They send
  one transaction for a request written into the file; the desk's `Loan` and
  `FallbackMint` are those transactions.
* **`rpc/btc.ts`, logging, `lib/p2p/node.js`, libp2p.** I/O; what may fail of it is in
  `ZeroNetwork` and `BurnWatch`.
* **`skim` and `burn` of a lock, `setBlockTimeout` of a module.** The controller never
  calls the first two; the timeout is a constant.
* **Encoding.** EIP-712, ABI and JSON are compared field by field, never byte by
  byte; elliptic curves are perfect.
