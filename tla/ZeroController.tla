--------------------------- MODULE ZeroController ---------------------------
(***************************************************************************)
(* The loan desk of zero-protocol: ZeroController.sol with the underwriter *)
(* locks it mints, the modules it lends to (contracts/modules), the part   *)
(* of StrategyRenVM.sol it draws from, and the RenVM gateway it mints      *)
(* through, which lives outside the repository.                            *)
(*                                                                         *)
(* A user signs a transfer request; an underwriter lends its amount to the *)
(* request's module before the deposit on the other chain is final; when   *)
(* RenVM has signed the deposit, repay mints it, settles the module and    *)
(* puts the minted tokens back in the strategy.  A user nobody lent to     *)
(* calls fallbackMint and receives the minted tokens directly.  Two more   *)
(* services are paid from the same pool: meta runs a signed call through   *)
(* an executor, burn sends a user's tokens back to the other chain.        *)
(*                                                                         *)
(* Every external call is one transaction, hence one action; a require     *)
(* that fails reverts the transaction, hence is a guard.  All tokens, the  *)
(* shares of the vault and ether are counted in one unit of value; what a  *)
(* conversion pays, and what an estimate says it will, misses the value    *)
(* put in by one of Drifts, and a module's swap loses one of Slippages.    *)
(***************************************************************************)
EXTENDS BalanceSheet, FiniteSets, FiniteSetsExt

CONSTANTS
    Users,          \* accounts that ask for transfers
    Underwriters,   \* accounts that may own a lock and lend
    Modules,        \* every module that takes loans
    Executors,      \* modules that take meta calls (MetaExecutor)
    QuickModules,   \* the ones that pay on receipt (ArbitrumConvertQuick)
    RenModules,     \* the ones whose want() is the strategy's want
    Nonces,         \* pNonce values, the key of a module's records
    Requests,       \* transfer requests: to, amount, module, nonce
    Signed,         \* <<request, underwriter>> pairs the user has signed
    DepositIds,     \* nHashes RenVM may confirm
    DepositAmounts, \* amounts that arrive on the other chain
    MintFee,        \* the gateway's fee per mint
    Fees, BaseFees, TxGases, BurnGases,  \* values governance may set
    BurnAmounts,    \* amounts users burn
    EarnAmounts,    \* amounts earn is called with
    GasRefunds,     \* ETH a transaction may claim back
    Slippages,      \* what a module's swap may lose
    Drifts,         \* by how much an estimate or a conversion may miss
    MaxDrift,       \* bound on that, either way
    WantReserve, GasReserve,  \* reserves the strategy keeps
    InitialVault, InitialEther,
    Capacity,       \* initial capacity of a quick module
    ExecutorFunds,  \* tokens an executor holds at the start
    BlockTimeout,   \* blockTimeout of every module
    Genesis, BlockSeconds,    \* timestamp of block b: Genesis + BlockSeconds * b
    MaxBlock,       \* bound on the block number
    NoOwner         \* ownerOf of a lock that does not exist

Request == [to : Users, amount : Nat, module : Modules, nonce : Nonces]

ASSUME DeskAssumption ==
    /\ IsFiniteSet(Underwriters)  \* addresses of 160 bits
    /\ IsFiniteSet(Executors)
    /\ IsFiniteSet(Nonces)        \* words of 256 bits
    /\ QuickModules \subseteq Modules
    /\ RenModules \subseteq Modules
    /\ Requests \subseteq Request
    /\ Signed \subseteq Requests \X Underwriters
    /\ DepositAmounts \subseteq Nat
    /\ MintFee \in Nat
    /\ Fees \subseteq 0 .. Unit
    /\ BaseFees \subseteq Nat
    /\ TxGases \subseteq Nat
    /\ BurnGases \subseteq Nat
    /\ BurnAmounts \subseteq Nat
    /\ EarnAmounts \subseteq Nat
    /\ GasRefunds \subseteq Nat
    /\ Slippages \subseteq Nat
    /\ MaxDrift \in Nat
    /\ Drifts \subseteq -MaxDrift .. MaxDrift
    /\ WantReserve \in Nat
    /\ GasReserve \in Nat
    /\ InitialVault \in Nat
    /\ InitialEther \in Nat
    /\ Capacity \in Nat
    /\ ExecutorFunds \in Nat
    /\ BlockTimeout \in [Modules -> Nat]
    /\ Genesis \in Nat
    /\ BlockSeconds \in Nat \ {0}
    /\ MaxBlock \in Nat
    /\ NoOwner \notin Underwriters

VARIABLES
    ownerOf,          \* owner of the lock of every underwriter
    approvedModules,  \* modules governance approved
    params,           \* fee, baseFee and the gas charges in ether
    loanStatus,       \* status of every digest and the underwriter that lent
    sheet,            \* balance sheet of every underwriter's lock
    outstanding,      \* per module and nonce: quantity and time of the loan
    held,             \* tokens a module holds for its users
    capacity,         \* what a quick module may still lend
    wallet,           \* tokens each user received and still has
    purse,            \* tokens of each executor
    deposits,         \* deposits RenVM confirmed and signed
    claim,            \* how the nHash of a deposit was spent
    desk,             \* tokens in the controller itself
    strategy,         \* the strategy's want, vault position and ether
    block             \* block number

vars == <<ownerOf, approvedModules, params, loanStatus, sheet, outstanding,
          held, capacity, wallet, purse, deposits, claim, desk, strategy,
          block>>

-----------------------------------------------------------------------------
(* Hashes.  toTypedDataHash leaves the receiver out; the payload hash the  *)
(* gateway checks leaves the amount and the underwriter out.               *)

Digest(r, u) ==
    [underwriter |-> u, module |-> r.module, amount |-> r.amount, nonce |-> r.nonce]

Digests == {Digest(r, u) : r \in Requests, u \in Underwriters}

\* Bug variant: the payload hash leaves the receiver out, too.
PHashWithoutReceiver(r) ==
    [to |-> CHOOSE u \in Users : TRUE, nonce |-> r.nonce, module |-> r.module]

PHash(r) == [to |-> r.to, nonce |-> r.nonce, module |-> r.module]

PHashes == {PHash(r) : r \in Requests}

DepositSet == [id : DepositIds, pHash : PHashes, amount : DepositAmounts]

LoanStatusCode == {"UNINITIALIZED", "UNPAID", "PAID"}

NoLoan == [underwriter |-> NoOwner, status |-> "UNINITIALIZED"]

NoRecord == [qty |-> 0, when |-> 0]

ParamsType == [fee : Fees, baseFee : BaseFees, txGas : TxGases, burnGas : BurnGases]

BlockTimestamp(b) == Genesis + BlockSeconds * b

Init ==
    /\ ownerOf = [u \in Underwriters |-> NoOwner]
    /\ approvedModules = {}
    /\ params \in ParamsType
    /\ loanStatus = [d \in Digests |-> NoLoan]
    /\ sheet = [u \in Underwriters |-> EmptySheet]
    /\ outstanding = [m \in Modules |-> [n \in Nonces |-> NoRecord]]
    /\ held = [m \in Modules |-> 0]
    /\ capacity = [m \in QuickModules |-> Capacity]
    /\ wallet = [u \in Users |-> 0]
    /\ purse = [e \in Executors |-> ExecutorFunds]
    /\ deposits = {}
    /\ claim = [i \in DepositIds |-> "none"]
    /\ desk = 0
    /\ strategy = [want |-> 0, vault |-> InitialVault, ether |-> InitialEther]
    /\ block = 0

-----------------------------------------------------------------------------
(* Amounts and the calls a handler makes on the other contracts.           *)

\* What an amount other than 0 may come to by an estimate or a conversion.
Worth(x) == IF x = 0 THEN {0} ELSE {x + d : d \in {e \in Drifts : x + e >= 0}}

\* deductFee, and the gas charge loan subtracts from it; SafeMath reverts
\* when either subtraction underflows.
FeeOn(amount) == (amount * (Unit - params.fee)) \div Unit

LoanCovered(amount, gas) == FeeOn(amount) >= params.baseFee + gas

DeductFee(amount, gas) == FeeOn(amount) - params.baseFee - gas

\* addFee, what meta charges for the gas it paid.
AddFee(amount) == (amount * (Unit + params.fee)) \div Unit + params.baseFee

\* Bug variant: the fee is taken on the whole amount, the gas is not.
ActualOfWhole(amount, gas) == FeeOn(amount) - params.baseFee

\* What burn sends to the gateway: the gas first, then deductFee.
ActualAmount(amount, gas) == FeeOn(amount - gas) - params.baseFee

\* What loan records on the lock: the amount less 2.5 percent.
Tracked(amount) == amount - (amount * 25) \div 1000

\* computeReserveRequirement: 120 percent for a quick module, else 10.
ReserveRequirement(m, amount) ==
    IF m \in QuickModules THEN (amount * 12) \div 10 ELSE amount \div 10

\* onlyUnderwriter: lockFor(account) exists and has an owner.
HasLock(u) == ownerOf[u] # NoOwner

\* IGateway.mint: the nHash is unspent and RenVM signed this payload hash
\* and amount for the controller; the gateway keeps a fee.
GatewayMint(dep, r) ==
    /\ dep \in deposits
    /\ claim[dep.id] = "none"
    /\ dep.pHash = PHash(r)
    /\ dep.amount >= MintFee

Minted(dep) == dep.amount - MintFee

\* permissionedSend: out of the idle balance if it covers the whole amount
\* and the module takes the strategy's want, else all of it from the vault,
\* at the cost of the shares estimated for it; the module gets what the
\* withdrawal pays.
FromVault(m, amount) == amount > strategy.want \/ m \notin RenModules

CanSend(m, amount, cost) ==
    IF FromVault(m, amount) THEN strategy.vault >= cost ELSE strategy.want >= amount

AfterSend(m, amount, cost) ==
    IF FromVault(m, amount) THEN [strategy EXCEPT !.vault = @ - cost]
                            ELSE [strategy EXCEPT !.want = @ - amount]

Sent(m, amount) == IF FromVault(m, amount) THEN Worth(amount) ELSE {amount}

\* Bug variant: a refund that nothing checks.
PaysAnyEther(s, refund, cost) == TRUE

\* permissionedEther: a refund above the gas reserve is bought with the
\* shares estimated for it, any other is paid from the ether at hand.
CanPayEther(s, refund, cost) ==
    IF refund > GasReserve THEN s.vault >= cost ELSE s.ether >= refund

PayEther(s, refund, cost) ==
    IF refund > GasReserve THEN [s EXCEPT !.vault = @ - cost]
                           ELSE [s EXCEPT !.ether = @ - refund]

\* The refund with which loan and repay end, for the gas they used.
RefundEther(s) ==
    \E refund \in GasRefunds : \E cost \in Worth(refund) :
        /\ CanPayEther(s, refund, cost)
        /\ strategy' = PayEther(s, refund, cost)

\* StrategyRenVM.deposit: the want above the reserve goes to the vault, which
\* gains put, and missing ether is bought from it, got for cost.
Excess(s) == IF s.want > WantReserve THEN s.want - WantReserve ELSE 0

EtherDeficit(s) == IF s.ether < GasReserve THEN GasReserve - s.ether ELSE 0

CanDeposit(s, put, cost) == EtherDeficit(s) > 0 => s.vault + put > cost

\* Bug variant: the shares of the excess are never deposited.
AfterDepositOfNothing(s, put, cost, got) ==
    [want |-> s.want - Excess(s), vault |-> s.vault - cost, ether |-> s.ether + got]

AfterDeposit(s, put, cost, got) ==
    [want  |-> s.want - Excess(s),
     vault |-> s.vault + put - cost,
     ether |-> s.ether + got]

-----------------------------------------------------------------------------
(* The modules.  A record is active while its quantity is not zero; its    *)
(* key is the nonce alone.                                                 *)

SetRecord(m, n, rec) == outstanding' = [outstanding EXCEPT ![m][n] = rec]

\* Bug variant: defaultLoan without its timeout check.
ExpiredAtOnce(m, rec) == TRUE

\* The timeout check of defaultLoan, a block number against the time recorded.
Expired(m, rec) == block >= rec.when + BlockTimeout[m]

\* Bug variant: the proceeds are kept but not recorded.
ReceiveLoanUnrecorded(r, sent) ==
    /\ r.module \notin QuickModules
    /\ held' = [held EXCEPT ![r.module] = @ + sent]
    /\ UNCHANGED <<capacity, wallet, outstanding>>

\* receiveLoan of the converting modules: swap what was sent and keep the
\* proceeds.  The time recorded is block.timestamp.
ReceiveLoan(r, sent) ==
    /\ r.module \notin QuickModules
    /\ \E loss \in Slippages :
         /\ loss <= sent
         /\ SetRecord(r.module, r.nonce,
                      [qty |-> sent - loss, when |-> BlockTimestamp(block)])
         /\ held' = [held EXCEPT ![r.module] = @ + (sent - loss)]
    /\ UNCHANGED <<capacity, wallet>>

\* receiveLoan of a quick module: the user is paid at once and the record
\* keeps the volume and the block number.
QuickReceiveLoan(r, sent) ==
    /\ r.module \in QuickModules
    /\ capacity[r.module] >= sent
    /\ \E loss \in Slippages :
         /\ loss <= sent
         /\ wallet' = [wallet EXCEPT ![r.to] = @ + (sent - loss)]
    /\ SetRecord(r.module, r.nonce, [qty |-> sent, when |-> block])
    /\ capacity' = [capacity EXCEPT ![r.module] = @ - sent]
    /\ UNCHANGED held

\* Bug variant: the record outlives the payout.
RepayLoanKeepsRecord(r) ==
    LET qty == outstanding[r.module][r.nonce].qty IN
    /\ r.module \notin QuickModules
    /\ qty # 0
    /\ held[r.module] >= qty
    /\ wallet' = [wallet EXCEPT ![r.to] = @ + qty]
    /\ held' = [held EXCEPT ![r.module] = @ - qty]
    /\ UNCHANGED <<capacity, outstanding>>

\* repayLoan of the converting modules: hand the proceeds to the user.
RepayLoan(r) ==
    LET qty == outstanding[r.module][r.nonce].qty IN
    /\ r.module \notin QuickModules
    /\ qty # 0
    /\ held[r.module] >= qty
    /\ wallet' = [wallet EXCEPT ![r.to] = @ + qty]
    /\ held' = [held EXCEPT ![r.module] = @ - qty]
    /\ SetRecord(r.module, r.nonce, NoRecord)
    /\ UNCHANGED capacity

\* Bug variant: the quick record is not deleted.
QuickRepayLoanKeepsRecord(r) ==
    /\ r.module \in QuickModules
    /\ capacity' = [capacity EXCEPT ![r.module] = @ + outstanding[r.module][r.nonce].qty]
    /\ UNCHANGED <<held, wallet, outstanding>>

\* repayLoan of a quick module: free the capacity, whatever the record says.
QuickRepayLoan(r) ==
    /\ r.module \in QuickModules
    /\ capacity' = [capacity EXCEPT ![r.module] = @ + outstanding[r.module][r.nonce].qty]
    /\ SetRecord(r.module, r.nonce, NoRecord)
    /\ UNCHANGED <<held, wallet>>

-----------------------------------------------------------------------------
(* Transactions.                                                           *)

\* mint(underwriter, vault): anyone creates the lock of an underwriter, once;
\* the clone's address is taken the second time and the call reverts.
Mint(caller, u) ==
    /\ ~ HasLock(u)
    /\ ownerOf' = [ownerOf EXCEPT ![u] = caller]
    /\ UNCHANGED <<approvedModules, params, loanStatus, sheet, outstanding,
                   held, capacity, wallet, purse, deposits, claim, desk,
                   strategy, block>>

\* approveModule(module, isApproved), by governance.
ApproveModule(m, isApproved) ==
    /\ approvedModules' = IF isApproved THEN approvedModules \union {m}
                                        ELSE approvedModules \ {m}
    /\ UNCHANGED <<ownerOf, params, loanStatus, sheet, outstanding, held,
                   capacity, wallet, purse, deposits, claim, desk, strategy,
                   block>>

SetParams(p) ==
    /\ params' = p
    /\ UNCHANGED <<ownerOf, approvedModules, loanStatus, sheet, outstanding,
                   held, capacity, wallet, purse, deposits, claim, desk,
                   strategy, block>>

SetFee(f) == SetParams([params EXCEPT !.fee = f])

SetBaseFeeByAsset(f) == SetParams([params EXCEPT !.baseFee = f])

\* The price and the limits enter as two products: what loan charges for its
\* repayment and itself, and what burn charges.
SetGasParameters(g, b) == SetParams([params EXCEPT !.txGas = g, !.burnGas = b])

\* The end of loan: the strategy sends the amount, the module takes what
\* arrives, and the caller is refunded.
Lend(r, amount) ==
    \E cost \in Worth(amount), sent \in Sent(r.module, amount) :
        /\ CanSend(r.module, amount, cost)
        /\ ReceiveLoan(r, sent) \/ QuickReceiveLoan(r, sent)
        /\ RefundEther(AfterSend(r.module, amount, cost))

\* loan(...), called by underwriter u with the user's signature.
Loan(r, u) ==
    LET d == Digest(r, u) IN
    /\ HasLock(u)
    /\ r.module \in approvedModules
    /\ <<r, u>> \in Signed
    /\ loanStatus[d].status = "UNINITIALIZED"
    /\ loanStatus' = [loanStatus EXCEPT ![d] = [underwriter |-> u, status |-> "UNPAID"]]
    /\ TrackOutDefined(sheet[u], Tracked(r.amount))
    /\ sheet' = [sheet EXCEPT ![u] =
                    TrackOut(@, Tracked(r.amount),
                             ReserveRequirement(r.module, Tracked(r.amount)))]
    /\ \E gas \in Worth(params.txGas) :
         /\ LoanCovered(r.amount, gas)
         /\ Lend(r, DeductFee(r.amount, gas))
    /\ UNCHANGED <<ownerOf, approvedModules, params, purse, deposits, claim,
                   desk, block>>

\* repay(underwriter, ...), called by anyone with a lock: the debt is
\* credited to the caller's lock, not to that of the underwriter named.
\* depositAll sweeps the controller into the strategy; the status stays.
Repay(caller, r, u, dep) ==
    /\ loanStatus[Digest(r, u)].status = "UNPAID"
    /\ HasLock(caller)
    /\ TrackInDefined(sheet[caller], dep.amount)
    /\ sheet' = [sheet EXCEPT ![caller] = TrackIn(@, dep.amount)]
    /\ GatewayMint(dep, r)
    /\ claim' = [claim EXCEPT ![dep.id] = "repay"]
    /\ RepayLoan(r) \/ QuickRepayLoan(r)
    /\ RefundEther([strategy EXCEPT !.want = @ + desk + Minted(dep)])
    /\ desk' = 0
    /\ UNCHANGED <<ownerOf, approvedModules, params, loanStatus, purse,
                   deposits, block>>

\* Bug variant: the executor hands over the gas without the fee.
RepayMetaGasOnly(e, gasInRen) == gasInRen

\* repayMeta: what the executor transfers to the controller.
RepayMeta(e, gasInRen) == AddFee(gasInRen)

\* meta(...), called by an underwriter with the signature of a user: run the
\* call, pay its gas in ether, charge what convertGasUsedToRen estimates for
\* it to the executor and credit the charge to the caller's lock.  No status
\* is kept of the digest.
Meta(caller, e) ==
    /\ HasLock(caller)
    /\ e \in approvedModules
    /\ \E gas \in GasRefunds : \E gasInRen, cost \in Worth(gas) :
         /\ CanPayEther(strategy, gas, cost)
         /\ TrackInDefined(sheet[caller], AddFee(gasInRen))
         /\ sheet' = [sheet EXCEPT ![caller] = TrackIn(@, AddFee(gasInRen))]
         /\ purse[e] >= RepayMeta(e, gasInRen)
         /\ purse' = [purse EXCEPT ![e] = @ - RepayMeta(e, gasInRen)]
         /\ RepayMeta(e, gasInRen) >= gasInRen
         /\ strategy' = [PayEther(strategy, gas, cost) EXCEPT
                            !.want = @ + desk + RepayMeta(e, gasInRen)]
    /\ desk' = 0
    /\ UNCHANGED <<ownerOf, approvedModules, params, loanStatus, outstanding,
                   held, capacity, wallet, deposits, claim, block>>

\* burn(...), called by an underwriter with a permit of the user: take the
\* amount, pay the gas of the whole round trip in ether, burn what is left
\* after the gas estimated for it and the fees, and sweep the rest into the
\* strategy.
Burn(caller, a, amount) ==
    /\ HasLock(caller)
    /\ wallet[a] >= amount
    /\ wallet' = [wallet EXCEPT ![a] = @ - amount]
    /\ \E gasInRen, cost \in Worth(params.burnGas) :
         /\ CanPayEther(strategy, params.burnGas, cost)
         /\ amount >= gasInRen
         /\ ActualAmount(amount, gasInRen) >= 0
         /\ strategy' = [PayEther(strategy, params.burnGas, cost) EXCEPT
                            !.want = @ + desk + amount - ActualAmount(amount, gasInRen)]
    /\ desk' = 0
    /\ UNCHANGED <<ownerOf, approvedModules, params, loanStatus, sheet,
                   outstanding, held, capacity, purse, deposits, claim,
                   block>>

\* Bug variant: fallbackMint without "loan already exists".
FallbackAlways(d) == TRUE

\* fallbackMint refuses a digest that has a loan.
MayFallback(d) == loanStatus[d].status = "UNINITIALIZED"

\* fallbackMint(underwriter, ...), called by anyone.  Its delete resets the
\* status entry.
FallbackMint(r, u, dep) ==
    /\ MayFallback(Digest(r, u))
    /\ GatewayMint(dep, r)
    /\ claim' = [claim EXCEPT ![dep.id] = "fallback"]
    /\ loanStatus' = [loanStatus EXCEPT ![Digest(r, u)] = NoLoan]
    /\ wallet' = [wallet EXCEPT ![r.to] = @ + Minted(dep)]
    /\ UNCHANGED <<ownerOf, approvedModules, params, sheet, outstanding, held,
                   capacity, purse, deposits, desk, strategy, block>>

\* defaultLoan(nonce) of a converting module, called by anyone: the proceeds
\* are swapped back to the controller.  The record's timestamp is compared
\* with a block number.
DefaultLoan(m, n) ==
    LET rec == outstanding[m][n] IN
    /\ Expired(m, rec)
    /\ rec.qty # 0
    /\ held[m] >= rec.qty
    /\ \E loss \in Slippages :
         /\ loss <= rec.qty
         /\ desk' = desk + (rec.qty - loss)
    /\ held' = [held EXCEPT ![m] = @ - rec.qty]
    /\ SetRecord(m, n, NoRecord)
    /\ UNCHANGED <<ownerOf, approvedModules, params, loanStatus, sheet,
                   capacity, wallet, purse, deposits, claim, strategy, block>>

\* defaultLoan(nonce) of a quick module: the volume is taken off the capacity
\* a second time.
QuickDefaultLoan(m, n) ==
    LET rec == outstanding[m][n] IN
    /\ Expired(m, rec)
    /\ capacity[m] >= rec.qty
    /\ capacity' = [capacity EXCEPT ![m] = @ - rec.qty]
    /\ SetRecord(m, n, NoRecord)
    /\ UNCHANGED <<ownerOf, approvedModules, params, loanStatus, sheet, held,
                   wallet, purse, deposits, claim, desk, strategy, block>>

\* earn(token, amount), called by anyone: move controller tokens to the
\* strategy and let it deposit.
Earn(amount) ==
    LET s == [strategy EXCEPT !.want = @ + amount] IN
    /\ desk >= amount
    /\ desk' = desk - amount
    /\ \E put \in Worth(Excess(s)), cost, got \in Worth(EtherDeficit(s)) :
         /\ CanDeposit(s, put, cost)
         /\ strategy' = AfterDeposit(s, put, cost, got)
    /\ UNCHANGED <<ownerOf, approvedModules, params, loanStatus, sheet,
                   outstanding, held, capacity, wallet, purse, deposits,
                   claim, block>>

-----------------------------------------------------------------------------
(* The environment: RenVM signs a deposit; blocks are mined.               *)

Deposit(dep) ==
    /\ \A other \in deposits : other.id # dep.id
    /\ deposits' = deposits \union {dep}
    /\ UNCHANGED <<ownerOf, approvedModules, params, loanStatus, sheet,
                   outstanding, held, capacity, wallet, purse, claim, desk,
                   strategy, block>>

MineBlock ==
    /\ block < MaxBlock
    /\ block' = block + 1
    /\ UNCHANGED <<ownerOf, approvedModules, params, loanStatus, sheet,
                   outstanding, held, capacity, wallet, purse, deposits,
                   claim, desk, strategy>>

Next ==
    \/ \E caller, u \in Underwriters : Mint(caller, u)
    \/ \E m \in Modules \union Executors, isApproved \in BOOLEAN :
         ApproveModule(m, isApproved)
    \/ \E f \in Fees : SetFee(f)
    \/ \E f \in BaseFees : SetBaseFeeByAsset(f)
    \/ \E g \in TxGases, b \in BurnGases : SetGasParameters(g, b)
    \/ \E r \in Requests, u \in Underwriters : Loan(r, u)
    \/ \E caller, u \in Underwriters, r \in Requests, dep \in deposits :
         Repay(caller, r, u, dep)
    \/ \E r \in Requests, u \in Underwriters, dep \in deposits : FallbackMint(r, u, dep)
    \/ \E caller \in Underwriters, e \in Executors : Meta(caller, e)
    \/ \E caller \in Underwriters, a \in Users, amount \in BurnAmounts :
         Burn(caller, a, amount)
    \/ \E m \in Modules \ QuickModules, n \in Nonces : DefaultLoan(m, n)
    \/ \E m \in QuickModules, n \in Nonces : QuickDefaultLoan(m, n)
    \/ \E amount \in EarnAmounts : Earn(amount)
    \/ \E dep \in DepositSet : Deposit(dep)
    \/ MineBlock

Spec == Init /\ [][Next]_vars

-----------------------------------------------------------------------------
(* Properties.                                                             *)

Strategy == [want : Nat, vault : Nat, ether : Nat]

Record == [qty : Nat, when : Nat]

\* Type invariant: in particular no balance of the desk goes below zero,
\* which the code leaves to SafeMath and to the tokens' own transfers.
TypeOK ==
    /\ ownerOf \in [Underwriters -> Underwriters \union {NoOwner}]
    /\ approvedModules \subseteq Modules \union Executors
    /\ params \in ParamsType
    /\ loanStatus \in [Digests -> [underwriter : Underwriters \union {NoOwner},
                                   status : LoanStatusCode]]
    /\ sheet \in [Underwriters -> Sheet]
    /\ outstanding \in [Modules -> [Nonces -> Record]]
    /\ held \in [Modules -> Nat]
    /\ capacity \in [QuickModules -> Nat]
    /\ wallet \in [Users -> Nat]
    /\ purse \in [Executors -> Nat]
    /\ deposits \subseteq DepositSet
    /\ claim \in [DepositIds -> {"none", "repay", "fallback"}]
    /\ desk \in Nat
    /\ strategy \in Strategy
    /\ block \in Nat

Active(m, n) == outstanding[m][n].qty # 0

Unpaid(d) == loanStatus[d].status = "UNPAID"

Quantities(m) == [n \in Nonces |-> outstanding[m][n].qty]

\* What the records of a module add up to.
Recorded(m) == SumFunctionOnSet(Quantities(m), Nonces)

\* A converting module always holds at least what its records promise, so
\* neither repayLoan nor defaultLoan can fail for want of tokens, though
\* loans that share a nonce overwrite one another's record and one's repayment
\* pays out the other's (receiveLoan, repayLoan, defaultLoan).
ModuleCustody ==
    \A m \in Modules \ QuickModules : held[m] >= Recorded(m)

\* The controller keys loans by digest and a module keys them by nonce; a
\* record a module still carries always has a loan in the UNPAID state behind
\* it, so the repay that settles it is never refused for its status.
RecordHasLoan ==
    \A m \in Modules, n \in Nonces :
        Active(m, n) => \E d \in Digests : Unpaid(d) /\ d.module = m /\ d.nonce = n

ClaimedDeposits(how) == {dep \in deposits : claim[dep.id] \in how}

Spent(e) == ExecutorFunds - purse[e]

\* The loans an underwriter has made.
LentBy(u) == {d \in Digests : Unpaid(d) /\ loanStatus[d].underwriter = u}

\* What lenders to the pool own: the strategy and the controller.
Pool == strategy.want + strategy.vault + strategy.ether + desk

\* What a lock has lent is the sum of the loans its underwriter made, each
\* digest counted once, at 97.5 percent: trackOut and the status agree across
\* any order of loans, repayments and fallback mints.
SheetMatchesLoans ==
    \A u \in Underwriters :
        sheet[u].loaned =
            SumFunctionOnSet([d \in Digests |-> Tracked(d.amount)], LentBy(u)) % LockWord

\* Over all locks, what is tracked in as repaid is what repay minted and meta
\* charged: credit may go to the lock of whoever called, but none is lost or
\* invented.
RepaidMatchesMints ==
    SumFunction([u \in Underwriters |-> sheet[u].repaid])
      = SumFunctionOnSet([dep \in deposits |-> dep.amount], ClaimedDeposits({"repay"}))
          + SumFunction([e \in Executors |-> Spent(e)])

\* What a quick module may lend and what it has out never exceed its initial
\* capacity together, through repayments, defaults and reused nonces.
CapacityBounded ==
    \A m \in QuickModules :
        capacity[m] + Recorded(m) <= Capacity

\* The loan status of a digest is write-once: no later call, fallbackMint's
\* delete included, takes a loan out of the UNPAID state, so no request is
\* lent twice under one digest.
LoanIsFinal ==
    [][\A d \in Digests : Unpaid(d) => loanStatus'[d] = loanStatus[d]]_vars

\* A user is paid only against a deposit of their own minted in the same
\* transaction, or by a quick module against a loan made in it.
PayoutBacked ==
    [][\A a \in Users :
         wallet'[a] > wallet[a] =>
            \/ \E dep \in deposits : /\ dep.pHash.to = a
                                     /\ claim[dep.id] = "none"
                                     /\ claim'[dep.id] # "none"
            \/ \E r \in Requests, u \in Underwriters :
                 /\ r.to = a
                 /\ r.module \in QuickModules
                 /\ ~ Unpaid(Digest(r, u))
                 /\ Unpaid(Digest(r, u))']_vars

\* Only lending and settling a deposit may cost the pool: what meta, burn,
\* earn and defaultLoan pay out, gas included, is never more than they bring
\* in and their estimates and trades, at most three of them, miss; no fee or
\* charge is left out, at any fees and gas charges.
ServicesCostOnlyTheirTrades ==
    [][UNCHANGED <<loanStatus, claim>> => Pool' + 3 * MaxDrift >= Pool]_vars

\* On a chain whose timestamps are ahead of its block numbers, a converting
\* module's record is settled by a repay that mints a deposit or replaced by a
\* new loan: the unit mix in defaultLoan leaves no other way out.
SettledOnlyByRepay ==
    [][\A m \in Modules \ QuickModules, n \in Nonces :
         Active(m, n) /\ ~ Active(m, n)' =>
            \E dep \in deposits : claim[dep.id] = "none" /\ claim'[dep.id] = "repay"]_vars

\* README.md, "TransferRequest#fallbackMint": the user receives RenBTC "and no
\* scripting will occur".  Stated of loan: no module is invoked for a request
\* one of whose deposits was minted by fallbackMint.
NoScriptingAfterFallback ==
    [][\A r \in Requests, u \in Underwriters :
         ~ Unpaid(Digest(r, u)) /\ Unpaid(Digest(r, u))' =>
            \A dep \in deposits : dep.pHash = PHash(r) => claim[dep.id] # "fallback"]_vars

\* README.md, same section: fallbackMint is for a request no keeper "has
\* successfully initiated a loan" for; the code's message is "loan already
\* exists".  Stated of fallbackMint: it mints no deposit of a request that is
\* lent, whichever underwriter lent it.
FallbackOnlyWithoutLoan ==
    [][\A dep \in deposits :
         claim[dep.id] = "none" /\ claim'[dep.id] = "fallback" =>
            \A r \in Requests, u \in Underwriters :
                PHash(r) = dep.pHash => ~ Unpaid(Digest(r, u))]_vars

-----------------------------------------------------------------------------
(* Liveness.  scripts/repay.js goes over every stored request that did not *)
(* succeed, and a user whose request nobody lent for calls fallbackMint;   *)
(* together they keep trying while a call can succeed.  Nobody is bound to *)
(* lend.                                                                   *)

Settle(dep) ==
    \E rq \in Signed : \/ Repay(rq[2], rq[1], rq[2], dep)
                      \/ FallbackMint(rq[1], rq[2], dep)

FairSpec == Spec /\ \A dep \in DepositSet : WF_vars(Settle(dep))

\* A repayment of exactly what the lender owes, at a quick module's ratio,
\* divides by zero in trackIn.
ZeroDivisor(dep) ==
    \E rq \in Signed : /\ PHash(rq[1]) = dep.pHash
                       /\ Unpaid(Digest(rq[1], rq[2]))
                       /\ ~ TrackInDefined(sheet[rq[2]], dep.amount)

\* A converting module keeps one record per nonce, whatever the user, the
\* amount and the underwriter: another deposit has settled it.
RecordTaken(dep) ==
    /\ dep.pHash.module \notin QuickModules
    /\ \E other \in deposits : /\ other.id # dep.id
                              /\ other.pHash.module = dep.pHash.module
                              /\ other.pHash.nonce = dep.pHash.nonce
                              /\ claim[other.id] = "repay"

\* The strategy has not the ether for any refund.
OutOfEther ==
    \A refund \in GasRefunds : \A cost \in Worth(refund) :
        ~ CanPayEther(strategy, refund, cost)

\* A deposit RenVM has signed is eventually minted for the user or for the
\* pool, in whatever order the keeper's loan and the user's fallback come and
\* whatever loans share its nonce, with three exceptions only: another
\* deposit took its record, trackIn divides by zero, the ether is out.
DepositSettled ==
    \A dep \in DepositSet :
        dep \in deposits ~> \/ claim[dep.id] # "none"
                           \/ RecordTaken(dep)
                           \/ ZeroDivisor(dep)
                           \/ OutOfEther
=============================================================================
