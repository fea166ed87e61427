------------------------------- MODULE Keeper -------------------------------
(***************************************************************************)
(* The keeper process, scripts/keeper.js, and scripts/repay.js, which is   *)
(* run by hand to repay what it left behind; with the request objects both *)
(* work on (lib/UnderwriterRequest.ts, lib/TransferRequest.ts).            *)
(*                                                                         *)
(* A handler is one call of handleTransferRequest: it listens to its       *)
(* request's gateway and runs executeLoan when a deposit has enough        *)
(* confirmations.  keeper.js replaces the loan by a stub, so executeLoan   *)
(* comes to waitForSignature, and that listens to the same gateway.  The   *)
(* two ask for the events of different versions of RenJS, and no gateway   *)
(* emits both: where executions begin, a signature never comes.  What      *)
(* executeLoan does once it has one is therefore never reached.            *)
(*                                                                         *)
(* One action is the code between two awaits.  Bitcoin, RenVM and the      *)
(* chain are environment: a deposit gets confirmations, RenVM signs it     *)
(* once it has enough, and the gateway contract mints it once.             *)
(***************************************************************************)
EXTENDS Integers, Sequences

CONSTANTS
    Requests,
    MaxHandlers,   \* bound on the requests dispatched to the keeper
    MaxDeposits,   \* bound on the deposits made
    Target,        \* confirmations RenVM asks for
    FirstIndex,    \* the index repay.js starts at
    DefaultBatch,  \* how many it takes without BATCH_SIZE
    BatchSizes,    \* numbers BATCH_SIZE may be set to, None if it is not set
    MaxBatch,      \* bound on the size of a batch
    MaxFaults,     \* bound on crashes of the keeper and its failed RPC calls
    MaxSweeps,     \* bound on runs of repay.js
    None, Dead

ASSUME KeeperAssumption ==
    /\ MaxHandlers \in Nat
    /\ Target \in Nat
    /\ FirstIndex \in Nat
    /\ MaxBatch \in Nat
    /\ DefaultBatch \in 0 .. MaxBatch
    /\ BatchSizes \subseteq (0 .. MaxBatch) \union {None}
    /\ MaxFaults \in Nat
    /\ MaxSweeps \in Nat
    /\ MaxDeposits \in Nat
    /\ None \notin Requests \union Int
    /\ Dead \notin Requests \union {None}

VARIABLES
    events,        \* what the gateways of the installed RenJS emit
    up,            \* the keeper is running
    triggered,     \* the flag of its process
    handler,       \* the request a handler works on
    execution,     \* where an execution of executeLoan is
    log,           \* the keeper's store: requests by index
    status,        \* and their status
    sweep,         \* repay.js: where it is, its batch, the promises it made
    attempt,       \* repay.js: where execute(i) is
    query,         \* _queryTxResult of the request object that execute(i) made
    arrived,       \* deposits in order: the request whose gateway each pays
    confirmations,
    signed,        \* deposits RenVM has signed
    minted,        \* deposits the gateway contract has minted
    orphans,       \* deposits whose repay a dead process left unmined
    faults,        \* crashes and failures of the keeper so far
    sweeps         \* runs of repay.js so far

keeperVars == <<events, up, triggered, handler, execution>>
storeVars == <<log, status>>
sweepVars == <<sweep, attempt, query, sweeps>>
bitcoinVars == <<arrived, confirmations, signed>>
vars == <<keeperVars, storeVars, sweepVars, bitcoinVars, minted, orphans, faults>>

-----------------------------------------------------------------------------

Handlers == 1 .. MaxHandlers

Deposits == 1 .. MaxDeposits

LOAN_CONFIRMATION == 1

\* What started an execution: the count that is meant to, or that nothing
\* was executed in this process before.
Whys == {"due", "first"}

Executions == Handlers \X Deposits \X Whys

Steps ==
    {"none", "loading", "missing", "waiting", "sending", "sent", "mined", "done",
     "reverted", "lost"}

\* 'deposit', then 'confirmation', is what keeper.js listens for and RenJS had
\* in version 2, as has the mocked gateway of lib/mock.ts; 'transaction' is
\* what waitForSignature listens for, and the version package.json asks for
\* emits.
Versions == {"deposit", "transaction"}

\* What waitForSignature may resolve to: which deposit to the gateway is
\* reported first is the explorer's choice.
waitForSignature(r) ==
    IF events = "transaction" THEN {d \in signed : arrived[d] = r} ELSE {}

Paid(r) == \E d \in minted : arrived[d] = r

\* The indices a batch of repay.js runs.  BATCH_SIZE is a string, of which
\* new Array makes one element.
Batch(b, size) ==
    IF size = None THEN {b - i : i \in 0 .. DefaultBatch - 1} ELSE {b}

NotANumber == FirstIndex + 1

\* Bug variant: the next batch starts inside this one.
NextBatchOverlaps(b, size) ==
    IF size = None THEN {b - DefaultBatch + 1} ELSE {b}

\* batch - size is a number only if the array has one element.  "0" is a text
\* like any other, and goes back by nothing.
NextBatch(b, size) ==
    IF size = None THEN {NotANumber} ELSE Batch(b - size, size)

Indices == - MaxBatch .. NotANumber

InLog(r) == \E i \in DOMAIN log : log[i] = r

Init ==
    /\ events \in Versions
    /\ up = TRUE
    /\ triggered = FALSE
    /\ handler = [h \in Handlers |-> None]
    /\ execution = [e \in Executions |-> "none"]
    /\ log = <<>>
    /\ status = [r \in Requests |-> "pending"]
    /\ sweep = [pc |-> "off", batch |-> FirstIndex, size |-> None]
    /\ attempt = [i \in Indices |-> "none"]
    /\ query = [i \in Indices |-> None]
    /\ arrived = <<>>
    /\ confirmations = [d \in Deposits |-> 0]
    /\ signed = {}
    /\ minted = {}
    /\ orphans = {}
    /\ faults = 0
    /\ sweeps = 0

-----------------------------------------------------------------------------
(* Bitcoin and RenVM.                                                      *)

Arrive(r) ==
    /\ Len(arrived) < MaxDeposits
    /\ arrived' = Append(arrived, r)
    /\ UNCHANGED <<keeperVars, storeVars, sweepVars, confirmations, signed, minted,
                   orphans, faults>>

Confirm(d) ==
    /\ d \in DOMAIN arrived
    /\ confirmations[d] < Target
    /\ confirmations' = [confirmations EXCEPT ![d] = @ + 1]
    /\ UNCHANGED <<keeperVars, storeVars, sweepVars, arrived, signed, minted,
                   orphans, faults>>

Sign(d) ==
    /\ d \in DOMAIN arrived
    /\ confirmations[d] = Target
    /\ d \notin signed
    /\ signed' = signed \union {d}
    /\ UNCHANGED <<keeperVars, storeVars, sweepVars, arrived, confirmations,
                   minted, orphans, faults>>

\* A transaction of a process that died is mined.
MineOrphan(d) ==
    /\ d \in orphans
    /\ orphans' = orphans \ {d}
    /\ minted' = minted \union {d}
    /\ UNCHANGED <<keeperVars, storeVars, sweepVars, bitcoinVars, faults>>

-----------------------------------------------------------------------------
(* handleTransferRequest.                                                  *)

\* The dispatcher's callback.  The request was stored first, again if it was
\* known, which loses its status.  A gateway that fails leaves a handler that
\* hears nothing.
HandleTransferRequest(h, r) ==
    /\ up
    /\ handler[h] = None
    /\ \A g \in 1 .. h - 1 : handler[g] # None
    /\ handler' = [handler EXCEPT ![h] = r]
    /\ log' = IF InLog(r) THEN log ELSE Append(log, r)
    /\ status' = [status EXCEPT ![r] = "pending"]
    /\ UNCHANGED <<events, up, triggered, execution, sweepVars, bitcoinVars, minted,
                   orphans, faults>>

Why(confs) == IF confs = LOAN_CONFIRMATION THEN "due" ELSE "first"

\* Bug variant: the flag is left alone when an execution starts.
ConfirmationUnflagged(h, d) ==
    LET e == <<h, d, Why(confirmations[d])>> IN
    /\ events = "deposit"
    /\ d \in DOMAIN arrived
    /\ handler[h] = arrived[d]
    /\ ~ triggered \/ confirmations[d] = LOAN_CONFIRMATION
    /\ execution[e] = "none"
    /\ execution' = [execution EXCEPT ![e] = "waiting"]
    /\ UNCHANGED <<events, up, triggered, handler, storeVars, sweepVars, bitcoinVars,
                   minted, orphans, faults>>

\* 'confirmation' of a deposit, heard once per count.  A count that passes
\* between two events is not heard; one that starts no execution changes
\* nothing.
Confirmation(h, d) ==
    LET e == <<h, d, Why(confirmations[d])>> IN
    /\ events = "deposit"
    /\ d \in DOMAIN arrived
    /\ handler[h] = arrived[d]
    /\ ~ triggered \/ confirmations[d] = LOAN_CONFIRMATION
    /\ execution[e] = "none"
    /\ triggered' = TRUE
    /\ execution' = [execution EXCEPT ![e] = "waiting"]
    /\ UNCHANGED <<events, up, handler, storeVars, sweepVars, bitcoinVars, minted,
                   orphans, faults>>

-----------------------------------------------------------------------------
(* executeLoan waits for its signature; and the process may end.           *)

\* An RPC call of executeLoan rejects, and nobody tries again.
ExecutionLost(e) ==
    /\ execution[e] = "waiting"
    /\ faults < MaxFaults
    /\ faults' = faults + 1
    /\ execution' = [execution EXCEPT ![e] = "lost"]
    /\ UNCHANGED <<events, up, triggered, handler, storeVars, sweepVars, bitcoinVars,
                   minted, orphans>>

\* The process dies, of an unhandled rejection or otherwise.
Crash ==
    /\ up
    /\ faults < MaxFaults
    /\ faults' = faults + 1
    /\ up' = FALSE
    /\ triggered' = FALSE
    /\ handler' = [h \in Handlers |-> IF handler[h] = None THEN None ELSE Dead]
    /\ execution' = [e \in Executions |-> "none"]
    /\ UNCHANGED <<events, storeVars, sweepVars, bitcoinVars, minted, orphans>>

\* run(): nothing is read from the store.  The database admits one process.
Run ==
    /\ ~ up
    /\ sweep.pc = "off"
    /\ up' = TRUE
    /\ UNCHANGED <<events, triggered, handler, execution, storeVars, sweepVars,
                   bitcoinVars, minted, orphans, faults>>

-----------------------------------------------------------------------------
(* scripts/repay.js.                                                       *)

Attempt(i, step) == attempt' = [attempt EXCEPT ![i] = step]

BatchExecute(size) ==
    /\ ~ up
    /\ sweep.pc = "off"
    /\ sweeps < MaxSweeps
    /\ sweeps' = sweeps + 1
    /\ sweep' = [pc |-> "running", batch |-> FirstIndex, size |-> size]
    /\ attempt' = [i \in Indices |-> IF i \in Batch(FirstIndex, size) THEN "loading" ELSE "none"]
    /\ query' = [i \in Indices |-> None]
    /\ UNCHANGED <<keeperVars, storeVars, bitcoinVars, minted, orphans, faults>>

Listed(i) == i # NotANumber /\ i + 1 \in DOMAIN log

RequestAt(i) == log[i + 1]

\* execute(i): a request that is not listed is an error that ends the batches,
\* one that succeeded is left alone.  The request object is a new one.
Load(i) ==
    /\ attempt[i] = "loading"
    /\ query' = [query EXCEPT ![i] = None]
    /\ \/ /\ ~ Listed(i)
          /\ Attempt(i, "missing")
          /\ sweep' = [sweep EXCEPT !.pc = "ending"]
       \/ /\ Listed(i)
          /\ Attempt(i, IF status[RequestAt(i)] = "succeeded" THEN "done" ELSE "waiting")
          /\ UNCHANGED sweep
    /\ UNCHANGED <<keeperVars, storeVars, sweeps, bitcoinVars, minted, orphans, faults>>

\* Bug variant: after the static call every call of the request is static.
CallStaticOnly(i) ==
    /\ attempt[i] = "waiting"
    /\ waitForSignature(RequestAt(i)) # {}
    /\ Attempt(i, "done")
    /\ UNCHANGED <<keeperVars, storeVars, sweep, query, sweeps, bitcoinVars, minted,
                   orphans, faults>>

\* callStatic.repay runs on a copy of the request object: the copy waits for a
\* signature, the call is simulated, and what the copy was answered is gone.
CallStaticRepay(i) ==
    /\ attempt[i] = "waiting"
    /\ \E d \in waitForSignature(RequestAt(i)) :
         Attempt(i, IF d \in minted THEN "reverted" ELSE "sending")
    /\ UNCHANGED <<keeperVars, storeVars, sweep, query, sweeps, bitcoinVars, minted,
                   orphans, faults>>

\* Bug variant: the status is set when the transaction is sent.
SendAndSetStatus(i) ==
    /\ attempt[i] = "sending"
    /\ \E d \in waitForSignature(RequestAt(i)) : query' = [query EXCEPT ![i] = d]
    /\ Attempt(i, "sent")
    /\ status' = [status EXCEPT ![RequestAt(i)] = "succeeded"]
    /\ UNCHANGED <<keeperVars, log, sweep, sweeps, bitcoinVars, minted, orphans, faults>>

\* Bug variant: any deposit to the gateway will do.
SendUnsigned(i) ==
    /\ attempt[i] = "sending"
    /\ \E d \in DOMAIN arrived :
         arrived[d] = RequestAt(i) /\ query' = [query EXCEPT ![i] = d]
    /\ Attempt(i, "sent")
    /\ UNCHANGED <<keeperVars, storeVars, sweep, sweeps, bitcoinVars, minted, orphans, faults>>

\* repay asks for a gateway and waits once more, and may be answered with
\* another deposit than the copy was.
SendRepay(i) ==
    /\ attempt[i] = "sending"
    /\ \E d \in waitForSignature(RequestAt(i)) : query' = [query EXCEPT ![i] = d]
    /\ Attempt(i, "sent")
    /\ UNCHANGED <<keeperVars, storeVars, sweep, sweeps, bitcoinVars, minted, orphans, faults>>

\* The gateway contract mints a deposit once.
MineRepay(i) ==
    /\ attempt[i] = "sent"
    /\ Attempt(i, IF query[i] \in minted THEN "reverted" ELSE "mined")
    /\ minted' = minted \union {query[i]}
    /\ UNCHANGED <<keeperVars, storeVars, sweep, query, sweeps, bitcoinVars, orphans, faults>>

\* Bug variant: the status is another word than the one that is tested.
SetSucceededMisspelt(i) ==
    /\ attempt[i] = "mined"
    /\ Attempt(i, "done")
    /\ status' = [status EXCEPT ![RequestAt(i)] = "success"]
    /\ UNCHANGED <<keeperVars, log, sweep, query, sweeps, bitcoinVars, minted, orphans, faults>>

SetSucceeded(i) ==
    /\ attempt[i] = "mined"
    /\ Attempt(i, "done")
    /\ status' = [status EXCEPT ![RequestAt(i)] = "succeeded"]
    /\ UNCHANGED <<keeperVars, log, sweep, query, sweeps, bitcoinVars, minted, orphans, faults>>

\* The try block rejects at one of its awaits; the error is logged.  A
\* transaction whose receipt was not obtained may still be mined.
AttemptLost(i) ==
    /\ attempt[i] \in {"waiting", "sending", "sent", "mined"}
    /\ Attempt(i, "lost")
    /\ \/ orphans' = orphans
       \/ attempt[i] = "sent" /\ orphans' = orphans \union {query[i]}
    /\ UNCHANGED <<keeperVars, storeVars, sweep, query, sweeps, bitcoinVars, minted, faults>>

Finished == {"none", "done", "reverted", "lost"}

\* All promises of a batch are fulfilled: on to the next.
RecurseBatch ==
    LET next == NextBatch(sweep.batch, sweep.size) IN
    /\ sweep.pc = "running"
    /\ \A i \in Indices : attempt[i] \in Finished
    /\ sweep' = [sweep EXCEPT !.batch = IF sweep.size = None THEN @ ELSE @ - sweep.size]
    /\ attempt' = [i \in Indices |-> IF i \in next THEN "loading" ELSE attempt[i]]
    /\ UNCHANGED <<keeperVars, storeVars, query, sweeps, bitcoinVars, minted, orphans, faults>>

\* The process ends, because nothing is left to wait for or killed by hand.
EndSweep ==
    /\ sweep.pc \in {"running", "ending"}
    /\ sweep' = [sweep EXCEPT !.pc = "off"]
    /\ attempt' = [i \in Indices |-> "none"]
    /\ query' = [i \in Indices |-> None]
    /\ orphans' = orphans \union {query[i] : i \in {x \in Indices : attempt[x] = "sent"}}
    /\ UNCHANGED <<keeperVars, storeVars, sweeps, bitcoinVars, minted, faults>>

-----------------------------------------------------------------------------

\* What repay.js does without being asked to.
Sweeping(i) == Load(i) \/ CallStaticRepay(i) \/ SendRepay(i) \/ MineRepay(i) \/ SetSucceeded(i)

Next ==
    \/ \E d \in Deposits : Confirm(d) \/ Sign(d) \/ MineOrphan(d)
    \/ \E r \in Requests : Arrive(r)
    \/ \E h \in Handlers :
         \/ \E r \in Requests : HandleTransferRequest(h, r)
         \/ \E d \in Deposits : Confirmation(h, d)
    \/ \E e \in Executions : ExecutionLost(e)
    \/ Crash
    \/ Run
    \/ \E size \in BatchSizes : BatchExecute(size)
    \/ \E i \in Indices : Sweeping(i) \/ AttemptLost(i)
    \/ RecurseBatch
    \/ EndSweep

Spec == Init /\ [][Next]_vars

\* Bitcoin buries what arrived and RenVM signs it; a process that waits for
\* nothing else goes on, the chain mines.  No fairness for what users,
\* operators and failures do.
FairSpec ==
    /\ Spec
    /\ WF_vars(\E d \in Deposits : Confirm(d) \/ Sign(d))
    /\ WF_vars(\E i \in Indices : Sweeping(i))

-----------------------------------------------------------------------------
(* Properties.                                                             *)

\* Type invariant.
KeeperTypeOK ==
    /\ events \in Versions
    /\ up \in BOOLEAN /\ triggered \in BOOLEAN
    /\ handler \in [Handlers -> Requests \union {None, Dead}]
    /\ execution \in [Executions -> {"none", "waiting", "lost"}]
    /\ log \in Seq(Requests)
    /\ status \in [Requests -> {"pending", "succeeded"}]
    /\ sweep \in [pc : {"off", "running", "ending"}, batch : Int, size : BatchSizes \union {None}]
    /\ attempt \in [Indices -> Steps]
    /\ query \in [Indices -> Deposits \union {None}]
    /\ arrived \in Seq(Requests)
    /\ Len(arrived) <= MaxDeposits
    /\ confirmations \in [Deposits -> 0 .. Target]
    /\ signed \union minted \union orphans \subseteq Deposits
    /\ faults \in 0 .. MaxFaults
    /\ sweeps \in 0 .. MaxSweeps

\* Between two restarts at most one loan is executed at a count other than
\* LOAN_CONFIRMATION, however the requests' confirmations interleave
\* (handleTransferRequest and its flag).
FirstExecutedOnce ==
    \A e, f \in Executions :
        e[3] = "first" /\ f[3] = "first" /\ execution[e] # "none" /\ execution[f] # "none"
            => e = f

\* Every repay transaction, one left behind by a dead process included, is for
\* a deposit to the gateway of its own request that RenVM has signed, whatever
\* other deposit the static call before it was about (execute of repay.js,
\* repay, waitForSignature).
RepayIsSigned ==
    /\ \A i \in Indices :
         attempt[i] \in {"sent", "mined"} =>
             query[i] \in signed /\ arrived[query[i]] = RequestAt(i)
    /\ orphans \union minted \subseteq signed

\* A request whose status is "succeeded" has been paid, although the keeper
\* writes the same entry and repay.js may die between any two steps (execute
\* of repay.js).
SucceededIsPaid ==
    \A r \in Requests : status[r] = "succeeded" => Paid(r)

\* One run of repay.js tries no index twice, unless BATCH_SIZE is "0": then it
\* tries one again and again, each time when the attempt before has ended
\* (batchExecute).
BatchesDisjoint ==
    [][\A i \in Indices :
          attempt'[i] = "loading" /\ attempt[i] # "loading" =>
              \/ attempt[i] = "none"
              \/ sweep.size = 0 /\ attempt[i] \in Finished]_vars

\* repay.js pays a listed request that has a deposit, also when other requests
\* of the batch wait for theirs forever, unless it fails or is stopped or
\* gateways emit what waitForSignature does not listen for (execute,
\* batchExecute).
SweepPays ==
    \A r \in Requests :
        (/\ events = "transaction"
         /\ r \in {arrived[d] : d \in DOMAIN arrived}
         /\ \E i \in Indices : attempt[i] = "waiting" /\ RequestAt(i) = r)
            ~> (\/ Paid(r)
                \/ sweep.pc = "off"
                \/ \E i \in Indices : attempt[i] = "lost")
=============================================================================
