---------------------------- MODULE Keeper_proofs ----------------------------
(***************************************************************************)
(* Proofs about the keeper process and repay.js for any requests, numbers  *)
(* of handlers, deposits and confirmations, batch sizes and bounds: the    *)
(* type invariant, what triggered promises, that only signed deposits to a *)
(* request's own gateway are repaid, that a request marked "succeeded" has *)
(* been paid, and when a run of repay.js tries an index again.             *)
(***************************************************************************)
EXTENDS Keeper, TLAPS

\* What an attempt may rely on: the deposit it repays is signed and pays its
\* own request, what it marks or has marked is minted.
AttemptInv ==
    \A i \in Indices :
        /\ attempt[i] \in {"waiting", "sending", "sent", "mined"} => Listed(i)
        /\ attempt[i] \in {"sent", "mined"} =>
             query[i] \in signed /\ arrived[query[i]] = RequestAt(i)
        /\ attempt[i] = "mined" => query[i] \in minted

PayInv ==
    /\ AttemptInv
    /\ signed \subseteq DOMAIN arrived
    /\ orphans \union minted \subseteq signed
    /\ SucceededIsPaid

\* The inductive invariant of RepayIsSigned and SucceededIsPaid.
KeeperInv == KeeperTypeOK /\ PayInv

\* While triggered is not set, nothing has been executed.
FlagInv ==
    /\ ~ triggered => \A e \in Executions : execution[e] = "none"
    /\ FirstExecutedOnce

\* The batches of a run go down and never come back: what was tried lies at
\* or above the current batch if batches have a size, and the index that is
\* not a number is never finished.
SweepInv ==
    /\ sweep.pc = "off" => \A i \in Indices : attempt[i] = "none"
    /\ attempt[NotANumber] \in {"none", "loading", "missing"}
    /\ sweep.batch <= FirstIndex
    /\ sweep.size # None => \A i \in Indices : attempt[i] # "none" => sweep.batch <= i

-----------------------------------------------------------------------------
(* Sizes.                                                                  *)

\* A size is a number or None, and nothing is both.
LEMMA SizeIs ==
    ASSUME KeeperTypeOK
    PROVE  /\ sweep.size = None \/ sweep.size \in Nat
           /\ sweep.size \in BatchSizes \union {None}
           /\ 0 # None
<1>1. sweep.size \in BatchSizes \union {None}
  BY DEF KeeperTypeOK
<1>2. BatchSizes \subseteq Nat \union {None}
  BY KeeperAssumption
<1>3. 0 # None
  BY KeeperAssumption
<1> QED
  BY <1>1, <1>2, <1>3, Zenon

-----------------------------------------------------------------------------
(* The initial states.                                                     *)

LEMMA InitKeeperInv == Init => KeeperInv /\ FlagInv /\ SweepInv
<1> SUFFICES ASSUME Init PROVE KeeperInv /\ FlagInv /\ SweepInv
  OBVIOUS
<1> USE KeeperAssumption DEF Init
<1>1. KeeperTypeOK
  <2>1. <<>> \in Seq(Requests) /\ Len(<<>>) = 0
    OBVIOUS
  <2>2. execution \in [Executions -> {"none", "waiting", "lost"}]
    OBVIOUS
  <2>3. confirmations \in [Deposits -> 0 .. Target]
    OBVIOUS
  <2>4. attempt \in [Indices -> Steps] /\ query \in [Indices -> Deposits \union {None}]
    BY DEF Steps
  <2>5. sweep \in [pc : {"off", "running", "ending"}, batch : Int, size : BatchSizes \union {None}]
    OBVIOUS
  <2>6. /\ events \in Versions /\ up \in BOOLEAN /\ triggered \in BOOLEAN
        /\ handler \in [Handlers -> Requests \union {None, Dead}]
        /\ status \in [Requests -> {"pending", "succeeded"}]
    OBVIOUS
  <2>7. faults \in 0 .. MaxFaults /\ sweeps \in 0 .. MaxSweeps /\ Len(arrived) <= MaxDeposits
    BY <2>1
  <2>8. log \in Seq(Requests) /\ arrived \in Seq(Requests)
        /\ signed \union minted \union orphans \subseteq Deposits
    BY <2>1
  <2> QED
    BY <2>2, <2>3, <2>4, <2>5, <2>6, <2>7, <2>8 DEF KeeperTypeOK
<1>2. PayInv
  BY DEF PayInv, AttemptInv, SucceededIsPaid
<1>3. FlagInv
  BY DEF FlagInv, FirstExecutedOnce
<1>4. NotANumber \in Indices
  BY DEF NotANumber, Indices
<1>5. SweepInv
  BY <1>4 DEF SweepInv
<1> QED
  BY <1>1, <1>2, <1>3, <1>5 DEF KeeperInv

-----------------------------------------------------------------------------
(* The type invariant.                                                     *)

Sweeps == [pc : {"off", "running", "ending"}, batch : Int, size : BatchSizes \union {None}]

Answers == [Indices -> Deposits \union {None}]

LEMMA AttemptType ==
    ASSUME KeeperTypeOK, NEW i \in Indices, NEW step \in Steps, Attempt(i, step)
    PROVE  /\ attempt' \in [Indices -> Steps]
           /\ attempt'[i] = step /\ \A j \in Indices : j # i => attempt'[j] = attempt[j]
BY DEF Attempt, KeeperTypeOK

\* What an attempt sends, and what waitForSignature answers, is a deposit.
LEMMA SignedDeposits ==
    ASSUME KeeperInv
    PROVE  /\ signed \subseteq Deposits /\ minted \subseteq Deposits /\ orphans \subseteq Deposits
           /\ \A i \in Indices : attempt[i] = "sent" => query[i] \in signed
           /\ \A r : \A d \in waitForSignature(r) : d \in signed /\ arrived[d] = r
BY DEF KeeperInv, KeeperTypeOK, PayInv, AttemptInv, waitForSignature

\* Bitcoin, RenVM and the chain.
LEMMA OutsideType ==
    ASSUME KeeperInv,
           \/ \E d \in Deposits : Confirm(d) \/ Sign(d) \/ MineOrphan(d)
           \/ \E r \in Requests : Arrive(r)
    PROVE  KeeperTypeOK'
<1> USE KeeperAssumption
<1>1. KeeperTypeOK
  BY DEF KeeperInv
<1>2. ASSUME NEW d \in Deposits, Confirm(d) PROVE KeeperTypeOK'
  <2>1. confirmations[d] \in 0 .. Target /\ confirmations[d] + 1 \in 0 .. Target
    BY <1>1, <1>2 DEF KeeperTypeOK, Confirm
  <2>2. confirmations' \in [Deposits -> 0 .. Target]
    BY <1>1, <1>2, <2>1 DEF KeeperTypeOK, Confirm
  <2> QED
    BY <1>1, <1>2, <2>2 DEF KeeperTypeOK, Confirm, keeperVars, storeVars, sweepVars
<1>3. ASSUME NEW d \in Deposits, Sign(d) PROVE KeeperTypeOK'
  BY <1>1, <1>3 DEF KeeperTypeOK, Sign, keeperVars, storeVars, sweepVars
<1>4. ASSUME NEW d \in Deposits, MineOrphan(d) PROVE KeeperTypeOK'
  BY <1>1, <1>4 DEF KeeperTypeOK, MineOrphan, keeperVars, storeVars, sweepVars, bitcoinVars
<1>5. ASSUME NEW r \in Requests, Arrive(r) PROVE KeeperTypeOK'
  <2>1. arrived' \in Seq(Requests) /\ Len(arrived') <= MaxDeposits
    BY <1>1, <1>5 DEF KeeperTypeOK, Arrive
  <2> QED
    BY <1>1, <1>5, <2>1 DEF KeeperTypeOK, Arrive, keeperVars, storeVars, sweepVars
<1> QED
  BY <1>2, <1>3, <1>4, <1>5

\* The keeper process.
LEMMA ProcessType ==
    ASSUME KeeperInv,
           \/ \E h \in Handlers : \/ \E r \in Requests : HandleTransferRequest(h, r)
                                  \/ \E d \in Deposits : Confirmation(h, d)
           \/ \E e \in Executions : ExecutionLost(e)
           \/ Crash \/ Run
    PROVE  KeeperTypeOK'
<1> USE KeeperAssumption
<1>1. KeeperTypeOK
  BY DEF KeeperInv
<1>2. ASSUME NEW h \in Handlers, NEW r \in Requests, HandleTransferRequest(h, r)
      PROVE  KeeperTypeOK'
  <2>1. log' \in Seq(Requests)
    BY <1>1, <1>2 DEF KeeperTypeOK, HandleTransferRequest
  <2>2. /\ handler' \in [Handlers -> Requests \union {None, Dead}]
        /\ status' \in [Requests -> {"pending", "succeeded"}]
    BY <1>1, <1>2 DEF KeeperTypeOK, HandleTransferRequest
  <2> QED
    BY <1>1, <1>2, <2>1, <2>2 DEF KeeperTypeOK, HandleTransferRequest, sweepVars, bitcoinVars
<1>3. ASSUME NEW h \in Handlers, NEW d \in Deposits, Confirmation(h, d) PROVE KeeperTypeOK'
  <2>1. execution' \in [Executions -> {"none", "waiting", "lost"}] /\ triggered' \in BOOLEAN
    BY <1>1, <1>3 DEF KeeperTypeOK, Confirmation
  <2> QED
    BY <1>1, <1>3, <2>1 DEF KeeperTypeOK, Confirmation, storeVars, sweepVars, bitcoinVars
<1>4. ASSUME NEW e \in Executions, ExecutionLost(e) PROVE KeeperTypeOK'
  <2>1. execution' \in [Executions -> {"none", "waiting", "lost"}]
    BY <1>1, <1>4 DEF KeeperTypeOK, ExecutionLost
  <2>2. faults' \in 0 .. MaxFaults
    BY <1>1, <1>4 DEF KeeperTypeOK, ExecutionLost
  <2> QED
    BY <1>1, <1>4, <2>1, <2>2 DEF KeeperTypeOK, ExecutionLost, storeVars, sweepVars, bitcoinVars
<1>5. CASE Crash
  <2>1. handler' \in [Handlers -> Requests \union {None, Dead}]
    BY <1>1, <1>5 DEF KeeperTypeOK, Crash
  <2>2. /\ execution' \in [Executions -> {"none", "waiting", "lost"}]
        /\ up' \in BOOLEAN /\ triggered' \in BOOLEAN
    BY <1>5 DEF Crash
  <2>3. faults' \in 0 .. MaxFaults
    BY <1>1, <1>5 DEF KeeperTypeOK, Crash
  <2> QED
    BY <1>1, <1>5, <2>1, <2>2, <2>3 DEF KeeperTypeOK, Crash, storeVars, sweepVars, bitcoinVars
<1>6. CASE Run
  BY <1>1, <1>6 DEF KeeperTypeOK, Run, storeVars, sweepVars, bitcoinVars
<1> QED
  BY <1>2, <1>3, <1>4, <1>5, <1>6

\* A run of repay.js.
LEMMA SweepType ==
    ASSUME KeeperInv,
           \/ \E size \in BatchSizes : BatchExecute(size)
           \/ \E i \in Indices : Sweeping(i) \/ AttemptLost(i)
           \/ RecurseBatch \/ EndSweep
    PROVE  KeeperTypeOK'
<1> USE KeeperAssumption
<1>1. KeeperTypeOK /\ sweep \in Sweeps /\ attempt \in [Indices -> Steps] /\ query \in Answers
  BY DEF KeeperInv, KeeperTypeOK, Sweeps, Answers
<1>2. ASSUME sweep' \in Sweeps, attempt' \in [Indices -> Steps], query' \in Answers,
             status' \in [Requests -> {"pending", "succeeded"}], sweeps' \in 0 .. MaxSweeps,
             minted' \union orphans' \subseteq Deposits,
             UNCHANGED <<keeperVars, log, bitcoinVars, faults>>
      PROVE  KeeperTypeOK'
  BY <1>1, <1>2 DEF KeeperTypeOK, Sweeps, Answers, keeperVars, bitcoinVars
<1>3. /\ status \in [Requests -> {"pending", "succeeded"}] /\ sweeps \in 0 .. MaxSweeps
      /\ minted \union orphans \subseteq Deposits
      /\ sweep.batch \in Int
  BY <1>1 DEF KeeperTypeOK
<1>4. ASSUME NEW size \in BatchSizes, BatchExecute(size) PROVE KeeperTypeOK'
  <2>1. sweep' \in Sweeps /\ attempt' \in [Indices -> Steps] /\ query' \in Answers
    BY <1>4 DEF BatchExecute, Sweeps, Steps, Answers
  <2>2. sweeps' \in 0 .. MaxSweeps
    BY <1>3, <1>4 DEF BatchExecute
  <2> QED
    BY <1>2, <1>3, <1>4, <2>1, <2>2 DEF BatchExecute, storeVars
<1>5. ASSUME NEW i \in Indices, Load(i) PROVE KeeperTypeOK'
  <2>1. sweep' \in Sweeps
    BY <1>1, <1>5 DEF Load, Sweeps
  <2>2. query' \in Answers
    BY <1>1, <1>5 DEF Load, Answers
  <2>3. attempt' \in [Indices -> Steps]
    BY <1>1, <1>5, AttemptType DEF Load, Steps
  <2> QED
    BY <1>2, <1>3, <1>5, <2>1, <2>2, <2>3 DEF Load, storeVars
<1>6. ASSUME NEW i \in Indices, CallStaticRepay(i) PROVE KeeperTypeOK'
  <2>1. attempt' \in [Indices -> Steps]
    BY <1>1, <1>6, AttemptType DEF CallStaticRepay, Steps
  <2> QED
    BY <1>1, <1>2, <1>3, <1>6, <2>1 DEF CallStaticRepay, storeVars
<1>7. ASSUME NEW i \in Indices, SendRepay(i) PROVE KeeperTypeOK'
  <2>1. attempt' \in [Indices -> Steps]
    BY <1>1, <1>7, AttemptType DEF SendRepay, Steps
  <2>2. PICK d \in Deposits : query' = [query EXCEPT ![i] = d]
    BY <1>7, SignedDeposits DEF SendRepay
  <2>3. query' \in Answers
    BY <1>1, <2>2 DEF Answers
  <2> QED
    BY <1>1, <1>2, <1>3, <1>7, <2>1, <2>3 DEF SendRepay, storeVars
<1>8. ASSUME NEW i \in Indices, MineRepay(i) PROVE KeeperTypeOK'
  <2>1. attempt' \in [Indices -> Steps]
    BY <1>1, <1>8, AttemptType DEF MineRepay, Steps
  <2>2. minted' \subseteq Deposits
    BY <1>8, SignedDeposits DEF MineRepay
  <2> QED
    BY <1>1, <1>2, <1>3, <1>8, <2>1, <2>2 DEF MineRepay, storeVars
<1>9. ASSUME NEW i \in Indices, SetSucceeded(i) PROVE KeeperTypeOK'
  <2>1. attempt' \in [Indices -> Steps]
    BY <1>1, <1>9, AttemptType DEF SetSucceeded, Steps
  <2>2. status' \in [Requests -> {"pending", "succeeded"}]
    BY <1>3, <1>9 DEF SetSucceeded
  <2> QED
    BY <1>1, <1>2, <1>3, <1>9, <2>1, <2>2 DEF SetSucceeded
<1>10. ASSUME NEW i \in Indices, AttemptLost(i) PROVE KeeperTypeOK'
  <2>1. attempt' \in [Indices -> Steps]
    BY <1>1, <1>10, AttemptType DEF AttemptLost, Steps
  <2>2. orphans' \subseteq Deposits
    BY <1>10, SignedDeposits DEF AttemptLost
  <2> QED
    BY <1>1, <1>2, <1>3, <1>10, <2>1, <2>2 DEF AttemptLost, storeVars
<1>11. CASE RecurseBatch
  <2>1. sweep.size # None => sweep.batch - sweep.size \in Int
    BY <1>1, <1>3, SizeIs
  <2>2. sweep' \in Sweeps
    BY <1>1, <1>11, <2>1 DEF RecurseBatch, Sweeps
  <2>3. attempt' \in [Indices -> Steps]
    BY <1>1, <1>11 DEF RecurseBatch, Steps
  <2> QED
    BY <1>1, <1>2, <1>3, <1>11, <2>2, <2>3 DEF RecurseBatch, storeVars
<1>12. CASE EndSweep
  <2>1. sweep' \in Sweeps
    BY <1>1, <1>12 DEF EndSweep, Sweeps
  <2>2. attempt' \in [Indices -> Steps] /\ query' \in Answers
    BY <1>12 DEF EndSweep, Steps, Answers
  <2>3. orphans' \subseteq Deposits
    BY <1>12, SignedDeposits DEF EndSweep
  <2> QED
    BY <1>2, <1>3, <1>12, <2>1, <2>2, <2>3 DEF EndSweep, storeVars
<1> QED
  BY <1>4, <1>5, <1>6, <1>7, <1>8, <1>9, <1>10, <1>11, <1>12 DEF Sweeping

LEMMA StepType == KeeperInv /\ [Next]_vars => KeeperTypeOK'
<1>1. KeeperInv /\ UNCHANGED vars => KeeperTypeOK'
  BY DEF KeeperInv, KeeperTypeOK, vars, keeperVars, storeVars, sweepVars, bitcoinVars
<1> QED
  BY <1>1, OutsideType, ProcessType, SweepType DEF Next

-----------------------------------------------------------------------------
(* What is repaid.                                                         *)

\* What bitcoin, RenVM and the chain do leaves everything paid that was.
LEMMA OutsidePays ==
    ASSUME KeeperInv, UNCHANGED <<keeperVars, storeVars, sweepVars>>,
           arrived' = arrived \/ \E q \in Requests : arrived' = Append(arrived, q),
           signed \subseteq signed', signed' \subseteq DOMAIN arrived',
           minted \subseteq minted', orphans' \union minted' \subseteq signed'
    PROVE  PayInv'
<1> USE DEF storeVars, sweepVars
<1>1. PayInv /\ arrived \in Seq(Requests)
  BY DEF KeeperInv, KeeperTypeOK
<1>2. \A d \in signed : arrived'[d] = arrived[d]
  BY <1>1 DEF PayInv
<1>3. \A i \in Indices : RequestAt(i)' = RequestAt(i) /\ Listed(i)' = Listed(i)
  BY DEF RequestAt, Listed
<1>4. AttemptInv'
  BY <1>1, <1>2, <1>3 DEF PayInv, AttemptInv
<1>5. SucceededIsPaid'
  BY <1>1, <1>2 DEF PayInv, SucceededIsPaid, Paid
<1> QED
  BY <1>4, <1>5 DEF PayInv

LEMMA OutsideKeeps ==
    ASSUME KeeperInv,
           \/ \E d \in Deposits : Confirm(d) \/ Sign(d) \/ MineOrphan(d)
           \/ \E r \in Requests : Arrive(r)
    PROVE  PayInv'
<1>1. /\ arrived \in Seq(Requests) /\ signed \subseteq DOMAIN arrived
      /\ orphans \union minted \subseteq signed
  BY DEF KeeperInv, KeeperTypeOK, PayInv
<1>2. ASSUME NEW d \in Deposits, Confirm(d) \/ Sign(d) \/ MineOrphan(d) PROVE PayInv'
  BY <1>1, <1>2, OutsidePays DEF Confirm, Sign, MineOrphan, bitcoinVars
<1>3. ASSUME NEW r \in Requests, Arrive(r) PROVE PayInv'
  <2>1. DOMAIN arrived \subseteq DOMAIN Append(arrived, r)
    BY <1>1
  <2> QED
    BY <1>1, <1>3, <2>1, OutsidePays DEF Arrive
<1> QED
  BY <1>2, <1>3

\* A step that leaves bitcoin and repay.js alone, loses nothing from the log
\* and marks nothing keeps what repay.js relies on.
LEMMA AttemptsStay ==
    ASSUME KeeperInv, UNCHANGED <<sweepVars, bitcoinVars, minted, orphans>>,
           log' = log \/ \E q \in Requests : log' = Append(log, q),
           \A r \in Requests : status'[r] = "succeeded" => status[r] = "succeeded"
    PROVE  PayInv'
<1> USE DEF sweepVars, bitcoinVars
<1>1. PayInv /\ log \in Seq(Requests)
  BY DEF KeeperInv, KeeperTypeOK
<1>2. \A n \in DOMAIN log : n \in DOMAIN log' /\ log'[n] = log[n]
  BY <1>1
<1>3. \A i \in Indices : Listed(i) => Listed(i)' /\ RequestAt(i)' = RequestAt(i)
  BY <1>2 DEF Listed, RequestAt
<1>4. AttemptInv'
  BY <1>1, <1>3 DEF PayInv, AttemptInv
<1>5. SucceededIsPaid'
  BY <1>1 DEF PayInv, SucceededIsPaid, Paid
<1> QED
  BY <1>1, <1>4, <1>5 DEF PayInv

LEMMA ProcessKeeps ==
    ASSUME KeeperInv,
           \/ \E h \in Handlers : \/ \E r \in Requests : HandleTransferRequest(h, r)
                                  \/ \E d \in Deposits : Confirmation(h, d)
           \/ \E e \in Executions : ExecutionLost(e)
           \/ Crash \/ Run
    PROVE  PayInv'
<1>1. status \in [Requests -> {"pending", "succeeded"}]
  BY DEF KeeperInv, KeeperTypeOK
<1>2. ASSUME NEW h \in Handlers, NEW r \in Requests, HandleTransferRequest(h, r) PROVE PayInv'
  <2>1. \A q \in Requests : status'[q] = "succeeded" => status[q] = "succeeded"
    BY <1>1, <1>2 DEF HandleTransferRequest
  <2> QED
    BY <1>2, <2>1, AttemptsStay DEF HandleTransferRequest
<1>3. ASSUME UNCHANGED <<storeVars, sweepVars, bitcoinVars, minted, orphans>> PROVE PayInv'
  BY <1>3, AttemptsStay DEF storeVars
<1> QED
  BY <1>2, <1>3 DEF Confirmation, ExecutionLost, Crash, Run

LEMMA SweepKeeps ==
    ASSUME KeeperInv,
           \/ \E size \in BatchSizes : BatchExecute(size)
           \/ \E i \in Indices : Sweeping(i) \/ AttemptLost(i)
           \/ RecurseBatch \/ EndSweep
    PROVE  PayInv'
<1>1. /\ KeeperTypeOK /\ PayInv /\ AttemptInv
      /\ attempt \in [Indices -> Steps] /\ query \in Answers
  BY DEF KeeperInv, KeeperTypeOK, PayInv, Answers
<1>2. UNCHANGED <<keeperVars, log, bitcoinVars>>
  BY DEF Sweeping, BatchExecute, Load, CallStaticRepay, SendRepay, MineRepay, SetSucceeded,
         AttemptLost, RecurseBatch, EndSweep, storeVars
<1>3. /\ signed' = signed /\ arrived' = arrived
      /\ \A i \in Indices : RequestAt(i)' = RequestAt(i) /\ Listed(i)' = Listed(i)
  BY <1>2 DEF bitcoinVars, RequestAt, Listed
<1> DEFINE Kept == orphans \union minted \subseteq signed /\ SucceededIsPaid
<1>4. Kept
  BY <1>1 DEF PayInv
<1>5. ASSUME AttemptInv', Kept' PROVE PayInv'
  BY <1>1, <1>3, <1>5 DEF PayInv
<1>6. ASSUME minted \subseteq minted', orphans' \union minted' \subseteq signed, status' = status
      PROVE  Kept'
  BY <1>3, <1>4, <1>6 DEF SucceededIsPaid, Paid
<1>7. ASSUME UNCHANGED <<status, minted, orphans>> PROVE Kept'
  BY <1>4, <1>6, <1>7
<1> HIDE DEF Kept
\* The other attempts are as they were.
<1>8. ASSUME NEW i \in Indices, NEW step \in Steps, Attempt(i, step), minted \subseteq minted',
             \A j \in Indices : j # i => query'[j] = query[j],
             step \in {"waiting", "sending", "sent", "mined"} => Listed(i),
             step \in {"sent", "mined"} => query'[i] \in signed /\ arrived[query'[i]] = RequestAt(i),
             step = "mined" => query'[i] \in minted'
      PROVE  AttemptInv'
  <2>1. attempt'[i] = step /\ \A j \in Indices : j # i => attempt'[j] = attempt[j]
    BY <1>1, <1>8, AttemptType
  <2> SUFFICES ASSUME NEW j \in Indices
               PROVE  /\ attempt'[j] \in {"waiting", "sending", "sent", "mined"} => Listed(j)'
                      /\ attempt'[j] \in {"sent", "mined"} =>
                           query'[j] \in signed' /\ arrived'[query'[j]] = RequestAt(j)'
                      /\ attempt'[j] = "mined" => query'[j] \in minted'
    BY DEF AttemptInv
  <2>2. CASE j = i
    BY <1>3, <1>8, <2>1, <2>2
  <2>3. CASE j # i
    <3>1. attempt'[j] = attempt[j] /\ query'[j] = query[j]
      BY <1>8, <2>1, <2>3
    <3> QED
      BY <1>1, <1>3, <1>8, <3>1 DEF AttemptInv
  <2> QED
    BY <2>2, <2>3
<1>9. ASSUME NEW size \in BatchSizes, BatchExecute(size) PROVE PayInv'
  <2>1. AttemptInv'
    BY <1>9 DEF BatchExecute, AttemptInv
  <2> QED
    BY <1>5, <1>7, <1>9, <2>1 DEF BatchExecute, storeVars
<1>10. ASSUME NEW i \in Indices, Load(i) PROVE PayInv'
  <2>1. PICK step \in {"missing", "done", "waiting"} :
          Attempt(i, step) /\ (step = "waiting" => Listed(i))
    BY <1>10 DEF Load
  <2>2. minted' = minted /\ \A j \in Indices : j # i => query'[j] = query[j]
    BY <1>1, <1>10 DEF Load, Answers
  <2>3. AttemptInv'
    BY <1>8, <2>1, <2>2 DEF Steps
  <2> QED
    BY <1>5, <1>7, <1>10, <2>3 DEF Load, storeVars
<1>11. ASSUME NEW i \in Indices, CallStaticRepay(i) PROVE PayInv'
  <2>1. PICK step \in {"reverted", "sending"} : Attempt(i, step)
    BY <1>11 DEF CallStaticRepay
  <2>2. Listed(i) /\ minted' = minted /\ query' = query
    BY <1>1, <1>11 DEF CallStaticRepay, AttemptInv
  <2>3. AttemptInv'
    BY <1>8, <2>1, <2>2 DEF Steps
  <2> QED
    BY <1>5, <1>7, <1>11, <2>3 DEF CallStaticRepay, storeVars
<1>12. ASSUME NEW i \in Indices, SendRepay(i) PROVE PayInv'
  <2>1. PICK d \in waitForSignature(RequestAt(i)) : query' = [query EXCEPT ![i] = d]
    BY <1>12 DEF SendRepay
  <2>2. d \in signed /\ arrived[d] = RequestAt(i)
    BY SignedDeposits
  <2>3. query'[i] = d /\ \A j \in Indices : j # i => query'[j] = query[j]
    BY <1>1, <2>1 DEF Answers
  <2>4. Listed(i) /\ minted' = minted /\ Attempt(i, "sent")
    BY <1>1, <1>12 DEF SendRepay, AttemptInv
  <2>5. AttemptInv'
    BY <1>8, <2>2, <2>3, <2>4 DEF Steps
  <2> QED
    BY <1>5, <1>7, <1>12, <2>5 DEF SendRepay, storeVars
<1>13. ASSUME NEW i \in Indices, MineRepay(i) PROVE PayInv'
  <2>1. PICK step \in {"reverted", "mined"} : Attempt(i, step)
    BY <1>13 DEF MineRepay
  <2>2. /\ Listed(i) /\ query[i] \in signed /\ arrived[query[i]] = RequestAt(i)
        /\ minted' = minted \union {query[i]} /\ query' = query
    BY <1>1, <1>13 DEF MineRepay, AttemptInv
  <2>3. AttemptInv'
    BY <1>8, <2>1, <2>2 DEF Steps
  <2>4. orphans \union minted \subseteq signed /\ orphans' = orphans /\ status' = status
    BY <1>1, <1>13 DEF PayInv, MineRepay, storeVars
  <2>5. Kept'
    BY <1>6, <2>2, <2>4
  <2> QED
    BY <1>5, <2>3, <2>5
<1>14. ASSUME NEW i \in Indices, SetSucceeded(i) PROVE PayInv'
  <2>0. PICK r : r = RequestAt(i)
    OBVIOUS
  <2>1. /\ Attempt(i, "done") /\ query[i] \in minted /\ arrived[query[i]] = r
        /\ minted' = minted /\ orphans' = orphans /\ query' = query
        /\ status' = [status EXCEPT ![r] = "succeeded"]
    BY <1>1, <1>14, <2>0 DEF SetSucceeded, AttemptInv
  <2>2. AttemptInv'
    BY <1>8, <2>0, <2>1 DEF Steps
  <2>3. \A q \in Requests : q # r => status'[q] = status[q]
    BY <1>1, <2>1 DEF KeeperTypeOK
  <2>4. \A q \in Requests : q = r \/ Paid(q) => \E d \in minted' : arrived'[d] = q
    BY <1>3, <2>1 DEF Paid
  <2>5. SucceededIsPaid'
    BY <1>4, <2>3, <2>4 DEF Kept, SucceededIsPaid, Paid
  <2>6. Kept'
    BY <1>3, <1>4, <2>1, <2>5 DEF Kept
  <2> QED
    BY <1>5, <2>2, <2>6
<1>15. ASSUME NEW i \in Indices, AttemptLost(i) PROVE PayInv'
  <2>1. Attempt(i, "lost") /\ minted' = minted /\ query' = query /\ status' = status
    BY <1>15 DEF AttemptLost, storeVars
  <2>2. AttemptInv'
    BY <1>8, <2>1 DEF Steps
  <2>3. orphans' \union minted' \subseteq signed
    BY <1>1, <1>15, SignedDeposits DEF AttemptLost, PayInv
  <2>4. Kept'
    BY <1>6, <2>1, <2>3
  <2> QED
    BY <1>5, <2>2, <2>4
<1>16. CASE RecurseBatch
  <2>1. (\A i \in Indices : attempt'[i] \in {"loading", attempt[i]})
        /\ query' = query /\ minted' = minted
    BY <1>16 DEF RecurseBatch
  <2>2. AttemptInv'
    BY <1>1, <1>3, <2>1 DEF AttemptInv
  <2> QED
    BY <1>5, <1>7, <1>16, <2>2 DEF RecurseBatch, storeVars
<1>17. CASE EndSweep
  <2>1. AttemptInv'
    BY <1>17 DEF EndSweep, AttemptInv
  <2>2. orphans' \union minted' \subseteq signed /\ minted' = minted /\ status' = status
    BY <1>1, <1>17, SignedDeposits DEF EndSweep, PayInv, storeVars
  <2>3. Kept'
    BY <1>6, <2>2
  <2> QED
    BY <1>5, <2>1, <2>3
<1> QED
  BY <1>9, <1>10, <1>11, <1>12, <1>13, <1>14, <1>15, <1>16, <1>17 DEF Sweeping

LEMMA StepKeeperInv == KeeperInv /\ [Next]_vars => KeeperInv'
<1>1. KeeperInv /\ UNCHANGED vars => PayInv'
  <2> SUFFICES ASSUME KeeperInv, UNCHANGED vars PROVE PayInv'
    OBVIOUS
  <2>1. PayInv /\ arrived \in Seq(Requests)
    BY DEF KeeperInv, KeeperTypeOK
  <2> QED
    BY <2>1, OutsidePays DEF vars, bitcoinVars, PayInv
<1> QED
  BY <1>1, StepType, OutsideKeeps, ProcessKeeps, SweepKeeps DEF Next, KeeperInv

-----------------------------------------------------------------------------
(* The flag and the batches.                                               *)

LEMMA StepFlagInv == KeeperTypeOK /\ FlagInv /\ [Next]_vars => FlagInv'
<1> SUFFICES ASSUME KeeperTypeOK, FlagInv, [Next]_vars PROVE FlagInv'
  OBVIOUS
<1>1. execution \in [Executions -> {"none", "waiting", "lost"}]
  BY DEF KeeperTypeOK
<1>2. CASE UNCHANGED <<triggered, execution>>
  BY <1>2 DEF FlagInv, FirstExecutedOnce
<1>3. ASSUME NEW h \in Handlers, NEW d \in Deposits, Confirmation(h, d) PROVE FlagInv'
  <2> DEFINE e == <<h, d, Why(confirmations[d])>>
  <2>1. /\ e \in Executions
        /\ triggered' = TRUE
        /\ execution' = [execution EXCEPT ![e] = "waiting"]
    BY <1>3 DEF Confirmation, Executions, Why, Whys
  <2>2. e[3] = "first" => ~ triggered
    BY <1>3 DEF Confirmation, Why
  <2> HIDE DEF e
  <2>3. \A f \in Executions : f # e => execution'[f] = execution[f]
    BY <1>1, <2>1
  <2> QED
    BY <2>1, <2>2, <2>3 DEF FlagInv, FirstExecutedOnce
<1>4. ASSUME NEW e \in Executions, ExecutionLost(e) PROVE FlagInv'
  <2>1. execution[e] # "none" /\ triggered' = triggered
        /\ execution' = [execution EXCEPT ![e] = "lost"]
    BY <1>4 DEF ExecutionLost
  <2>2. \A f \in Executions : f # e => execution'[f] = execution[f]
    BY <1>1, <2>1
  <2> QED
    BY <2>1, <2>2 DEF FlagInv, FirstExecutedOnce
<1>5. CASE Crash
  BY <1>5 DEF Crash, FlagInv, FirstExecutedOnce
<1>6. ASSUME NEW d \in Deposits, Confirm(d) \/ Sign(d) \/ MineOrphan(d) PROVE FlagInv'
  BY <1>2, <1>6 DEF Confirm, Sign, MineOrphan, keeperVars
<1>7. ASSUME NEW r \in Requests, Arrive(r) PROVE FlagInv'
  BY <1>2, <1>7 DEF Arrive, keeperVars
<1>8. ASSUME NEW h \in Handlers, NEW r \in Requests, HandleTransferRequest(h, r) PROVE FlagInv'
  BY <1>2, <1>8 DEF HandleTransferRequest
<1>9. ASSUME NEW i \in Indices, Sweeping(i) \/ AttemptLost(i) PROVE FlagInv'
  BY <1>2, <1>9 DEF Sweeping, Load, CallStaticRepay, SendRepay, MineRepay, SetSucceeded,
                    AttemptLost, keeperVars
<1>10. ASSUME NEW size \in BatchSizes, BatchExecute(size) PROVE FlagInv'
  BY <1>2, <1>10 DEF BatchExecute, keeperVars
<1>11. ASSUME Run \/ RecurseBatch \/ EndSweep \/ UNCHANGED vars PROVE FlagInv'
  BY <1>2, <1>11 DEF Run, RecurseBatch, EndSweep, vars, keeperVars
<1> QED
  BY <1>3, <1>4, <1>5, <1>6, <1>7, <1>8, <1>9, <1>10, <1>11 DEF Next

\* An index that starts to load has not been tried in this run, or size is 0.
LEMMA StepSweepInv ==
    ASSUME KeeperTypeOK, SweepInv, [Next]_vars
    PROVE  /\ SweepInv'
           /\ \A i \in Indices :
                attempt'[i] = "loading" /\ attempt[i] # "loading" =>
                    attempt[i] = "none" \/ (sweep.size = 0 /\ attempt[i] \in Finished)
<1> USE KeeperAssumption
<1>1. /\ sweep \in Sweeps /\ attempt \in [Indices -> Steps]
      /\ sweep.batch \in Int /\ FirstIndex \in Nat
      /\ Indices \subseteq Int /\ NotANumber \in Indices /\ FirstIndex < NotANumber
  BY DEF KeeperTypeOK, Sweeps, Indices, NotANumber
<1>2. sweep.size = None \/ sweep.size \in Nat
  BY SizeIs
<1> DEFINE Goal == /\ SweepInv'
                   /\ \A i \in Indices :
                        attempt'[i] = "loading" /\ attempt[i] # "loading" =>
                            attempt[i] = "none" \/ (sweep.size = 0 /\ attempt[i] \in Finished)
<1>3. CASE UNCHANGED <<sweep, attempt>>
  BY <1>3 DEF SweepInv
<1>4. ASSUME NEW size \in BatchSizes, BatchExecute(size) PROVE Goal
  <2>1. /\ sweep' = [pc |-> "running", batch |-> FirstIndex, size |-> size]
        /\ \A i \in Indices : attempt[i] = "none"
        /\ \A i \in Indices : attempt'[i] \in {"none", "loading"}
        /\ \A i \in Indices : attempt'[i] = "loading" => i \in Batch(FirstIndex, size)
    BY <1>4 DEF BatchExecute, SweepInv
  <2>2. size # None => Batch(FirstIndex, size) = {FirstIndex}
    BY DEF Batch
  <2>3. SweepInv'
    BY <1>1, <2>1, <2>2 DEF SweepInv
  <2> QED
    BY <2>1, <2>3
<1>5. ASSUME NEW i \in Indices, Sweeping(i) \/ AttemptLost(i) PROVE Goal
  <2>1. PICK step \in Steps : Attempt(i, step) /\ step # "loading" /\ step # "none"
    BY <1>5 DEF Sweeping, Load, CallStaticRepay, SendRepay, MineRepay, SetSucceeded, AttemptLost,
                Steps
  <2>2. attempt'[i] = step /\ \A j \in Indices : j # i => attempt'[j] = attempt[j]
    BY <1>1, <2>1 DEF Attempt
  <2>3. attempt[i] # "none" /\ sweep.pc # "off" /\ sweep'.pc # "off"
        /\ sweep'.batch = sweep.batch /\ sweep'.size = sweep.size
    <3>1. attempt[i] # "none"
      BY <1>5 DEF Sweeping, Load, CallStaticRepay, SendRepay, MineRepay, SetSucceeded, AttemptLost
    <3>2. sweep' = sweep \/ sweep' = [sweep EXCEPT !.pc = "ending"]
      BY <1>5 DEF Sweeping, Load, CallStaticRepay, SendRepay, MineRepay, SetSucceeded, AttemptLost
    <3>3. sweep.pc # "off"
      BY <3>1 DEF SweepInv
    <3> QED
      BY <1>1, <3>1, <3>2, <3>3 DEF Sweeps
  <2>4. i = NotANumber => step = "missing"
    <3> SUFFICES ASSUME i = NotANumber PROVE Attempt(i, "missing")
      BY <1>1, <2>2 DEF Attempt
    <3>1. attempt[i] = "loading"
      BY <1>5, <2>3 DEF SweepInv, Sweeping, Load, CallStaticRepay, SendRepay, MineRepay,
                        SetSucceeded, AttemptLost
    <3>2. Load(i)
      BY <1>5, <3>1 DEF Sweeping, CallStaticRepay, SendRepay, MineRepay, SetSucceeded, AttemptLost
    <3> QED
      BY <3>2 DEF Load, Listed
  <2>5. attempt'[NotANumber] \in {"none", "loading", "missing"}
    BY <1>1, <2>2, <2>4 DEF SweepInv
  <2>6. SweepInv'
    BY <2>2, <2>3, <2>5 DEF SweepInv
  <2> QED
    BY <2>1, <2>2, <2>6
<1>6. CASE RecurseBatch
  <2> DEFINE next == NextBatch(sweep.batch, sweep.size)
  <2>1. /\ sweep.pc = "running" /\ \A i \in Indices : attempt[i] \in Finished
        /\ sweep' = [sweep EXCEPT !.batch = IF sweep.size = None THEN @ ELSE @ - sweep.size]
        /\ \A i \in Indices : attempt'[i] = IF i \in next THEN "loading" ELSE attempt[i]
    BY <1>6 DEF RecurseBatch
  <2>2. /\ sweep'.pc = "running" /\ sweep'.size = sweep.size
        /\ sweep'.batch = IF sweep.size = None THEN sweep.batch ELSE sweep.batch - sweep.size
    BY <1>1, <2>1 DEF Sweeps
  <2>3. attempt[NotANumber] = "none"
    BY <1>1, <2>1 DEF SweepInv, Finished
  <2>4. CASE sweep.size = None
    <3>1. next = {NotANumber}
      BY <2>4 DEF NextBatch
    <3> HIDE DEF next
    <3>2. SweepInv'
      BY <1>1, <2>1, <2>2, <2>4, <3>1 DEF SweepInv
    <3> QED
      BY <2>1, <2>3, <3>1, <3>2
  <2>5. CASE sweep.size # None
    <3>1. next = {sweep.batch - sweep.size} /\ sweep.size \in Nat
      BY <1>2, <2>5 DEF NextBatch, Batch
    <3> HIDE DEF next
    <3>2. /\ sweep.batch - sweep.size \in Int /\ sweep.batch - sweep.size <= sweep.batch
          /\ sweep.batch - sweep.size <= FirstIndex /\ NotANumber # sweep.batch - sweep.size
          /\ sweep.size # 0 => sweep.batch - sweep.size < sweep.batch
      BY <1>1, <3>1 DEF SweepInv
    <3>3. \A i \in Indices : attempt[i] # "none" => sweep.batch <= i
      BY <2>5 DEF SweepInv
    <3>4. \A i \in Indices : i \in next => attempt[i] = "none" \/ sweep.size = 0
      BY <1>1, <3>1, <3>2, <3>3
    <3>5. \A i \in Indices : attempt'[i] # "none" => sweep'.batch <= i
      BY <1>1, <2>1, <2>2, <2>5, <3>1, <3>2, <3>3
    <3>6. SweepInv'
      BY <1>1, <2>1, <2>2, <2>3, <2>5, <3>1, <3>2, <3>5 DEF SweepInv
    <3> QED
      BY <2>1, <3>4, <3>6
  <2> QED
    BY <2>4, <2>5
<1>7. CASE EndSweep
  <2>1. /\ \A i \in Indices : attempt'[i] = "none"
        /\ sweep'.batch = sweep.batch
    BY <1>1, <1>7 DEF EndSweep, Sweeps
  <2> QED
    BY <1>1, <2>1 DEF SweepInv
<1>8. ASSUME NEW e \in Executions, ExecutionLost(e) PROVE Goal
  BY <1>3, <1>8 DEF ExecutionLost, sweepVars
<1>9. ASSUME NEW d \in Deposits, Confirm(d) \/ Sign(d) \/ MineOrphan(d) PROVE Goal
  BY <1>3, <1>9 DEF Confirm, Sign, MineOrphan, sweepVars
<1>10. ASSUME NEW r \in Requests, Arrive(r) PROVE Goal
  BY <1>3, <1>10 DEF Arrive, sweepVars
<1>11. ASSUME NEW h \in Handlers,
              \/ \E r \in Requests : HandleTransferRequest(h, r)
              \/ \E d \in Deposits : Confirmation(h, d)
       PROVE  Goal
  BY <1>3, <1>11 DEF HandleTransferRequest, Confirmation, sweepVars
<1>12. ASSUME Crash \/ Run \/ UNCHANGED vars PROVE Goal
  BY <1>3, <1>12 DEF Crash, Run, vars, sweepVars
<1> QED
  BY <1>4, <1>5, <1>6, <1>7, <1>8, <1>9, <1>10, <1>11, <1>12 DEF Next

-----------------------------------------------------------------------------
(* The theorems.                                                           *)

\* No step of the keeper or of repay.js leaves the types: a transaction is
\* always sent for a deposit there is, and a status is one of two
\* (executeLoan, execute).
THEOREM KeeperTypeCorrect == Spec => []KeeperTypeOK
BY InitKeeperInv, StepKeeperInv, PTL DEF Spec, KeeperInv

\* Between two restarts one loan at most is executed at a count other than
\* LOAN_CONFIRMATION, for any number of requests, deposits and confirmations
\* (handleTransferRequest and its flag).
THEOREM FlagWorks == Spec => []FirstExecutedOnce
<1>1. KeeperInv => KeeperTypeOK
  BY DEF KeeperInv
<1>2. FlagInv => FirstExecutedOnce
  BY DEF FlagInv
<1> QED
  BY <1>1, <1>2, InitKeeperInv, StepKeeperInv, StepFlagInv, PTL DEF Spec

\* A repay transaction is for a deposit to the gateway of its own request that
\* RenVM has signed, those of dead processes included (execute of repay.js,
\* repay, waitForSignature).
THEOREM RepaysAreSigned == Spec => []RepayIsSigned
<1>1. KeeperInv => RepayIsSigned
  BY DEF KeeperInv, PayInv, AttemptInv, RepayIsSigned
<1> QED
  BY <1>1, InitKeeperInv, StepKeeperInv, PTL DEF Spec

\* A request whose status is "succeeded" has been paid (execute of repay.js).
THEOREM SucceededArePaid == Spec => []SucceededIsPaid
<1>1. KeeperInv => SucceededIsPaid
  BY DEF KeeperInv, PayInv
<1> QED
  BY <1>1, InitKeeperInv, StepKeeperInv, PTL DEF Spec

\* One run of repay.js tries an index once, for any batch size but 0 and any
\* store; with 0 it waits for each attempt to end (batchExecute).
THEOREM IndicesTriedInTurn == Spec => BatchesDisjoint
<1>1. KeeperTypeOK /\ SweepInv /\ [Next]_vars =>
        /\ SweepInv'
        /\ [\A i \in Indices :
               attempt'[i] = "loading" /\ attempt[i] # "loading" =>
                   \/ attempt[i] = "none"
                   \/ sweep.size = 0 /\ attempt[i] \in Finished]_vars
  BY StepSweepInv
<1>2. KeeperInv => KeeperTypeOK
  BY DEF KeeperInv
<1> QED
  BY <1>1, <1>2, InitKeeperInv, StepKeeperInv, PTL DEF Spec, BatchesDisjoint
=============================================================================
