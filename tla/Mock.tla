-------------------------------- MODULE Mock --------------------------------
(***************************************************************************)
(* The runtime that replaces the network and RenVM in tests and in demos   *)
(* (lib/mock.ts): publishing calls the dispatchers of the keepers of this  *)
(* process, and timers play the deposit, its confirmations and RenVM's     *)
(* signature.                                                              *)
(*                                                                         *)
(* Timers of one gateway fire in the order of their delays (the deposit at *)
(* 5 s lies between the second confirmation, 4.1 s, and the third, 6.1 s). *)
(* A call of the chain takes any time, so nothing is assumed of the order  *)
(* of timers and answers.                                                  *)
(***************************************************************************)
EXTENDS Integers, Sequences, FiniteSets

CONSTANTS
    MockKeepers,      \* keepers createMockKeeper made
    MockRequests,     \* [signature, requestType]
    MaxPublications   \* bound on publications

ASSUME MockAssumption ==
    /\ MaxPublications \in Nat
    /\ \A q, r \in MockRequests : q.signature = r.signature => q.requestType = r.requestType

VARIABLES
    publications,   \* requests published: [request, stage]
    pending,        \* by signature, the publication whose emitter updates go to; 0 none
    dispatches,     \* <<publication, keeper>> -> what the dispatcher does
    updates,        \* updates emitted: [by, of, to]
    timers,         \* timers of subscribeKeepers that run
    testKeeper           \* keepers a user has: how often the test keeper is listed

mockVars == <<publications, pending, dispatches, updates, timers, testKeeper>>

-----------------------------------------------------------------------------

target == 6
Signatures == {r.signature : r \in MockRequests}
Requested(d) == publications[d[1]].request
IsTransfer(d) == Requested(d).requestType = "TRANSFER"

\* The dispatcher's request, trivial, as it is made: with the class's own
\* waitForSignature, and with no gateway.
Trivial ==
    [stage |-> "dry", confirmations |-> 0, deposit |-> FALSE, repay |-> "none",
     waitForSignature |-> "transaction"]

MockInit ==
    /\ publications = <<>>
    /\ pending = [s \in Signatures |-> 0]
    /\ dispatches = <<>>
    /\ updates = <<>>
    /\ timers = 0
    /\ testKeeper = 0

\* Both calls add the keeper if both tested before the first timer fired.
subscribeKeepers ==
    /\ testKeeper = 0 /\ timers < 2
    /\ timers' = timers + 1
    /\ UNCHANGED <<publications, pending, dispatches, updates, testKeeper>>

KeeperFound ==
    /\ timers > 0
    /\ timers' = timers - 1
    /\ testKeeper' = testKeeper + 1
    /\ UNCHANGED <<publications, pending, dispatches, updates>>

\* p's request goes to every keeper's dispatcher.
Dispatched(p) ==
    dispatches' = [d \in DOMAIN dispatches \union ({p} \X MockKeepers) |->
                     IF d \in DOMAIN dispatches THEN dispatches[d] ELSE Trivial]

\* A transfer is dispatched half a second later; the caller has its emitter
\* at once, and an earlier one of the same request hears nothing any more.
publishTransferRequest(r) ==
    /\ r.requestType = "TRANSFER" /\ Len(publications) < MaxPublications
    /\ publications' = Append(publications, [request |-> r, stage |-> "timer"])
    /\ pending' = [pending EXCEPT ![r.signature] = Len(publications')]
    /\ UNCHANGED <<dispatches, updates, timers, testKeeper>>

TransferTimer(p) ==
    /\ publications[p].stage = "timer"
    /\ publications' = [publications EXCEPT ![p].stage = "returned"]
    /\ Dispatched(p)
    /\ UNCHANGED <<pending, updates, timers, testKeeper>>

\* publishMetaRequest and publishBurnRequest dispatch at once.
publishMetaRequest(r) ==
    /\ r.requestType # "TRANSFER" /\ Len(publications) < MaxPublications
    /\ publications' = Append(publications, [request |-> r, stage |-> "dispatching"])
    /\ Dispatched(Len(publications'))
    /\ UNCHANGED <<pending, updates, timers, testKeeper>>

\* Their emitter is there when every dispatcher is done or one has failed.
MetaReturns(p) ==
    LET stages == {dispatches[<<p, k>>].stage : k \in MockKeepers}
    IN /\ publications[p].stage = "dispatching"
       /\ stages \subseteq {"executed"} \/ "failed" \in stages
       /\ publications' = [publications EXCEPT ![p].stage = "returned"]
       /\ pending' = [pending EXCEPT ![publications[p].request.signature] = p]
       /\ UNCHANGED <<dispatches, updates, timers, testKeeper>>

-----------------------------------------------------------------------------
(* createMockKeeper's dispatcher.                                          *)

\* The update goes to the request's emitter of that moment, if it has one.
Emit(d, of) ==
    updates' = Append(updates, [by |-> d, of |-> of, to |-> pending[Requested(d).signature]])

\* The static call answers or fails, which is logged.  A transfer then waits
\* for the mint; any other request is executed.
Dry(d) ==
    /\ dispatches[d].stage = "dry"
    /\ dispatches' = [dispatches EXCEPT
                        ![d].stage = IF IsTransfer(d) THEN "minting" ELSE "executing"]
    /\ UNCHANGED <<publications, pending, updates, timers, testKeeper>>

\* submitToRenVM's timer for the deposit: waitForMint returns, the request is
\* executed, and only now are confirmations listened to.
Deposit(d) ==
    /\ dispatches[d].stage = "minting" /\ dispatches[d].confirmations = 2
    /\ dispatches' = [dispatches EXCEPT ![d].stage = "executing", ![d].deposit = TRUE]
    /\ UNCHANGED <<publications, pending, updates, timers, testKeeper>>

\* Its timer for a confirmation; the last one has a repay follow.
Confirmation(d) ==
    LET n == dispatches[d].confirmations + 1
    IN /\ IsTransfer(d) /\ dispatches[d].stage # "dry"
       /\ n <= target /\ (n = 3 => dispatches[d].deposit)
       /\ dispatches' = [dispatches EXCEPT
            ![d].confirmations = n,
            ![d].repay = IF n = target /\ dispatches[d].deposit THEN "timer" ELSE @]
       /\ UNCHANGED <<publications, pending, updates, timers, testKeeper>>

\* trivial[func] is answered: the signature is mocked from here on, and the
\* update is sent.
Execute(d) ==
    /\ dispatches[d].stage = "executing"
    /\ dispatches' = [dispatches EXCEPT ![d].stage = "executed",
                                        ![d].waitForSignature = "mocked"]
    /\ Emit(d, "execution")
    /\ UNCHANGED <<publications, pending, timers, testKeeper>>

ExecuteFails(d) ==
    /\ dispatches[d].stage = "executing"
    /\ dispatches' = [dispatches EXCEPT ![d].stage = "failed"]
    /\ UNCHANGED <<publications, pending, updates, timers, testKeeper>>

\* Bug variant: the signature is mocked for every request, whenever it is asked.
RepayMocked(d) ==
    /\ dispatches[d].repay = "timer"
    /\ dispatches' = [dispatches EXCEPT ![d].repay = "signed"]
    /\ UNCHANGED <<publications, pending, updates, timers, testKeeper>>

\* repay asks for the signature.  One that is not mocked submits to the
\* mocked RenVM again and waits for a transaction event, which that never
\* emits.
Repay(d) ==
    /\ dispatches[d].repay = "timer"
    /\ dispatches' = [dispatches EXCEPT
         ![d].repay = IF dispatches[d].waitForSignature = "mocked" THEN "signed" ELSE "waiting"]
    /\ UNCHANGED <<publications, pending, updates, timers, testKeeper>>

Repaid(d) ==
    /\ dispatches[d].repay = "signed"
    /\ dispatches' = [dispatches EXCEPT ![d].repay = "sent"]
    /\ Emit(d, "repay")
    /\ UNCHANGED <<publications, pending, timers, testKeeper>>

MockNext ==
    \/ subscribeKeepers
    \/ KeeperFound
    \/ \E r \in MockRequests : publishTransferRequest(r) \/ publishMetaRequest(r)
    \/ \E p \in DOMAIN publications : TransferTimer(p) \/ MetaReturns(p)
    \/ \E d \in DOMAIN dispatches :
         Dry(d) \/ Deposit(d) \/ Confirmation(d) \/ Execute(d) \/ ExecuteFails(d)
           \/ Repay(d) \/ Repaid(d)

-----------------------------------------------------------------------------

\* What a dispatcher repays it has lent: the update of a repay follows that of
\* the same keeper's loan for the same publication, however slowly the chain
\* answers.  And both reach the emitter that publishing that transfer gave its
\* caller, or that of a later publication (waitForMint against
\* createMockKeeper, publishTransferRequest).
RepayFollowsLoan ==
    \A i \in DOMAIN updates :
        /\ updates[i].of = "repay" =>
             \E j \in 1 .. i - 1 : updates[j].of = "execution" /\ updates[j].by = updates[i].by
        /\ IsTransfer(updates[i].by) => updates[i].to >= updates[i].by[1]
=============================================================================
