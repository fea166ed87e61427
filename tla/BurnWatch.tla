----------------------------- MODULE BurnWatch -----------------------------
(***************************************************************************)
(* How a user follows a burn: waitForHostTransaction listens for the       *)
(* transaction a keeper sends, waitForRemoteTransaction polls for what     *)
(* RenVM pays on the other chain (lib/BurnRequest.ts).  The two chains and *)
(* the node that answers for them are environment.                         *)
(*                                                                         *)
(* A list of UTXOs has the order the explorers' library gives it, which    *)
(* need not be that of arrival nor the same in two answers: it is a set,   *)
(* and its last element is any.                                            *)
(***************************************************************************)
EXTENDS Integers, Sequences, FiniteSets

CONSTANTS
    Burns,       \* burn requests that are waited for
    Owners,
    Amounts,
    MaxBurnTxs,  \* bound on transactions of the controller
    MaxUtxos,    \* bound on the UTXOs that arrive on a chain
    MaxLost,     \* bound on calls of a node that fail
    Nothing, Listening, Failed

ASSUME BurnWatchAssumption ==
    /\ MaxBurnTxs \in Nat
    /\ MaxUtxos \in Nat
    /\ MaxLost \in Nat
    /\ {Nothing, Listening, Failed} \intersect Nat = {}
    /\ Nothing # Listening
    /\ Nothing # Failed
    /\ Listening # Failed

VARIABLES
    wanted,      \* the requests
    burnTxs,     \* transactions in which the controller burned, in order
    host,        \* waitForHostTransaction: Nothing, Listening or the transaction
    since,       \* transactions there were when it began to listen
    fetching,    \* transactions whose receipt it has asked for
    missed,      \* and those it did not get
    utxos,       \* by chain, those unspent, numbered as they arrived
    arrivals,    \* by chain, how many arrived so far
    counted,     \* waitForRemoteTransaction: Nothing, or the first count
    before,      \* by chain, arrivals when a request counted
    remote,      \* Nothing, Failed or the UTXO
    lost         \* calls that failed

hostVars == <<burnTxs, host, since, fetching, missed>>
remoteVars == <<utxos, arrivals, counted, before, remote>>
burnVars == <<wanted, hostVars, remoteVars, lost>>

-----------------------------------------------------------------------------

Networks == {"bitcoin", "zcash"}

\* A request: the asset is a token or ether; owner is an address with or
\* without its checksum; the destination starts with a t or not.
BurnRequests ==
    [owner : Owners, checksum : BOOLEAN, ether : BOOLEAN, amount : Amounts,
     destination : {"t-address", "other"}]

isZcashAddress(destination) == destination = "t-address"

getHandlerForDestinationChain(r) ==
    IF isZcashAddress(r.destination) THEN "zcash" ELSE "bitcoin"

\* renZEC or renBTC: the token whose burns are listened for.
getRenAssetName(r) == IF isZcashAddress(r.destination) THEN "renZEC" ELSE "renBTC"

getRenAsset(r) == [token |-> getRenAssetName(r), event |-> "Transfer to zero"]

BurnWatchStart(requests) ==
    /\ wanted = requests
    /\ burnTxs = <<>>
    /\ host = [b \in Burns |-> Nothing]
    /\ since = [b \in Burns |-> 0]
    /\ fetching = [b \in Burns |-> {}]
    /\ missed = [b \in Burns |-> {}]
    /\ utxos = [n \in Networks |-> {}]
    /\ arrivals = [n \in Networks |-> 0]
    /\ counted = [b \in Burns |-> Nothing]
    /\ before = [b \in Burns |-> 0]
    /\ remote = [b \in Burns |-> Nothing]
    /\ lost = 0

BurnWatchInit == \E requests \in [Burns -> BurnRequests] : BurnWatchStart(requests)

-----------------------------------------------------------------------------
(* The host chain.                                                         *)

\* The transaction that burns: the owner's own if it is ether, a keeper's
\* with a transfer of the owner's tokens if not, for a request that is waited
\* for or for another.  Both emit the event of the token that was burned.
BurnTx(r) ==
    /\ Len(burnTxs) < MaxBurnTxs
    /\ burnTxs' = Append(burnTxs,
         IF r.ether
         THEN [from |-> r.owner, value |-> r.amount, transfers |-> {},
               burned |-> getRenAsset(r)]
         ELSE [from |-> "keeper", value |-> 0, transfers |-> {<<r.owner, r.amount>>},
               burned |-> getRenAsset(r)])
    /\ UNCHANGED <<wanted, host, since, fetching, missed, remoteVars, lost>>

\* Bug variant: addresses of token owners are compared as text, too.
MatchesText(r, tx) ==
    /\ r.checksum
    /\ IF r.ether
       THEN tx.from = r.owner /\ tx.value = r.amount
       ELSE <<r.owner, r.amount>> \in tx.transfers

\* The listener's test.  An ether burn compares addresses as text; any
\* transfer of the amount from the owner counts otherwise.
Matches(r, tx) ==
    IF r.ether
    THEN tx.from = r.owner /\ r.checksum /\ tx.value = r.amount
    ELSE <<r.owner, r.amount>> \in tx.transfers

ListenHost(b) ==
    /\ host[b] = Nothing
    /\ host' = [host EXCEPT ![b] = Listening]
    /\ since' = [since EXCEPT ![b] = Len(burnTxs)]
    /\ UNCHANGED <<wanted, burnTxs, fetching, missed, remoteVars, lost>>

\* The transactions a listener is told of and has not looked at.
Pending(b) ==
    {t \in since[b] + 1 .. Len(burnTxs) :
        /\ burnTxs[t].burned = getRenAsset(wanted[b])
        /\ t \notin fetching[b] \union missed[b]}

\* The listener is called and asks for the receipt.
HearBurn(b, t) ==
    /\ host[b] = Listening
    /\ t \in Pending(b)
    /\ fetching' = [fetching EXCEPT ![b] = @ \union {t}]
    /\ UNCHANGED <<wanted, burnTxs, host, since, missed, remoteVars, lost>>

\* The receipt arrives, perhaps after that of a later transaction or after
\* the promise was resolved.
ReceiptArrives(b, t) ==
    /\ t \in fetching[b] \ missed[b]
    /\ missed' = [missed EXCEPT ![b] = @ \union {t}]
    /\ host' = IF host[b] = Listening /\ Matches(wanted[b], burnTxs[t])
               THEN [host EXCEPT ![b] = t] ELSE host
    /\ UNCHANGED <<wanted, burnTxs, since, fetching, remoteVars, lost>>

\* The call rejects, which is logged: the listener will not look again.
ReceiptLost(b, t) ==
    /\ t \in fetching[b] \ missed[b]
    /\ lost < MaxLost
    /\ lost' = lost + 1
    /\ missed' = [missed EXCEPT ![b] = @ \union {t}]
    /\ UNCHANGED <<wanted, burnTxs, host, since, fetching, remoteVars>>

-----------------------------------------------------------------------------
(* The other chain.                                                        *)

UtxoArrives(n) ==
    /\ arrivals[n] < MaxUtxos
    /\ arrivals' = [arrivals EXCEPT ![n] = @ + 1]
    /\ utxos' = [utxos EXCEPT ![n] = @ \union {arrivals[n] + 1}]
    /\ UNCHANGED <<wanted, hostVars, counted, before, remote, lost>>

UtxoSpent(n) ==
    /\ \E output \in utxos[n] : utxos' = [utxos EXCEPT ![n] = @ \ {output}]
    /\ UNCHANGED <<wanted, hostVars, arrivals, counted, before, remote, lost>>

\* The first call of getUTXOs, which rejects the promise if it fails.
CountUtxos(b) ==
    LET n == getHandlerForDestinationChain(wanted[b]) IN
    /\ counted[b] = Nothing
    /\ remote[b] = Nothing
    /\ counted' = [counted EXCEPT ![b] = Cardinality(utxos[n])]
    /\ before' = [before EXCEPT ![b] = arrivals[n]]
    /\ UNCHANGED <<wanted, hostVars, utxos, arrivals, remote, lost>>

CountFails(b) ==
    /\ counted[b] = Nothing
    /\ remote[b] = Nothing
    /\ lost < MaxLost
    /\ lost' = lost + 1
    /\ remote' = [remote EXCEPT ![b] = Failed]
    /\ UNCHANGED <<wanted, hostVars, utxos, arrivals, counted, before>>

\* Bug variant: a list of the same length counts as longer.
PollAsLong(b) ==
    LET list == utxos[getHandlerForDestinationChain(wanted[b])] IN
    /\ counted[b] # Nothing
    /\ remote[b] = Nothing
    /\ Cardinality(list) >= counted[b]
    /\ \E last \in list : remote' = [remote EXCEPT ![b] = last]
    /\ UNCHANGED <<wanted, hostVars, utxos, arrivals, counted, before, lost>>

\* A later call, whose list is longer: its last output is the answer.  A call
\* that fails is logged and made again.
Poll(b) ==
    LET list == utxos[getHandlerForDestinationChain(wanted[b])] IN
    /\ counted[b] # Nothing
    /\ remote[b] = Nothing
    /\ Cardinality(list) > counted[b]
    /\ \E last \in list : remote' = [remote EXCEPT ![b] = last]
    /\ UNCHANGED <<wanted, hostVars, utxos, arrivals, counted, before, lost>>

HostNext ==
    \/ \E r \in BurnRequests : BurnTx(r)
    \/ \E b \in Burns :
         \/ ListenHost(b)
         \/ \E t \in 1 .. MaxBurnTxs :
              HearBurn(b, t) \/ ReceiptArrives(b, t) \/ ReceiptLost(b, t)

RemoteNext ==
    \/ \E b \in Burns : CountUtxos(b) \/ CountFails(b) \/ Poll(b)
    \/ \E n \in Networks : UtxoArrives(n) \/ UtxoSpent(n)

\* Events are delivered and calls are answered.
Hearing == \E b \in Burns, t \in 1 .. MaxBurnTxs : HearBurn(b, t) \/ ReceiptArrives(b, t)

-----------------------------------------------------------------------------
(* Properties.                                                             *)

\* What a burn of a request looks like on chain.
IsBurnOf(r, tx) ==
    /\ tx.burned = getRenAsset(r)
    /\ IF r.ether THEN tx.from = r.owner /\ tx.value = r.amount
       ELSE <<r.owner, r.amount>> \in tx.transfers

\* A burn that is mined while a wait for it is on ends the wait, whatever
\* other burns of the controller are heard at the same time, unless a receipt
\* could not be got or the request names the payer of ether without the
\* checksum (waitForHostTransaction).
BurnHeard ==
    \A b \in Burns :
        (/\ host[b] = Listening
         /\ wanted[b].ether => wanted[b].checksum
         /\ \E t \in since[b] + 1 .. Len(burnTxs) : IsBurnOf(wanted[b], burnTxs[t]))
            ~> (host[b] \in Nat \/ lost > 0)

\* waitForRemoteTransaction does not return before an output has arrived that
\* was not there when it first counted, whatever arrived, was counted and was
\* spent before and since.  That the output it returns is that one is not said:
\* it is the last of the list (waitForRemoteTransaction).
RemoteNotEarly ==
    \A b \in Burns :
        remote[b] \in Nat =>
            arrivals[getHandlerForDestinationChain(wanted[b])] > before[b]
=============================================================================
