------------------------------- MODULE EndToEnd ------------------------------
(***************************************************************************)
(* scripts/e2eTransaction.js: a user and a keeper in one process, who find *)
(* each other over the network, and the promises they wait for each other  *)
(* with.  main goes from await to await, handlePeer is called for a peer   *)
(* that libp2p discovered, keeperCallback for a request that was           *)
(* dispatched (lib/p2p/core.ts).                                           *)
(*                                                                         *)
(* The network, the nodes and RenVM are environment: a call of theirs is   *)
(* answered or fails, and what main waits for fails it.                    *)
(*                                                                         *)
(* The keeper's callback waits for the gateway's event "deposit".  The     *)
(* RenJS of package.json has no such event, so what is behind that await,  *)
(* the loan, the repayment and the end of completed, is never reached.     *)
(***************************************************************************)
EXTENDS Naturals, Sequences

VARIABLES
    mainAt,      \* what main waits for, or "exit 1"
    peerAt,      \* where handlePeer is; "none" before the first discovery
    callbackAt,  \* where keeperCallback is
    deferred,    \* the promise of handlePeer's is resolved
    subscribed,  \* the user hears announcements
    found        \* user.keepers has the keeper

scriptVars == <<mainAt, peerAt, callbackAt, deferred, subscribed, found>>

-----------------------------------------------------------------------------

\* What main awaits, in order.
Awaits ==
    <<"makeKeeper", "makeUser", "getSigner", "keeper.start", "user.start",
      "getCode", "sign", "toGatewayAddress", "completed">>

Position == CHOOSE i \in DOMAIN Awaits : Awaits[i] = mainAt

Running == mainAt # "exit 1"

\* main is past its await of step.
Past(step) ==
    /\ Running /\ mainAt # "mint"
    /\ \E i \in 1 .. Position - 1 : Awaits[i] = step

ScriptInit ==
    /\ mainAt = Awaits[1]
    /\ peerAt = "none"
    /\ callbackAt = "none"
    /\ deferred = FALSE
    /\ subscribed = FALSE
    /\ found = FALSE

\* Bug variant: deferred is resolved after completed was waited for.
MainAnsweredLate ==
    /\ Running /\ mainAt # "completed"
    /\ \/ mainAt' = "mint" /\ mainAt = "getCode"
       \/ mainAt' = "sign" /\ mainAt = "mint"
       \/ mainAt # "mint" /\ mainAt' = Awaits[Position + 1]
    /\ UNCHANGED <<peerAt, callbackAt, deferred, subscribed, found>>

\* An answer; the lock is minted only if it has no code, and deferred is
\* resolved when the gateway address is known.
MainAnswered ==
    /\ Running /\ mainAt # "completed"
    /\ \/ mainAt' = "mint" /\ mainAt = "getCode"
       \/ mainAt' = "sign" /\ mainAt = "mint"
       \/ mainAt # "mint" /\ mainAt' = Awaits[Position + 1]
    /\ deferred' = (deferred \/ mainAt' = "completed")
    /\ UNCHANGED <<peerAt, callbackAt, subscribed, found>>

MainRejected ==
    /\ Running /\ mainAt # "completed"
    /\ mainAt' = "exit 1"
    /\ UNCHANGED <<peerAt, callbackAt, deferred, subscribed, found>>

-----------------------------------------------------------------------------

\* Either node discovers the other; only the first time counts.
HandlePeer ==
    /\ Past("getSigner") /\ peerAt = "none"
    /\ peerAt' = "delay"
    /\ UNCHANGED <<mainAt, callbackAt, deferred, subscribed, found>>

\* The delay is over and deferred is resolved: waitForKeeper replaces push
\* and subscribes, without a pause.
WaitForKeeper ==
    /\ Running /\ peerAt = "delay" /\ deferred
    /\ peerAt' = "waitForKeeper"
    /\ subscribed' = TRUE
    /\ UNCHANGED <<mainAt, callbackAt, deferred, found>>

\* An announcement, sent every second, that arrives: the keeper is pushed if
\* it is not known, and the replaced push resolves waitForKeeper.
advertiseAsKeeper ==
    /\ Past("keeper.start") /\ subscribed /\ ~ found
    /\ found' = TRUE
    /\ peerAt' = IF peerAt = "waitForKeeper" THEN "publish" ELSE peerAt
    /\ UNCHANGED <<mainAt, callbackAt, deferred, subscribed>>

\* It asks for the gateway main has, which is cached, and listens.
keeperCallback == callbackAt' = "deposit"

\* publishTransferRequest dials the keepers it knows; the keeper stores the
\* request and calls back.
PublishRequest ==
    /\ Running /\ peerAt = "publish"
    /\ peerAt' = "published"
    /\ keeperCallback
    /\ UNCHANGED <<mainAt, deferred, subscribed, found>>

\* A dial that fails is logged, a stream may end: nobody is called back.
PublishRequestLost ==
    /\ Running /\ peerAt = "publish"
    /\ peerAt' = "lost"
    /\ UNCHANGED <<mainAt, callbackAt, deferred, subscribed, found>>

MainStep == MainAnswered \/ MainRejected
PeerStep == WaitForKeeper \/ PublishRequest \/ PublishRequestLost

ScriptNext == MainStep \/ PeerStep \/ HandlePeer \/ advertiseAsKeeper

-----------------------------------------------------------------------------

\* Once the two nodes have found each other, the request gets to the keeper,
\* whichever of the promises is waited for first: no party waits for what only
\* another one behind it would do, and no announcement comes too early.  Unless
\* a call of main's fails or the stream to the keeper does (main, handlePeer,
\* waitForKeeper, advertiseAsKeeper).
RequestGetsThrough ==
    (peerAt # "none") ~> (~ Running \/ peerAt = "lost" \/ callbackAt = "deposit")
=============================================================================
