---------------------------- MODULE ZeroNetwork -----------------------------
(***************************************************************************)
(* How a request gets from a user to keepers: ZeroUser and ZeroKeeper of   *)
(* lib/p2p/core.ts over libp2p, which lives outside the repository.        *)
(*                                                                         *)
(* Keepers announce themselves once a second on a pubsub topic.  A user    *)
(* who publishes a request stores it and dials the keepers it knows one    *)
(* after the other; a keeper stores what it is sent and hands it to its    *)
(* dispatcher.  Both are event loops: one action is the code between two   *)
(* awaits.  Announcements, dials and streams may be lost.  The stores are  *)
(* sets here; RequestStore models them.                                    *)
(***************************************************************************)
EXTENDS Integers, Sequences, SequencesExt

CONSTANTS
    Keepers,
    Requests,
    MaxPublishes,     \* bound on the publications of one request
    MaxSubscriptions, \* bound on the calls of subscribeKeepers
    MaxKnown,         \* bound on the length of the list of keepers
    Live              \* a loop over the user's current list

ASSUME NetworkAssumption ==
    /\ MaxPublishes \in Nat
    /\ MaxSubscriptions \in Nat
    /\ MaxKnown \in Nat
    /\ Live \notin Seq(Keepers)

VARIABLES
    keepers,       \* this.keepers
    subscription,  \* "off", "on", or "ending" while unsubscribing
    subscriptions, \* calls of subscribeKeepers
    publish,       \* where publishRequest is, per request
    published,     \* publications so far, per request
    userStored,    \* requests in the user's store
    streams,       \* streams on their way to a keeper, per request and keeper
    storing,       \* dispatch handlers waiting for the keeper's store
    keeperStored,  \* requests in every keeper's store
    accepted       \* times the dispatcher was called without an error

vars == <<keepers, subscription, subscriptions, publish, published, userStored,
          streams, storing, keeperStored, accepted>>

NotPublishing == [pc |-> "idle", list |-> <<>>, next |-> 0, known |-> {}, dialed |-> {}]

Zero == [r \in Requests |-> [k \in Keepers |-> 0]]

Init ==
    /\ keepers = <<>>
    /\ subscription = "off"
    /\ subscriptions = 0
    /\ publish = [r \in Requests |-> NotPublishing]
    /\ published = [r \in Requests |-> 0]
    /\ userStored = {}
    /\ streams = Zero
    /\ storing = Zero
    /\ keeperStored = [k \in Keepers |-> {}]
    /\ accepted = Zero

Plus(f, r, k, n) == [f EXCEPT ![r][k] = @ + n]

-----------------------------------------------------------------------------
(* The user's list of keepers.                                             *)

\* Not called while an unsubscribe is under way.
SubscribeKeepers ==
    /\ subscription # "ending"
    /\ subscriptions < MaxSubscriptions
    /\ subscriptions' = subscriptions + 1
    /\ subscription' = "on"
    /\ UNCHANGED <<keepers, publish, published, userStored, streams, storing,
                   keeperStored, accepted>>

\* Bug variant: a keeper is added for every announcement.
IsNewAlways(k) == TRUE

IsNew(k) == ~ Contains(keepers, k)

\* An announcement of k arrives.
Announce(k) ==
    /\ subscription # "off"
    /\ IsNew(k)
    /\ Len(keepers) < MaxKnown
    /\ keepers' = Append(keepers, k)
    /\ UNCHANGED <<subscription, subscriptions, publish, published, userStored,
                   streams, storing, keeperStored, accepted>>

Unsubscribe ==
    /\ subscription = "on"
    /\ subscription' = "ending"
    /\ UNCHANGED <<keepers, subscriptions, publish, published, userStored, streams,
                   storing, keeperStored, accepted>>

\* Bug variant: running loops go over the new list.
KeepLists == publish

\* A loop that is running keeps the list it started with.
FreezeLists ==
    [r \in Requests |-> IF publish[r].list = Live THEN [publish[r] EXCEPT !.list = keepers]
                                                  ELSE publish[r]]

\* unsubscribe answered, or failed and left the topic on: either way the
\* user starts a new list.
Unsubscribed ==
    /\ subscription = "ending"
    /\ subscription' \in {"off", "on"}
    /\ publish' = FreezeLists
    /\ keepers' = <<>>
    /\ UNCHANGED <<subscriptions, published, userStored, streams, storing,
                   keeperStored, accepted>>

-----------------------------------------------------------------------------
(* publishRequest: store the request, then dial.                           *)

ListOf(r) == IF publish[r].list = Live THEN keepers ELSE publish[r].list

\* One publication of a request at a time; a caller may publish it again.
Publish(r) ==
    /\ publish[r].pc \in {"idle", "done"}
    /\ published[r] < MaxPublishes
    /\ published' = [published EXCEPT ![r] = @ + 1]
    /\ publish' = [publish EXCEPT ![r] = [NotPublishing EXCEPT !.pc = "storing"]]
    /\ UNCHANGED <<keepers, subscription, subscriptions, userStored, streams,
                   storing, keeperStored, accepted>>

\* The store answered.  Without keepers the request goes nowhere.
UserStored(r) ==
    /\ publish[r].pc = "storing"
    /\ userStored' = userStored \union {r}
    /\ publish' = [publish EXCEPT ![r] =
                     IF keepers = <<>>
                     THEN [@ EXCEPT !.pc = "done"]
                     ELSE [@ EXCEPT !.pc = "dialing", !.list = Live, !.next = 1,
                                    !.known = ToSet(keepers)]]
    /\ UNCHANGED <<keepers, subscription, subscriptions, published, streams,
                   storing, keeperStored, accepted>>

\* The store rejected, and publishRequest with it.
UserStoreFailed(r) ==
    /\ publish[r].pc = "storing"
    /\ publish' = [publish EXCEPT ![r].pc = "done"]
    /\ UNCHANGED <<keepers, subscription, subscriptions, published, userStored,
                   streams, storing, keeperStored, accepted>>

\* The loop moves on: the list is read again for its length.
Advance(r, k) ==
    LET p == publish[r] IN
    [publish EXCEPT ![r] =
        IF p.next = Len(ListOf(r))
        THEN [NotPublishing EXCEPT !.pc = "done", !.known = p.known,
                                   !.dialed = p.dialed \union {k}]
        ELSE [p EXCEPT !.next = p.next + 1, !.dialed = p.dialed \union {k}]]

\* A dial succeeds and the request is written to the stream.
Dialed(r) ==
    LET k == ListOf(r)[publish[r].next] IN
    /\ publish[r].pc = "dialing"
    /\ publish' = Advance(r, k)
    /\ streams' = Plus(streams, r, k, 1)
    /\ UNCHANGED <<keepers, subscription, subscriptions, published, userStored,
                   storing, keeperStored, accepted>>

\* Bug variant: a failed dial ends the loop.
DialFailedEnds(r) ==
    /\ publish[r].pc = "dialing"
    /\ publish' = [publish EXCEPT ![r] = [NotPublishing EXCEPT !.pc = "done",
                                            !.known = publish[r].known,
                                            !.dialed = publish[r].dialed]]
    /\ UNCHANGED <<keepers, subscription, subscriptions, published, userStored,
                   streams, storing, keeperStored, accepted>>

\* A dial fails and is only logged.
DialFailed(r) ==
    LET k == ListOf(r)[publish[r].next] IN
    /\ publish[r].pc = "dialing"
    /\ publish' = Advance(r, k)
    /\ UNCHANGED <<keepers, subscription, subscriptions, published, userStored,
                   streams, storing, keeperStored, accepted>>

-----------------------------------------------------------------------------
(* A keeper's dispatch handler.                                            *)

\* A stream arrives whole and the handler stores its request.
Dispatch(r, k) ==
    /\ streams[r][k] > 0
    /\ streams' = Plus(streams, r, k, -1)
    /\ storing' = Plus(storing, r, k, 1)
    /\ UNCHANGED <<keepers, subscription, subscriptions, publish, published,
                   userStored, keeperStored, accepted>>

\* A stream breaks before its end.
StreamLost(r, k) ==
    /\ streams[r][k] > 0
    /\ streams' = Plus(streams, r, k, -1)
    /\ UNCHANGED <<keepers, subscription, subscriptions, publish, published,
                   userStored, storing, keeperStored, accepted>>

\* Bug variant: an error of the store is not passed on.
KeeperStoreErrorIgnored(r, k) ==
    /\ storing[r][k] > 0
    /\ storing' = Plus(storing, r, k, -1)
    /\ accepted' = Plus(accepted, r, k, 1)
    /\ UNCHANGED <<keepers, subscription, subscriptions, publish, published,
                   userStored, streams, keeperStored>>

\* The store answered and the dispatcher is called.
KeeperStored(r, k) ==
    /\ storing[r][k] > 0
    /\ storing' = Plus(storing, r, k, -1)
    /\ keeperStored' = [keeperStored EXCEPT ![k] = @ \union {r}]
    /\ accepted' = Plus(accepted, r, k, 1)
    /\ UNCHANGED <<keepers, subscription, subscriptions, publish, published,
                   userStored, streams>>

\* The store rejected: the dispatcher is called with the error and ignores
\* the request (scripts/keeper.js).  A keeper that stops loses its handlers
\* the same way.
KeeperStoreFailed(r, k) ==
    /\ storing[r][k] > 0
    /\ storing' = Plus(storing, r, k, -1)
    /\ UNCHANGED <<keepers, subscription, subscriptions, publish, published,
                   userStored, streams, keeperStored, accepted>>

-----------------------------------------------------------------------------

Next ==
    \/ SubscribeKeepers
    \/ \E k \in Keepers : Announce(k)
    \/ Unsubscribe
    \/ Unsubscribed
    \/ \E r \in Requests :
         \/ Publish(r)
         \/ UserStored(r)
         \/ UserStoreFailed(r)
         \/ Dialed(r)
         \/ DialFailed(r)
         \/ \E k \in Keepers :
              \/ Dispatch(r, k)
              \/ StreamLost(r, k)
              \/ KeeperStored(r, k)
              \/ KeeperStoreFailed(r, k)

Spec == Init /\ [][Next]_vars

-----------------------------------------------------------------------------
(* Properties.                                                             *)

\* Type invariant.
TypeOK ==
    /\ keepers \in Seq(Keepers)
    /\ subscription \in {"off", "on", "ending"}
    /\ subscriptions \in 0 .. MaxSubscriptions
    /\ publish \in [Requests -> [pc : {"idle", "storing", "dialing", "done"},
                                 list : Seq(Keepers) \union {Live}, next : Nat,
                                 known : SUBSET Keepers, dialed : SUBSET Keepers]]
    /\ \A r \in Requests :
         publish[r].pc = "dialing" => publish[r].next \in 1 .. Len(ListOf(r))
    /\ published \in [Requests -> 0 .. MaxPublishes]
    /\ userStored \subseteq Requests
    /\ {streams, storing, accepted} \subseteq [Requests -> [Keepers -> Nat]]
    /\ keeperStored \in [Keepers -> SUBSET Requests]

\* A keeper is handed a request at most once per publication, although the
\* loop runs over a list that announcements extend and unsubscribing replaces
\* (subscribeKeepers, publishRequest).
OncePerPublication ==
    \A r \in Requests, k \in Keepers :
        streams[r][k] + storing[r][k] + accepted[r][k] <= published[r]

\* A request some keeper's dispatcher acts on is in the store of that keeper
\* and in that of the user, so both can pick it up again after a restart
\* (publishRequest, setTxDispatcher).
AcceptedIsStored ==
    \A r \in Requests, k \in Keepers :
        accepted[r][k] > 0 => r \in keeperStored[k] /\ r \in userStored

\* A publication that is done has dialed every keeper the user knew when it
\* started to dial, unsubscribing in between included (publishRequest).
AllKnownDialed ==
    \A r \in Requests :
        publish[r].pc = "done" => publish[r].known \subseteq publish[r].dialed
=============================================================================
