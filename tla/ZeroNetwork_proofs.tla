------------------------- MODULE ZeroNetwork_proofs -------------------------
(***************************************************************************)
(* Proofs about the network of users and keepers for any keepers, requests *)
(* and bounds: the type invariant, that a publication hands a keeper its   *)
(* request once, that nothing is acted on that is not stored, and that no  *)
(* keeper a publication knew is skipped.                                   *)
(***************************************************************************)
EXTENDS ZeroNetwork, TLAPS

Count(r, k) == streams[r][k] + storing[r][k] + accepted[r][k]

Distinct(list) == \A i, j \in 1 .. Len(list) : list[i] = list[j] => i = j

\* A loop has dialed exactly what lies before next in its list.  Who it has
\* not dialed has one publication of the request less than there were.
Dialing(r) ==
    LET p == publish[r] IN
    /\ r \in userStored
    /\ \A k \in Keepers :
         (\A i \in 1 .. p.next - 1 : ListOf(r)[i] # k) => Count(r, k) < published[r]
    /\ \A k \in p.known : \E i \in 1 .. Len(ListOf(r)) : ListOf(r)[i] = k
    /\ \A i \in 1 .. p.next - 1 : ListOf(r)[i] \in p.dialed

\* The inductive invariant of one request.
RequestInv(r) ==
    /\ Distinct(ListOf(r))
    /\ publish[r].pc = "storing" =>
         publish[r].known = {} /\ \A k \in Keepers : Count(r, k) < published[r]
    /\ publish[r].pc = "dialing" => Dialing(r)
    /\ publish[r].pc = "done" => publish[r].known \subseteq publish[r].dialed
    /\ \A k \in Keepers :
         /\ Count(r, k) <= published[r]
         /\ streams[r][k] + storing[r][k] > 0 => r \in userStored
         /\ accepted[r][k] > 0 => r \in keeperStored[k] /\ r \in userStored

NetworkInv ==
    /\ TypeOK
    /\ Distinct(keepers)
    /\ \A r \in Requests : RequestInv(r)

Publication ==
    [pc : {"idle", "storing", "dialing", "done"}, list : Seq(Keepers) \union {Live},
     next : Nat, known : SUBSET Keepers, dialed : SUBSET Keepers]

-----------------------------------------------------------------------------
(* Lists and counters.                                                     *)

LEMMA EmptyList == <<>> \in Seq(Keepers) /\ Len(<<>>) = 0 /\ Distinct(<<>>)
BY DEF Distinct

LEMMA NotPublishingOK == NotPublishing \in Publication
BY EmptyList DEF NotPublishing, Publication

\* A list of keepers is Live or one, never both.
LEMMA ListOfType ==
    ASSUME TypeOK, NEW r \in Requests
    PROVE  /\ publish[r] \in Publication
           /\ ListOf(r) \in Seq(Keepers)
           /\ publish[r].pc = "dialing" => publish[r].next \in 1 .. Len(ListOf(r))
BY DEF TypeOK, Publication, ListOf

LEMMA CounterType ==
    \A f \in [Requests -> [Keepers -> Nat]] : \A r \in Requests, k \in Keepers : f[r][k] \in Nat
OBVIOUS

\* Counting up or down changes one counter.
LEMMA PlusCounts ==
    ASSUME NEW f \in [Requests -> [Keepers -> Nat]], NEW r \in Requests,
           NEW k \in Keepers, NEW n \in Int, f[r][k] + n \in Nat
    PROVE  /\ Plus(f, r, k, n) \in [Requests -> [Keepers -> Nat]]
           /\ Plus(f, r, k, n)[r][k] = f[r][k] + n
           /\ \A q \in Requests, l \in Keepers :
                q # r \/ l # k => Plus(f, r, k, n)[q][l] = f[q][l]
<1>1. f[r] \in [Keepers -> Nat]
  OBVIOUS
<1>2. [f[r] EXCEPT ![k] = @ + n] \in [Keepers -> Nat]
  BY <1>1
<1>3. Plus(f, r, k, n) = [f EXCEPT ![r] = [f[r] EXCEPT ![k] = @ + n]]
  BY DEF Plus
<1> QED
  BY <1>1, <1>2, <1>3

\* A step that leaves a request's publication and counters alone, or only
\* stores more, keeps its invariant.
LEMMA OthersKeep ==
    ASSUME NEW r \in Requests, RequestInv(r), keepers' = keepers,
           publish'[r] = publish[r], published'[r] = published[r],
           \A k \in Keepers : /\ streams'[r][k] = streams[r][k]
                              /\ storing'[r][k] = storing[r][k]
                              /\ accepted'[r][k] = accepted[r][k]
                              /\ keeperStored[k] \subseteq keeperStored'[k],
           userStored \subseteq userStored'
    PROVE  RequestInv(r)'
<1>1. ListOf(r)' = ListOf(r)
  BY DEF ListOf
<1>2. \A k \in Keepers : Count(r, k)' = Count(r, k)
  BY DEF Count
<1>3. publish[r].pc = "dialing" => Dialing(r)'
  BY <1>1, <1>2 DEF RequestInv, Dialing
<1> QED
  BY <1>1, <1>2, <1>3 DEF RequestInv

-----------------------------------------------------------------------------
(* The initial states and the user's list.                                 *)

LEMMA ZeroType == Zero \in [Requests -> [Keepers -> Nat]]
BY DEF Zero

LEMMA InitNetworkInv == Init => NetworkInv
<1> SUFFICES ASSUME Init PROVE NetworkInv
  OBVIOUS
<1>1. TypeOK
  <2>1. publish \in [Requests -> Publication]
    BY NotPublishingOK DEF Init
  <2>2. \A r \in Requests : publish[r].pc = "idle"
    BY DEF Init, NotPublishing
  <2> QED
    BY <2>1, <2>2, EmptyList, ZeroType, NetworkAssumption DEF Init, TypeOK, Publication
<1>2. Distinct(keepers)
  BY EmptyList DEF Init
<1>3. ASSUME NEW r \in Requests PROVE RequestInv(r)
  <2>1. publish[r].pc = "idle" /\ ListOf(r) = <<>>
    BY EmptyList, NetworkAssumption DEF Init, NotPublishing, ListOf
  <2>2. \A k \in Keepers : streams[r][k] = 0 /\ storing[r][k] = 0 /\ accepted[r][k] = 0
    BY DEF Init, Zero
  <2> QED
    BY <2>1, <2>2, EmptyList DEF Init, RequestInv, Count
<1> QED
  BY <1>1, <1>2, <1>3 DEF NetworkInv

\* An announcement extends the list and every loop over it; where the loops
\* are does not change.
LEMMA AnnounceKeeps ==
    ASSUME NetworkInv, NEW k \in Keepers, Announce(k) PROVE NetworkInv'
<1>1. TypeOK /\ keepers \in Seq(Keepers) /\ Distinct(keepers)
  BY DEF NetworkInv, TypeOK
<1>2. /\ keepers' \in Seq(Keepers)
      /\ Len(keepers') = Len(keepers) + 1
      /\ keepers'[Len(keepers) + 1] = k
      /\ \A i \in 1 .. Len(keepers) : keepers'[i] = keepers[i]
  BY <1>1 DEF Announce
<1>3. \A i \in 1 .. Len(keepers) : keepers[i] # k
  BY DEF Announce, IsNew, Contains
<1>4. Distinct(keepers')
  BY <1>1, <1>2, <1>3 DEF Distinct
<1>5. ASSUME NEW r \in Requests
      PROVE  /\ Len(ListOf(r)') >= Len(ListOf(r))
             /\ \A i \in 1 .. Len(ListOf(r)) : ListOf(r)'[i] = ListOf(r)[i]
             /\ Distinct(ListOf(r)')
             /\ Len(ListOf(r)') \in Nat /\ Len(ListOf(r)) \in Nat
  <2>1. CASE publish[r].list = Live
    BY <1>1, <1>2, <1>4, <2>1 DEF ListOf, Announce
  <2>2. CASE publish[r].list # Live
    <3>1. ListOf(r)' = ListOf(r)
      BY <2>2 DEF ListOf, Announce
    <3>2. Distinct(ListOf(r)) /\ ListOf(r) \in Seq(Keepers)
      BY <1>1, ListOfType DEF NetworkInv, RequestInv
    <3> QED
      BY <3>1, <3>2
  <2> QED
    BY <2>1, <2>2
<1>6. TypeOK'
  <2>1. ASSUME NEW r \in Requests, publish[r].pc = "dialing"
        PROVE  publish[r].next \in 1 .. Len(ListOf(r)')
    BY <1>1, <1>5, <2>1, ListOfType
  <2> QED
    BY <1>1, <1>2, <2>1 DEF TypeOK, Announce
<1>7. ASSUME NEW r \in Requests PROVE RequestInv(r)'
  <2>1. RequestInv(r)
    BY DEF NetworkInv
  <2>2. \A l \in Keepers : Count(r, l)' = Count(r, l)
    BY DEF Count, Announce
  <2>3. ASSUME publish[r].pc = "dialing" PROVE Dialing(r)'
    <3>1. publish[r].next \in 1 .. Len(ListOf(r))
      BY <1>1, <2>3, ListOfType
    <3>2. \A i \in 1 .. publish[r].next - 1 : ListOf(r)'[i] = ListOf(r)[i]
      BY <1>5, <3>1
    <3>3. Dialing(r)
      BY <2>1, <2>3 DEF RequestInv
    <3>4. \A l \in publish[r].known : \E i \in 1 .. Len(ListOf(r)') : ListOf(r)'[i] = l
      BY <1>5, <3>3 DEF Dialing
    <3> QED
      BY <2>2, <3>2, <3>3, <3>4 DEF Dialing, Announce
  <2> QED
    BY <1>5, <2>1, <2>2, <2>3 DEF RequestInv, Announce
<1> QED
  BY <1>2, <1>4, <1>6, <1>7 DEF NetworkInv

\* Unsubscribing replaces the list and leaves each loop with the one it has.
LEMMA UnsubscribedKeeps ==
    ASSUME NetworkInv, Unsubscribed PROVE NetworkInv'
<1>1. TypeOK /\ keepers \in Seq(Keepers) /\ keepers' = <<>>
  BY DEF NetworkInv, TypeOK, Unsubscribed
<1>2. ASSUME NEW r \in Requests
      PROVE  /\ publish'[r] \in Publication
             /\ publish'[r].pc = publish[r].pc
             /\ publish'[r].next = publish[r].next
             /\ publish'[r].known = publish[r].known
             /\ publish'[r].dialed = publish[r].dialed
             /\ ListOf(r)' = ListOf(r)
  <2>1. publish[r] \in Publication
    BY <1>1, ListOfType
  <2>2. publish'[r] = IF publish[r].list = Live
                      THEN [publish[r] EXCEPT !.list = keepers] ELSE publish[r]
    BY DEF Unsubscribed, FreezeLists
  <2>3. keepers # Live
    BY <1>1, NetworkAssumption
  <2>4. CASE publish[r].list = Live
    BY <1>1, <2>1, <2>2, <2>3, <2>4 DEF Publication, ListOf
  <2>5. CASE publish[r].list # Live
    BY <2>1, <2>2, <2>5 DEF ListOf
  <2> QED
    BY <2>4, <2>5
<1>3. TypeOK'
  <2>1. publish' \in [Requests -> Publication]
    BY <1>2 DEF Unsubscribed, FreezeLists
  <2>2. ASSUME NEW r \in Requests, publish'[r].pc = "dialing"
        PROVE  publish'[r].next \in 1 .. Len(ListOf(r)')
    BY <1>1, <1>2, <2>2, ListOfType
  <2>3. subscription' \in {"off", "on", "ending"}
    BY DEF Unsubscribed
  <2> QED
    BY <1>1, <2>1, <2>2, <2>3, EmptyList DEF TypeOK, Publication, Unsubscribed
<1>4. ASSUME NEW r \in Requests PROVE RequestInv(r)'
  <2>1. RequestInv(r)
    BY DEF NetworkInv
  <2>2. \A k \in Keepers : Count(r, k)' = Count(r, k)
    BY DEF Count, Unsubscribed
  <2>3. publish[r].pc = "dialing" => Dialing(r)'
    BY <1>2, <2>1, <2>2 DEF RequestInv, Dialing, Unsubscribed
  <2> QED
    BY <1>2, <2>1, <2>2, <2>3 DEF RequestInv, Unsubscribed
<1> QED
  BY <1>1, <1>3, <1>4, EmptyList DEF NetworkInv

-----------------------------------------------------------------------------
(* publishRequest.                                                         *)

\* A step of the publication of r, which the store may have taken by then:
\* the other requests keep their invariant.
LEMMA PublicationStep ==
    ASSUME NetworkInv, NEW r \in Requests, NEW p \in Publication,
           publish' = [publish EXCEPT ![r] = p],
           \/ published' = published
           \/ published' = [published EXCEPT ![r] = @ + 1] /\ published[r] < MaxPublishes,
           userStored' \in {userStored, userStored \union {r}},
           UNCHANGED <<keepers, subscription, subscriptions, storing, keeperStored, accepted>>,
           streams' \in [Requests -> [Keepers -> Nat]],
           \A q \in Requests \ {r}, k \in Keepers : streams'[q][k] = streams[q][k],
           p.pc = "dialing" => p.next \in 1 .. Len(ListOf(r)'),
           RequestInv(r)'
    PROVE  NetworkInv'
<1>1. TypeOK /\ Distinct(keepers)
  BY DEF NetworkInv
<1>2. publish' \in [Requests -> Publication] /\ publish'[r] = p
  BY <1>1 DEF TypeOK, Publication
<1>3. published' \in [Requests -> 0 .. MaxPublishes]
  <2>1. published \in [Requests -> 0 .. MaxPublishes] /\ MaxPublishes \in Nat
    BY <1>1, NetworkAssumption DEF TypeOK
  <2>2. published[r] < MaxPublishes => published[r] + 1 \in 0 .. MaxPublishes
    BY <2>1
  <2> QED
    BY <2>1, <2>2
<1>4. ASSUME NEW q \in Requests, q # r
      PROVE  publish'[q] = publish[q] /\ published'[q] = published[q]
  BY <1>1, <1>4 DEF TypeOK
<1>5. ASSUME NEW q \in Requests, publish'[q].pc = "dialing"
      PROVE  publish'[q].next \in 1 .. Len(ListOf(q)')
  <2>1. CASE q = r
    BY <1>2, <1>5, <2>1
  <2>2. CASE q # r
    <3>1. ListOf(q)' = ListOf(q)
      BY <1>4, <2>2 DEF ListOf
    <3> QED
      BY <1>1, <1>4, <1>5, <2>2, <3>1, ListOfType
  <2> QED
    BY <2>1, <2>2
<1>6. TypeOK'
  BY <1>1, <1>2, <1>3, <1>5 DEF TypeOK, Publication
<1>7. ASSUME NEW q \in Requests, q # r PROVE RequestInv(q)'
  BY <1>4, <1>7, OthersKeep DEF NetworkInv
<1> QED
  BY <1>1, <1>6, <1>7 DEF NetworkInv

LEMMA PublishKeeps ==
    ASSUME NetworkInv, NEW r \in Requests, Publish(r) PROVE NetworkInv'
<1> DEFINE p == [NotPublishing EXCEPT !.pc = "storing"]
<1>1. TypeOK /\ RequestInv(r) /\ publish'[r] = p
  BY DEF NetworkInv, TypeOK, Publish
<1>2. /\ p \in Publication /\ p.pc = "storing" /\ p.known = {} /\ p.list = <<>>
  BY EmptyList DEF NotPublishing, Publication
<1>3. ListOf(r)' = <<>>
  BY <1>1, <1>2, EmptyList, NetworkAssumption DEF ListOf
<1>4. published[r] \in Nat /\ published'[r] = published[r] + 1
  BY <1>1 DEF TypeOK, Publish
<1>5. \A k \in Keepers : Count(r, k) \in Nat /\ Count(r, k)' = Count(r, k)
  BY <1>1 DEF Count, TypeOK, Publish
<1>6. \A k \in Keepers : Count(r, k)' < published'[r] /\ Count(r, k)' <= published'[r]
  BY <1>1, <1>4, <1>5 DEF RequestInv
<1>7. RequestInv(r)'
  BY <1>1, <1>2, <1>3, <1>6, EmptyList DEF RequestInv, Publish
<1> HIDE DEF p
<1> QED
  BY <1>1, <1>2, <1>7, PublicationStep DEF Publish, TypeOK

LEMMA UserStoredKeeps ==
    ASSUME NetworkInv, NEW r \in Requests, UserStored(r) PROVE NetworkInv'
<1> DEFINE done == [publish[r] EXCEPT !.pc = "done"]
           dialing == [publish[r] EXCEPT !.pc = "dialing", !.list = Live, !.next = 1,
                                         !.known = ToSet(keepers)]
<1>1. /\ TypeOK /\ RequestInv(r) /\ publish[r] \in Publication
      /\ keepers \in Seq(Keepers) /\ Distinct(keepers)
      /\ publish[r].pc = "storing" /\ publish[r].known = {}
      /\ \A k \in Keepers : Count(r, k) < published[r]
  BY ListOfType DEF NetworkInv, TypeOK, UserStored, RequestInv
<1>2. \A k \in Keepers : Count(r, k)' = Count(r, k)
  BY DEF Count, UserStored
<1>3. UNCHANGED <<keepers, published, streams, storing, accepted, keeperStored>>
      /\ userStored' = userStored \union {r}
  BY DEF UserStored
<1>4. /\ streams' \in [Requests -> [Keepers -> Nat]]
      /\ userStored' = userStored \union {r}
      /\ UNCHANGED <<keepers, subscription, subscriptions, published, streams, storing,
                     keeperStored, accepted>>
  BY <1>1 DEF UserStored, TypeOK
<1>5. CASE keepers = <<>>
  <2>1. /\ done \in Publication /\ done.pc = "done" /\ done.known = {}
        /\ done.list = publish[r].list
    BY <1>1 DEF Publication
  <2>2. publish' = [publish EXCEPT ![r] = done] /\ publish'[r] = done
    BY <1>1, <1>5 DEF UserStored, TypeOK
  <2> HIDE DEF done
  <2>3. ListOf(r)' = ListOf(r)
    BY <1>3, <2>1, <2>2 DEF ListOf
  <2>4. RequestInv(r)'
    BY <1>1, <1>2, <1>3, <2>1, <2>2, <2>3 DEF RequestInv
  <2> QED
    <3>1. done.pc = "dialing" => done.next \in 1 .. Len(ListOf(r)')
      BY <2>1
    <3> QED
      BY <1>4, <2>1, <2>2, <2>4, <3>1, PublicationStep
<1>6. CASE keepers # <<>>
  <2>1. ToSet(keepers) \subseteq Keepers
        /\ \A k \in ToSet(keepers) : \E i \in 1 .. Len(keepers) : keepers[i] = k
    BY <1>1 DEF ToSet
  <2>2. /\ dialing \in Publication /\ dialing.pc = "dialing" /\ dialing.next = 1
        /\ dialing.known = ToSet(keepers) /\ dialing.list = Live
    BY <1>1, <2>1 DEF Publication
  <2>3. publish' = [publish EXCEPT ![r] = dialing] /\ publish'[r] = dialing
    BY <1>1, <1>6 DEF UserStored, TypeOK
  <2>4. Len(keepers) \in Nat /\ Len(keepers) # 0
    BY <1>1, <1>6
  <2> HIDE DEF dialing
  <2>5. ListOf(r)' = keepers
    BY <1>3, <2>2, <2>3 DEF ListOf
  <2>6. Dialing(r)'
    BY <1>1, <1>2, <1>3, <2>1, <2>2, <2>3, <2>5 DEF Dialing
  <2>7. RequestInv(r)'
    BY <1>1, <1>2, <1>3, <2>2, <2>3, <2>5, <2>6 DEF RequestInv
  <2>8. dialing.next \in 1 .. Len(ListOf(r)')
    BY <2>2, <2>4, <2>5
  <2> QED
    BY <1>4, <2>2, <2>3, <2>7, <2>8, PublicationStep
<1> QED
  BY <1>5, <1>6

LEMMA UserStoreFailedKeeps ==
    ASSUME NetworkInv, NEW r \in Requests, UserStoreFailed(r) PROVE NetworkInv'
<1> DEFINE done == [publish[r] EXCEPT !.pc = "done"]
<1>1. /\ TypeOK /\ RequestInv(r) /\ publish[r] \in Publication
      /\ publish[r].pc = "storing" /\ publish[r].known = {}
  BY ListOfType DEF NetworkInv, UserStoreFailed, RequestInv
<1>2. \A k \in Keepers : Count(r, k)' = Count(r, k)
  BY DEF Count, UserStoreFailed
<1>3. UNCHANGED <<keepers, published, userStored, streams, storing, accepted, keeperStored>>
  BY DEF UserStoreFailed
<1>4. /\ done \in Publication /\ done.pc = "done" /\ done.known = {}
      /\ done.list = publish[r].list
  BY <1>1 DEF Publication
<1>5. publish' = [publish EXCEPT ![r] = done] /\ publish'[r] = done
  BY <1>1 DEF UserStoreFailed, TypeOK
<1> HIDE DEF done
<1>6. ListOf(r)' = ListOf(r)
  BY <1>3, <1>4, <1>5 DEF ListOf
<1>7. RequestInv(r)'
  BY <1>1, <1>2, <1>3, <1>4, <1>5, <1>6 DEF RequestInv
<1> QED
  <2>1. /\ done.pc = "dialing" => done.next \in 1 .. Len(ListOf(r)')
        /\ streams' \in [Requests -> [Keepers -> Nat]]
        /\ UNCHANGED <<keepers, subscription, subscriptions, published, userStored, streams,
                       storing, keeperStored, accepted>>
    BY <1>1, <1>4 DEF UserStoreFailed, TypeOK
  <2> QED
    BY <1>4, <1>5, <1>7, <2>1, PublicationStep

\* The loop moves past k: all that mattered of k is whether it was dialed.
LEMMA AdvanceKeeps ==
    ASSUME NetworkInv, NEW r \in Requests, publish[r].pc = "dialing",
           NEW k \in Keepers, k = ListOf(r)[publish[r].next],
           publish' = Advance(r, k),
           streams' = streams \/ streams' = Plus(streams, r, k, 1),
           UNCHANGED <<keepers, subscription, subscriptions, published, userStored,
                       storing, keeperStored, accepted>>
    PROVE  NetworkInv'
<1> DEFINE p == publish[r]
           last == [NotPublishing EXCEPT !.pc = "done", !.known = p.known,
                                         !.dialed = p.dialed \union {k}]
           next == [p EXCEPT !.next = p.next + 1, !.dialed = p.dialed \union {k}]
<1>1. /\ TypeOK /\ RequestInv(r) /\ Dialing(r) /\ p \in Publication
      /\ ListOf(r) \in Seq(Keepers) /\ Len(ListOf(r)) \in Nat
      /\ p.next \in 1 .. Len(ListOf(r))
  BY ListOfType DEF NetworkInv, RequestInv
<1>2. /\ streams \in [Requests -> [Keepers -> Nat]]
      /\ storing \in [Requests -> [Keepers -> Nat]]
      /\ accepted \in [Requests -> [Keepers -> Nat]]
      /\ published[r] \in Nat
  BY <1>1 DEF TypeOK
<1>3. /\ streams' \in [Requests -> [Keepers -> Nat]]
      /\ streams'[r][k] <= streams[r][k] + 1
      /\ \A q \in Requests, l \in Keepers :
           q # r \/ l # k => streams'[q][l] = streams[q][l]
  <2>1. streams[r][k] \in Nat /\ streams[r][k] + 1 \in Nat
    BY <1>2
  <2>2. CASE streams' = Plus(streams, r, k, 1)
    <3>1. /\ Plus(streams, r, k, 1) \in [Requests -> [Keepers -> Nat]]
          /\ Plus(streams, r, k, 1)[r][k] = streams[r][k] + 1
          /\ \A q \in Requests, l \in Keepers :
               q # r \/ l # k => Plus(streams, r, k, 1)[q][l] = streams[q][l]
      BY <1>2, <2>1, PlusCounts
    <3>2. streams' \in [Requests -> [Keepers -> Nat]]
      BY <2>2, <3>1
    <3>3. streams'[r][k] <= streams[r][k] + 1
      BY <2>1, <2>2, <3>1
    <3>4. \A q \in Requests, l \in Keepers :
            q # r \/ l # k => streams'[q][l] = streams[q][l]
      BY <2>2, <3>1
    <3> QED BY <3>2, <3>3, <3>4
  <2>3. CASE streams' = streams
    BY <1>2, <2>1, <2>3
  <2> QED
    BY <2>2, <2>3
<1>4. /\ Count(r, k)' <= Count(r, k) + 1
      /\ \A l \in Keepers : l # k => Count(r, l)' = Count(r, l)
  BY <1>2, <1>3 DEF Count
<1>5. Count(r, k) < published[r]
  <2>1. \A i \in 1 .. p.next - 1 : ListOf(r)[i] # k
    BY <1>1 DEF RequestInv, Distinct
  <2> QED
    BY <1>1, <2>1 DEF Dialing
<1>6. \A l \in Keepers : /\ Count(r, l)' <= published[r]
                         /\ Count(r, l) \in Nat /\ Count(r, l)' \in Nat
  <2>1. \A l \in Keepers : Count(r, l) \in Nat /\ Count(r, l)' \in Nat
    BY <1>2, <1>3, CounterType DEF Count
  <2>2. \A l \in Keepers : Count(r, l) <= published[r]
    BY <1>1 DEF RequestInv
  <2> QED
    BY <1>2, <1>4, <1>5, <2>1, <2>2
<1>7. r \in userStored
  BY <1>1 DEF Dialing
<1>8. CASE p.next = Len(ListOf(r))
  <2>1. /\ last \in Publication /\ last.pc = "done" /\ last.known = p.known
        /\ last.dialed = p.dialed \union {k} /\ last.list = <<>>
    BY <1>1, EmptyList DEF Publication, NotPublishing
  <2>2. publish' = [publish EXCEPT ![r] = last] /\ publish'[r] = last
    BY <1>1, <1>8 DEF Advance, TypeOK
  <2>3. p.known \subseteq p.dialed \union {k}
    BY <1>1, <1>8 DEF Dialing
  <2> HIDE DEF last
  <2>4. ListOf(r)' = <<>>
    BY <2>1, <2>2, EmptyList, NetworkAssumption DEF ListOf
  <2>5. RequestInv(r)'
    BY <1>1, <1>6, <1>7, <2>1, <2>2, <2>3, <2>4, EmptyList DEF RequestInv
  <2> QED
    <3>0. last \in Publication /\ \A q \in Requests \ {r}, l \in Keepers : streams'[q][l] = streams[q][l]
      BY <1>3, <2>1
    <3>1. last.pc = "dialing" => last.next \in 1 .. Len(ListOf(r)')
      BY <2>1
    <3> QED
      BY <1>3, <2>2, <2>5, <3>0, <3>1, PublicationStep
<1>9. CASE p.next # Len(ListOf(r))
  <2>1. /\ next \in Publication /\ next.pc = "dialing" /\ next.known = p.known
        /\ next.dialed = p.dialed \union {k} /\ next.list = p.list
        /\ next.next = p.next + 1 /\ next.next \in 1 .. Len(ListOf(r))
    <3>1. p.next + 1 \in 1 .. Len(ListOf(r)) /\ p.next + 1 \in Nat
      BY <1>1, <1>9
    <3>2. p.dialed \union {k} \in SUBSET Keepers
      BY <1>1 DEF Publication
    <3> QED
      BY <1>1, <3>1, <3>2 DEF Publication
  <2>2. publish' = [publish EXCEPT ![r] = next] /\ publish'[r] = next
    BY <1>1, <1>9 DEF Advance, TypeOK
  <2> HIDE DEF next
  <2>3. ListOf(r)' = ListOf(r)
    BY <2>1, <2>2 DEF ListOf
  <2>4. ASSUME NEW l \in Keepers, \A i \in 1 .. p.next : ListOf(r)[i] # l
        PROVE  Count(r, l)' < published[r]
    <3>1. l # k
      BY <1>1, <2>4
    <3>2. Count(r, l) < published[r]
      BY <1>1, <2>4 DEF Dialing
    <3> QED
      BY <1>4, <3>1, <3>2
  <2>5. \A i \in 1 .. p.next : ListOf(r)[i] \in p.dialed \union {k}
    BY <1>1 DEF Dialing
  <2>6. Dialing(r)'
    <3>1. publish'[r].next - 1 = p.next
      BY <1>1, <2>1, <2>2
    <3>2. \A l \in publish'[r].known : \E i \in 1 .. Len(ListOf(r)) : ListOf(r)[i] = l
      BY <1>1, <2>1, <2>2 DEF Dialing
    <3> QED
      BY <1>7, <2>1, <2>2, <2>3, <2>4, <2>5, <3>1, <3>2 DEF Dialing
  <2>7. RequestInv(r)'
    BY <1>1, <1>6, <1>7, <2>1, <2>2, <2>3, <2>6 DEF RequestInv
  <2> QED
    BY <1>3, <2>1, <2>2, <2>3, <2>7, PublicationStep
<1> QED
  BY <1>8, <1>9

-----------------------------------------------------------------------------
(* A keeper's handler.                                                     *)

\* What a handler does to its own counters, with a request that is stored
\* where it is accepted, keeps the invariant.
LEMMA HandlerStep ==
    ASSUME NetworkInv, NEW r \in Requests, NEW k \in Keepers,
           UNCHANGED <<keepers, subscription, subscriptions, publish, published, userStored>>,
           streams' \in [Requests -> [Keepers -> Nat]],
           storing' \in [Requests -> [Keepers -> Nat]],
           accepted' \in [Requests -> [Keepers -> Nat]],
           keeperStored' \in [Keepers -> SUBSET Requests],
           \A l \in Keepers : keeperStored[l] \subseteq keeperStored'[l],
           \A q \in Requests, l \in Keepers : q # r \/ l # k =>
               /\ streams'[q][l] = streams[q][l]
               /\ storing'[q][l] = storing[q][l]
               /\ accepted'[q][l] = accepted[q][l],
           streams[r][k] + storing[r][k] > 0,
           Count(r, k)' <= Count(r, k),
           accepted'[r][k] > 0 => accepted[r][k] > 0 \/ r \in keeperStored'[k]
    PROVE  NetworkInv'
<1>1. TypeOK /\ Distinct(keepers) /\ RequestInv(r) /\ r \in userStored
  BY DEF NetworkInv, RequestInv
<1>2. \A q \in Requests : ListOf(q)' = ListOf(q)
  BY DEF ListOf
<1>3. TypeOK'
  BY <1>1, <1>2 DEF TypeOK
<1>4. ASSUME NEW q \in Requests, q # r PROVE RequestInv(q)'
  BY <1>4, OthersKeep DEF NetworkInv
<1>5. \A l \in Keepers : Count(r, l)' <= Count(r, l) /\ Count(r, l)' \in Int /\ Count(r, l) \in Int
  <2>1. \A l \in Keepers : Count(r, l)' \in Int /\ Count(r, l) \in Int
    <3>1. /\ streams \in [Requests -> [Keepers -> Nat]]
          /\ storing \in [Requests -> [Keepers -> Nat]]
          /\ accepted \in [Requests -> [Keepers -> Nat]]
      BY <1>1 DEF TypeOK
    <3> QED
      BY <3>1, CounterType DEF Count
  <2>2. \A l \in Keepers : l # k => Count(r, l)' = Count(r, l)
    BY DEF Count
  <2> QED
    BY <2>1, <2>2
<1>6. published[r] \in Int
  BY <1>1 DEF TypeOK
<1>7. publish[r].pc = "dialing" => Dialing(r)'
  <2> SUFFICES ASSUME publish[r].pc = "dialing" PROVE Dialing(r)'
    OBVIOUS
  <2>1. Dialing(r)
    BY <1>1 DEF RequestInv
  <2>2. \A l \in Keepers :
          (\A i \in 1 .. publish[r].next - 1 : ListOf(r)[i] # l) => Count(r, l)' < published[r]
    BY <1>5, <1>6, <2>1 DEF Dialing
  <2> QED
    BY <1>2, <2>1, <2>2 DEF Dialing
<1>8. publish[r].pc = "storing" => \A l \in Keepers : Count(r, l)' < published[r]
  BY <1>1, <1>5, <1>6 DEF RequestInv
<1>9. \A l \in Keepers : Count(r, l)' <= published[r]
  BY <1>1, <1>5, <1>6 DEF RequestInv
<1>10. \A l \in Keepers : accepted'[r][l] > 0 => r \in keeperStored'[l]
  BY <1>1 DEF RequestInv
<1>11. RequestInv(r)'
  BY <1>1, <1>2, <1>7, <1>8, <1>9, <1>10 DEF RequestInv
<1> QED
  BY <1>1, <1>3, <1>4, <1>11 DEF NetworkInv

LEMMA HandlerKeeps ==
    ASSUME NetworkInv, NEW r \in Requests, NEW k \in Keepers,
           \/ Dispatch(r, k) \/ StreamLost(r, k)
           \/ KeeperStored(r, k) \/ KeeperStoreFailed(r, k)
    PROVE  NetworkInv'
<1>1. /\ streams \in [Requests -> [Keepers -> Nat]]
      /\ storing \in [Requests -> [Keepers -> Nat]]
      /\ accepted \in [Requests -> [Keepers -> Nat]]
      /\ keeperStored \in [Keepers -> SUBSET Requests]
  BY DEF NetworkInv, TypeOK
<1>2. /\ streams[r][k] \in Nat /\ storing[r][k] \in Nat /\ accepted[r][k] \in Nat
      /\ -1 \in Int /\ 1 \in Int
      /\ storing[r][k] + 1 \in Nat /\ accepted[r][k] + 1 \in Nat
      /\ streams[r][k] > 0 => streams[r][k] + -1 \in Nat
      /\ storing[r][k] > 0 => storing[r][k] + -1 \in Nat
  BY <1>1
<1>3. ASSUME NEW f \in [Requests -> [Keepers -> Nat]], f[r][k] > 0
      PROVE  /\ Plus(f, r, k, -1) \in [Requests -> [Keepers -> Nat]]
             /\ Plus(f, r, k, -1)[r][k] = f[r][k] - 1
             /\ \A q \in Requests, l \in Keepers :
                  q # r \/ l # k => Plus(f, r, k, -1)[q][l] = f[q][l]
  <2>1. f[r][k] \in Nat
    BY CounterType
  <2>2. f[r][k] + -1 \in Nat /\ f[r][k] + -1 = f[r][k] - 1 /\ -1 \in Int
    BY <1>3, <2>1
  <2> QED
    BY <2>2, PlusCounts
<1>4. ASSUME NEW f \in [Requests -> [Keepers -> Nat]]
      PROVE  /\ Plus(f, r, k, 1) \in [Requests -> [Keepers -> Nat]]
             /\ Plus(f, r, k, 1)[r][k] = f[r][k] + 1
             /\ \A q \in Requests, l \in Keepers :
                  q # r \/ l # k => Plus(f, r, k, 1)[q][l] = f[q][l]
  <2>1. f[r][k] \in Nat
    BY CounterType
  <2>2. f[r][k] + 1 \in Nat /\ 1 \in Int
    BY <2>1
  <2> QED
    BY <2>2, PlusCounts
<1>5. CASE Dispatch(r, k)
  <2>1. /\ streams' = Plus(streams, r, k, -1) /\ storing' = Plus(storing, r, k, 1)
        /\ UNCHANGED <<keepers, subscription, subscriptions, publish, published,
                       userStored, keeperStored, accepted>>
        /\ streams[r][k] > 0
    BY <1>5 DEF Dispatch
  <2>2. /\ streams' \in [Requests -> [Keepers -> Nat]]
        /\ storing' \in [Requests -> [Keepers -> Nat]]
        /\ streams'[r][k] = streams[r][k] - 1 /\ storing'[r][k] = storing[r][k] + 1
        /\ \A q \in Requests, l \in Keepers : q # r \/ l # k =>
             streams'[q][l] = streams[q][l] /\ storing'[q][l] = storing[q][l]
    BY <1>1, <1>3, <1>4, <2>1
  <2>3. Count(r, k)' <= Count(r, k) /\ streams[r][k] + storing[r][k] > 0
    BY <1>2, <2>1, <2>2 DEF Count
  <2> QED
    BY <1>1, <2>1, <2>2, <2>3, HandlerStep
<1>6. CASE StreamLost(r, k)
  <2>1. /\ streams' = Plus(streams, r, k, -1)
        /\ UNCHANGED <<keepers, subscription, subscriptions, publish, published,
                       userStored, storing, keeperStored, accepted>>
        /\ streams[r][k] > 0
    BY <1>6 DEF StreamLost
  <2>2. /\ streams' \in [Requests -> [Keepers -> Nat]]
        /\ streams'[r][k] = streams[r][k] - 1
        /\ \A q \in Requests, l \in Keepers :
             q # r \/ l # k => streams'[q][l] = streams[q][l]
    BY <1>1, <1>3, <2>1
  <2>3. Count(r, k)' <= Count(r, k) /\ streams[r][k] + storing[r][k] > 0
    BY <1>2, <2>1, <2>2 DEF Count
  <2> QED
    BY <1>1, <2>1, <2>2, <2>3, HandlerStep
<1>7. CASE KeeperStored(r, k)
  <2>1. /\ storing' = Plus(storing, r, k, -1) /\ accepted' = Plus(accepted, r, k, 1)
        /\ keeperStored' = [keeperStored EXCEPT ![k] = @ \union {r}]
        /\ UNCHANGED <<keepers, subscription, subscriptions, publish, published,
                       userStored, streams>>
        /\ storing[r][k] > 0
    BY <1>7 DEF KeeperStored
  <2>2. /\ storing' \in [Requests -> [Keepers -> Nat]]
        /\ accepted' \in [Requests -> [Keepers -> Nat]]
        /\ storing'[r][k] = storing[r][k] - 1 /\ accepted'[r][k] = accepted[r][k] + 1
        /\ \A q \in Requests, l \in Keepers : q # r \/ l # k =>
             storing'[q][l] = storing[q][l] /\ accepted'[q][l] = accepted[q][l]
    BY <1>1, <1>3, <1>4, <2>1
  <2>3. Count(r, k)' <= Count(r, k) /\ streams[r][k] + storing[r][k] > 0
    BY <1>2, <2>1, <2>2 DEF Count
  <2>4. /\ keeperStored' \in [Keepers -> SUBSET Requests]
        /\ r \in keeperStored'[k]
        /\ \A l \in Keepers : keeperStored[l] \subseteq keeperStored'[l]
    BY <1>1, <2>1
  <2> QED
    <3>1. /\ streams' \in [Requests -> [Keepers -> Nat]]
          /\ \A q \in Requests, l \in Keepers : streams'[q][l] = streams[q][l]
          /\ UNCHANGED <<keepers, subscription, subscriptions, publish, published, userStored>>
      BY <1>1, <2>1
    <3> QED
      BY <2>2, <2>3, <2>4, <3>1, HandlerStep
<1>8. CASE KeeperStoreFailed(r, k)
  <2>1. /\ storing' = Plus(storing, r, k, -1)
        /\ UNCHANGED <<keepers, subscription, subscriptions, publish, published,
                       userStored, streams, keeperStored, accepted>>
        /\ storing[r][k] > 0
    BY <1>8 DEF KeeperStoreFailed
  <2>2. /\ storing' \in [Requests -> [Keepers -> Nat]]
        /\ storing'[r][k] = storing[r][k] - 1
        /\ \A q \in Requests, l \in Keepers :
             q # r \/ l # k => storing'[q][l] = storing[q][l]
    BY <1>1, <1>3, <2>1
  <2>3. Count(r, k)' <= Count(r, k) /\ streams[r][k] + storing[r][k] > 0
    BY <1>2, <2>1, <2>2 DEF Count
  <2> QED
    BY <1>1, <2>1, <2>2, <2>3, HandlerStep
<1> QED
  BY <1>5, <1>6, <1>7, <1>8

-----------------------------------------------------------------------------
(* The theorems.                                                           *)

\* A step that changes the subscription alone, or nothing.
LEMMA SubscriptionKeeps ==
    ASSUME NetworkInv, SubscribeKeepers \/ Unsubscribe \/ UNCHANGED vars PROVE NetworkInv'
<1>1. UNCHANGED <<keepers, publish, published, userStored, streams, storing, keeperStored, accepted>>
  BY DEF SubscribeKeepers, Unsubscribe, vars
<1>2. subscription' \in {"off", "on", "ending"} /\ subscriptions' \in 0 .. MaxSubscriptions
  BY NetworkAssumption DEF NetworkInv, TypeOK, SubscribeKeepers, Unsubscribe, vars
<1>3. \A r \in Requests : ListOf(r)' = ListOf(r)
  BY <1>1 DEF ListOf
<1>4. TypeOK'
  BY <1>1, <1>2, <1>3 DEF NetworkInv, TypeOK
<1>5. \A r \in Requests : RequestInv(r)'
  BY <1>1, OthersKeep DEF NetworkInv
<1> QED
  BY <1>1, <1>4, <1>5 DEF NetworkInv

LEMMA StepNetworkInv == NetworkInv /\ [Next]_vars => NetworkInv'
<1> SUFFICES ASSUME NetworkInv, [Next]_vars PROVE NetworkInv'
  OBVIOUS
<1>1. ASSUME NEW r \in Requests, Dialed(r) \/ DialFailed(r) PROVE NetworkInv'
  <2> DEFINE k == ListOf(r)[publish[r].next]
  <2>1. publish[r].pc = "dialing" /\ publish' = Advance(r, k)
        /\ (streams' = streams \/ streams' = Plus(streams, r, k, 1))
        /\ UNCHANGED <<keepers, subscription, subscriptions, published, userStored,
                       storing, keeperStored, accepted>>
    BY <1>1 DEF Dialed, DialFailed
  <2>2. k \in Keepers
    BY <2>1, ListOfType DEF NetworkInv
  <2> HIDE DEF k
  <2>3. k = ListOf(r)[publish[r].next]
    BY DEF k
  <2> QED
    BY <2>1, <2>2, <2>3, AdvanceKeeps
<1> QED
  BY <1>1, SubscriptionKeeps, AnnounceKeeps, UnsubscribedKeeps, PublishKeeps,
     UserStoredKeeps, UserStoreFailedKeeps, HandlerKeeps DEF Next

\* The network's state stays of its type: a loop never runs past the end of
\* its list, whatever is announced, unsubscribed or fails (publishRequest).
THEOREM NetworkTypeCorrect == Spec => []TypeOK
BY InitNetworkInv, StepNetworkInv, PTL DEF Spec, NetworkInv

\* A keeper is handed a request at most once per publication, for any keepers
\* and any announcements, losses and unsubscribing (subscribeKeepers,
\* publishRequest).
THEOREM DeliveredOnce == Spec => []OncePerPublication
<1>1. NetworkInv => OncePerPublication
  BY DEF NetworkInv, RequestInv, Count, OncePerPublication
<1> QED
  BY <1>1, InitNetworkInv, StepNetworkInv, PTL DEF Spec

\* What a dispatcher acts on is in its keeper's store and in the user's
\* (publishRequest, setTxDispatcher).
THEOREM AcceptedAreStored == Spec => []AcceptedIsStored
<1>1. NetworkInv => AcceptedIsStored
  BY DEF NetworkInv, RequestInv, AcceptedIsStored
<1> QED
  BY <1>1, InitNetworkInv, StepNetworkInv, PTL DEF Spec

\* A publication that is done has dialed every keeper the user knew when it
\* began to dial (publishRequest).
THEOREM NoKeeperSkipped == Spec => []AllKnownDialed
<1>1. NetworkInv => AllKnownDialed
  BY DEF NetworkInv, RequestInv, AllKnownDialed
<1> QED
  BY <1>1, InitNetworkInv, StepNetworkInv, PTL DEF Spec
=============================================================================
