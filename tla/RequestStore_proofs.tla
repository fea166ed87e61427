------------------------ MODULE RequestStore_proofs ------------------------
(***************************************************************************)
(* Proofs about the request store for any keys, callers and bounds: its    *)
(* type invariant, that a stored request always has an index whatever      *)
(* calls interleave, and that with a single caller every stored request    *)
(* has a slot, abandoned calls and removals included, and the store does   *)
(* what its interface promises: every step of it is one of RequestLog or   *)
(* changes nothing there.                                                  *)
(***************************************************************************)
EXTENDS RequestStore, FiniteSetTheorems, TLAPS

\* What a call may rely on, of the call r it is in the middle of and the
\* index entries: the slot a set carries is one the bound allows, and the
\* index it wrote is still there.
Carries(r, indexes) ==
    /\ r.pc \in {"putLength", "putIndex", "putKey"} => r.index \in Slots
    /\ r.pc \in {"setGetIndex", "setGetLength", "putLength", "putIndex", "putKey",
                 "putRequest", "del"} => r.key \in Keys
    /\ r.pc \in {"setGetIndex", "setGetLength", "putLength", "putIndex", "putKey",
                 "putRequest"} => r.status \in Statuses
    /\ r.pc \in {"putKey", "putRequest"} => indexes[r.key] # NoIndex
    /\ r.pc \in {"listGetKey", "listGetRequest"} => r.index \in Nat

\* The inductive invariant of TypeOK and StoredIsIndexed.
IndexInv ==
    /\ TypeOK
    /\ StoredIsIndexed
    /\ \A c \in Callers : Carries(call[c], indexOf)

LEMMA IdleCall == Idle \in Call /\ \A indexes : Carries(Idle, indexes)
<1>1. <<>> \in Seq(Keys)
  OBVIOUS
<1>2. Idle \in Call
  BY <1>1 DEF Idle, Call, Pc, NoIndex, RequestStates
<1> QED
  BY <1>2 DEF Idle, Carries

LEMMA InitIndexInv == Init => IndexInv
BY StoreAssumption, IdleCall
DEF Init, IndexInv, TypeOK, StoredIsIndexed, Slots, NoIndex, RequestStates

\* An action replaces the call of its own caller; if it takes no index away,
\* the other calls keep what they rely on.
LEMMA OneCallChanges ==
    ASSUME IndexInv, NEW c \in Callers, NEW r \in Call, Continue(c, r),
           Carries(r, indexOf'),
           \A k \in Keys : indexOf[k] # NoIndex => indexOf'[k] # NoIndex
    PROVE  /\ call' \in [Callers -> Call]
           /\ \A d \in Callers : Carries(call'[d], indexOf')
<1>1. /\ call' \in [Callers -> Call]
      /\ call'[c] = r
      /\ \A d \in Callers : d # c => call'[d] = call[d]
  BY DEF IndexInv, TypeOK, Continue
<1>2. ASSUME NEW d \in Callers, d # c PROVE Carries(call'[d], indexOf')
  <2>1. Carries(call[d], indexOf)
    BY <1>2 DEF IndexInv
  <2> QED
    BY <1>1, <1>2, <2>1 DEF Carries
<1> QED
  BY <1>1, <1>2

\* Going on with a listing, or returning from it, leaves every call in order.
LEMMA ListFromKeeps ==
    ASSUME IndexInv, NEW c \in Callers, NEW i \in Nat, NEW end \in Nat,
           NEW filter \in SUBSET Types, NEW found \in Seq(Keys),
           ListFrom(c, i, end, filter, found), UNCHANGED indexOf
    PROVE  /\ call' \in [Callers -> Call]
           /\ \A d \in Callers : Carries(call'[d], indexOf')
<1> DEFINE next == [Idle EXCEPT !.pc = "listGetKey", !.index = i, !.end = end,
                                !.filter = filter, !.found = found]
<1>1. next \in Call /\ Carries(next, indexOf')
  <2>1. Idle \in Call /\ i \in Int
    BY IdleCall
  <2>2. next \in Call
    BY <2>1 DEF Call, Pc
  <2>3. next.pc = "listGetKey" /\ next.index = i
    BY <2>1 DEF Call
  <2> QED
    BY <2>2, <2>3 DEF Carries
<1>2. Continue(c, next) \/ Continue(c, Idle)
  BY DEF ListFrom, Answer, Return
<1> HIDE DEF next
<1>3. CASE Continue(c, next)
  BY <1>1, <1>3, OneCallChanges
<1>4. CASE Continue(c, Idle)
  BY <1>4, IdleCall, OneCallChanges
<1> QED
  BY <1>2, <1>3, <1>4

LEMMA StepIndexInv == IndexInv /\ [Next]_vars => IndexInv'
<1> SUFFICES ASSUME IndexInv, [Next]_vars PROVE IndexInv'
  OBVIOUS
<1> DEFINE CallsOK == /\ call' \in [Callers -> Call]
                      /\ \A d \in Callers : Carries(call'[d], indexOf')
<1>0. /\ TypeOK
      /\ StoredIsIndexed
      /\ \A c \in Callers : call[c] \in Call /\ Carries(call[c], indexOf)
  BY DEF IndexInv, TypeOK
<1> USE StoreAssumption
<1>1. CASE UNCHANGED vars
  BY <1>1 DEF IndexInv, TypeOK, StoredIsIndexed, vars
<1>2. CASE Next
  <2> PICK c \in Callers : Step(c)
    BY <1>2 DEF Next
  <2>a. CASE /\ CallsOK
             /\ UNCHANGED <<length, indexOf, keyAt, requests>>
             /\ abandoned' \in 0 .. MaxAbandons
    BY <1>0, <2>a DEF IndexInv, TypeOK, StoredIsIndexed
  <2>1. ASSUME NEW k \in Keys, Set(c, k) PROVE IndexInv'
    <3> DEFINE r == [Idle EXCEPT !.pc = "setGetIndex", !.key = k, !.status = Pending]
    <3>1. r \in Call /\ Carries(r, indexOf')
      BY IdleCall DEF Idle, Call, Pc, Carries, RequestStates
    <3>2. Continue(c, r) /\ UNCHANGED <<length, indexOf, keyAt, requests, abandoned>>
      BY <2>1 DEF Set
    <3> HIDE DEF r
    <3> QED
      BY <1>0, <2>a, <3>1, <3>2, OneCallChanges DEF TypeOK
  <2>2. CASE SetGetIndex(c)
    <3> DEFINE index == IndexEntry(call[c].key)
               r == [call[c] EXCEPT !.pc = NextOfSet(index), !.index = index]
    <3>1. /\ call[c] \in Call
          /\ call[c].key \in Keys /\ call[c].status \in Statuses
          /\ index \in Slots \union {NoIndex}
          /\ index \in Int
      BY <1>0, <2>2 DEF SetGetIndex, At, TypeOK, IndexEntry, Carries, Slots, NoIndex
    <3>a. NextOfSet(index) \in {"setGetLength", "putIndex"}
          /\ (NextOfSet(index) = "putIndex" => index \in Slots)
      BY <3>1 DEF NextOfSet
    <3>3. Continue(c, r) /\ UNCHANGED <<length, indexOf, keyAt, requests, abandoned>>
      BY <2>2 DEF SetGetIndex
    <3> HIDE DEF index
    <3>2. r \in Call /\ Carries(r, indexOf')
      <4>1. CASE NextOfSet(index) = "setGetLength"
        BY <3>1, <4>1 DEF Call, Pc, Carries
      <4>2. CASE NextOfSet(index) = "putIndex"
        BY <3>1, <3>a, <4>2 DEF Call, Pc, Carries
      <4> QED
        BY <3>a, <4>1, <4>2
    <3> HIDE DEF r
    <3> QED
      BY <1>0, <2>a, <3>2, <3>3, OneCallChanges DEF TypeOK
  <2>3. CASE SetGetLength(c)
    <3> DEFINE r == [call[c] EXCEPT !.pc = "putLength", !.index = length]
    <3>1. r \in Call /\ Carries(r, indexOf')
      <4>1. /\ call[c] \in Call /\ call[c].key \in Keys /\ call[c].status \in Statuses
            /\ length \in Slots /\ length \in Int
        BY <1>0, <2>3 DEF SetGetLength, At, TypeOK, Carries, Slots
      <4> QED
        BY <4>1 DEF Call, Pc, Carries
    <3>2. Continue(c, r) /\ UNCHANGED <<length, indexOf, keyAt, requests, abandoned>>
      BY <2>3 DEF SetGetLength
    <3> HIDE DEF r
    <3> QED
      BY <1>0, <2>a, <3>1, <3>2, OneCallChanges DEF TypeOK
  <2>4. CASE PutLength(c)
    <3> DEFINE r == [call[c] EXCEPT !.pc = "putIndex"]
    <3>1. r \in Call /\ Carries(r, indexOf')
      BY <1>0, <2>4 DEF PutLength, At, Call, Pc, Carries, Slots
    <3>2. Continue(c, r) /\ UNCHANGED <<indexOf, keyAt, requests, abandoned>>
      BY <2>4 DEF PutLength
    <3>3. length' \in 0 .. MaxLength
      BY <1>0, <2>4 DEF PutLength, At, Carries, Slots
    <3> HIDE DEF r
    <3>4. CallsOK
      BY <3>1, <3>2, OneCallChanges
    <3> QED
      BY <1>0, <3>2, <3>3, <3>4 DEF IndexInv, TypeOK, StoredIsIndexed
  <2>5. CASE PutIndex(c)
    <3> DEFINE r == [call[c] EXCEPT !.pc = "putKey"]
    <3>1. call[c].key \in Keys /\ call[c].index \in Slots
      BY <1>0, <2>5 DEF PutIndex, At, Carries
    <3>2. /\ indexOf' \in [Keys -> Slots \union {NoIndex}]
          /\ indexOf'[call[c].key] # NoIndex
          /\ \A k \in Keys : indexOf[k] # NoIndex => indexOf'[k] # NoIndex
      BY <1>0, <2>5, <3>1 DEF PutIndex, TypeOK, Slots, NoIndex
    <3>3. r \in Call /\ Carries(r, indexOf')
      BY <1>0, <2>5, <3>1, <3>2 DEF PutIndex, At, Call, Pc, Carries
    <3>4. Continue(c, r) /\ UNCHANGED <<length, keyAt, requests, abandoned>>
      BY <2>5 DEF PutIndex
    <3> HIDE DEF r
    <3>5. CallsOK
      BY <3>2, <3>3, <3>4, OneCallChanges
    <3> QED
      BY <1>0, <3>2, <3>4, <3>5 DEF IndexInv, TypeOK, StoredIsIndexed
  <2>6. CASE PutKey(c)
    <3> DEFINE r == [call[c] EXCEPT !.pc = "putRequest"]
    <3>1. call[c].key \in Keys /\ call[c].index \in Slots
      BY <1>0, <2>6 DEF PutKey, At, Carries
    <3>2. r \in Call /\ Carries(r, indexOf')
      BY <1>0, <2>6 DEF PutKey, At, Call, Pc, Carries
    <3>3. Continue(c, r) /\ UNCHANGED <<length, indexOf, requests, abandoned>>
      BY <2>6 DEF PutKey
    <3> HIDE DEF r
    <3>4. CallsOK
      BY <3>2, <3>3, OneCallChanges
    <3>5. keyAt' \in [Slots -> Keys \union {NoKey}]
      BY <1>0, <2>6, <3>1 DEF PutKey, TypeOK
    <3> QED
      BY <1>0, <3>3, <3>4, <3>5 DEF IndexInv, TypeOK, StoredIsIndexed
  <2>7. CASE PutRequest(c)
    <3>1. /\ call[c].key \in Keys
          /\ call[c].status \in Statuses
          /\ indexOf[call[c].key] # NoIndex
      BY <1>0, <2>7 DEF PutRequest, At, Carries
    <3>2. Continue(c, Idle) /\ UNCHANGED <<length, indexOf, keyAt, abandoned>>
      BY <2>7 DEF PutRequest, Return
    <3>3. CallsOK
      BY <3>2, IdleCall, OneCallChanges
    <3>4. /\ requests' \in [Keys -> RequestStates]
          /\ \A k \in Keys : requests'[k] # NoRequest => indexOf'[k] # NoIndex
      BY <1>0, <2>7, <3>1, <3>2 DEF PutRequest, TypeOK, RequestStates, StoredIsIndexed
    <3> QED
      BY <1>0, <3>2, <3>3, <3>4 DEF IndexInv, TypeOK, StoredIsIndexed
  <2>8. ASSUME NEW k \in Removable, Remove(c, k) PROVE IndexInv'
    <3> DEFINE r == [Idle EXCEPT !.pc = "del", !.key = k]
    <3>1. r \in Call /\ Carries(r, indexOf')
      BY IdleCall DEF Idle, Call, Pc, Carries, RequestStates
    <3>2. Continue(c, r) /\ UNCHANGED <<length, indexOf, keyAt, requests, abandoned>>
      BY <2>8 DEF Remove
    <3> HIDE DEF r
    <3> QED
      BY <1>0, <2>a, <3>1, <3>2, OneCallChanges DEF TypeOK
  <2>9. CASE Delete(c)
    <3>1. call[c].key \in Keys
      BY <1>0, <2>9 DEF Delete, At, Carries
    <3>2. Continue(c, Idle) /\ UNCHANGED <<length, indexOf, keyAt, abandoned>>
      BY <2>9 DEF Delete, Return
    <3>3. CallsOK
      BY <3>2, IdleCall, OneCallChanges
    <3>4. /\ requests' \in [Keys -> RequestStates]
          /\ \A k \in Keys : requests'[k] # NoRequest => indexOf'[k] # NoIndex
      BY <1>0, <2>9, <3>1, <3>2 DEF Delete, TypeOK, RequestStates, StoredIsIndexed
    <3> QED
      BY <1>0, <3>2, <3>3, <3>4 DEF IndexInv, TypeOK, StoredIsIndexed
  <2>10. ASSUME NEW k \in Keys, NEW s \in Statuses, SetStatus(c, k, s) PROVE IndexInv'
    <3> DEFINE r == [Idle EXCEPT !.pc = "setGetIndex", !.key = k, !.status = s]
    <3>1. r \in Call /\ Carries(r, indexOf')
      BY IdleCall DEF Idle, Call, Pc, Carries, RequestStates
    <3>2. Continue(c, r) /\ UNCHANGED <<length, indexOf, keyAt, requests, abandoned>>
      BY <2>10 DEF SetStatus
    <3> HIDE DEF r
    <3> QED
      BY <1>0, <2>a, <3>1, <3>2, OneCallChanges DEF TypeOK
  <2>11. ASSUME NEW filter \in Filters, GetAllRequests(c, filter) PROVE IndexInv'
    <3>1. filter \in SUBSET Types /\ length \in Nat /\ <<>> \in Seq(Keys)
      BY <1>0 DEF Filters, TypeOK
    <3>2. /\ ListFrom(c, 0, length, filter, <<>>)
          /\ UNCHANGED <<length, indexOf, keyAt, requests, abandoned>>
      BY <2>11 DEF GetAllRequests
    <3>3. CallsOK
      BY <3>1, <3>2, ListFromKeeps
    <3> QED
      BY <1>0, <2>a, <3>2, <3>3 DEF TypeOK
  <2>12. CASE ListGetKey(c)
    <3> DEFINE i == call[c].index
               r == [call[c] EXCEPT !.pc = "listGetRequest",
                                    !.key = IF i \in Slots THEN keyAt[i] ELSE NoKey]
    <3>1. r \in Call /\ Carries(r, indexOf')
      BY <1>0, <2>12 DEF ListGetKey, At, TypeOK, Call, Pc, Carries
    <3>2. Continue(c, r) /\ UNCHANGED <<length, indexOf, keyAt, requests, abandoned>>
      BY <2>12 DEF ListGetKey
    <3> HIDE DEF r
    <3> QED
      BY <1>0, <2>a, <3>1, <3>2, OneCallChanges DEF TypeOK
  <2>13. CASE ListGetRequest(c)
    <3> DEFINE k == call[c].key
               more == IF TypeOf[k] \in call[c].filter THEN Append(call[c].found, k)
                                                       ELSE call[c].found
    <3>1. UNCHANGED <<length, indexOf, keyAt, requests, abandoned>>
      BY <2>13 DEF ListGetRequest
    <3>2. CASE Answer(c, Failed)
      <4>1. CallsOK
        BY <3>1, <3>2, IdleCall, OneCallChanges DEF Answer, Return
      <4> QED
        BY <1>0, <2>a, <3>1, <4>1 DEF TypeOK
    <3>3. CASE /\ k # NoKey
               /\ ListFrom(c, call[c].index + 1, call[c].end, call[c].filter, more)
      <4>1. /\ call[c].index + 1 \in Nat
            /\ call[c].end \in Nat
            /\ call[c].filter \in SUBSET Types
            /\ call[c].found \in Seq(Keys)
            /\ k \in Keys
        BY <1>0, <2>13, <3>3 DEF ListGetRequest, At, Call, Carries
      <4>2. more \in Seq(Keys)
        BY <4>1
      <4> HIDE DEF more
      <4>3. CallsOK
        BY <3>1, <3>3, <4>1, <4>2, ListFromKeeps
      <4> QED
        BY <1>0, <2>a, <3>1, <4>3 DEF TypeOK
    <3> QED
      BY <2>13, <3>2, <3>3 DEF ListGetRequest
  <2>14. CASE Abandon(c)
    <3>1. /\ Continue(c, Idle)
          /\ UNCHANGED <<length, indexOf, keyAt, requests>>
          /\ abandoned' \in 0 .. MaxAbandons
      BY <1>0, <2>14 DEF Abandon, Return, TypeOK
    <3>2. CallsOK
      BY <3>1, IdleCall, OneCallChanges
    <3> QED
      BY <2>a, <3>1, <3>2
  <2> QED
    BY <2>1, <2>2, <2>3, <2>4, <2>5, <2>6, <2>7, <2>8, <2>9, <2>10, <2>11, <2>12,
       <2>13, <2>14 DEF Step
<1> QED
  BY <1>1, <1>2

LEMMA IndexInvariant == Spec => []IndexInv
BY InitIndexInv, StepIndexInv, PTL DEF Spec

\* Every entry of the database keeps its type; in particular a set never
\* writes a slot past the bound (set).
THEOREM StoreTypeCorrect == Spec => []TypeOK
<1>1. IndexInv => TypeOK
  BY DEF IndexInv
<1> QED
  BY <1>1, IndexInvariant, PTL

\* Whatever calls interleave, fail halfway or die with the process, a stored
\* request has an index, so remove finds it (set, remove).
THEOREM RemoveFindsStored == Spec => []StoredIsIndexed
<1>1. IndexInv => StoredIsIndexed
  BY DEF IndexInv
<1> QED
  BY <1>1, IndexInvariant, PTL

-----------------------------------------------------------------------------
(* A single caller: the slot a key is given is its own.                    *)

OneCaller == \A c, d \in Callers : c = d

\* Indexes are below the length, lead to their own key or to a slot whose key
\* was never written, and are not shared; a stored request's slot is written.
SlotsAgree ==
    /\ \A k \in Keys : indexOf[k] # NoIndex =>
         indexOf[k] < length /\ keyAt[indexOf[k]] \in {k, NoKey}
    /\ \A i \in Slots : keyAt[i] # NoKey => indexOf[keyAt[i]] = i
    /\ \A j, k \in Keys : indexOf[j] # NoIndex /\ indexOf[j] = indexOf[k] => j = k
    /\ \A k \in Keys : requests[k] # NoRequest =>
         indexOf[k] # NoIndex /\ keyAt[indexOf[k]] = k

\* What the set in progress knows of the slot it carries.
HasSlot(r) ==
    /\ r.pc \in {"setGetLength", "putLength"} => indexOf[r.key] = NoIndex
    /\ r.pc = "putLength" => r.index = length
    /\ r.pc = "putIndex" =>
         /\ r.index < length
         /\ \/ indexOf[r.key] = r.index
            \/ indexOf[r.key] = NoIndex /\ \A k \in Keys : indexOf[k] # r.index
    /\ r.pc \in {"putKey", "putRequest"} => indexOf[r.key] = r.index
    /\ r.pc = "putRequest" => keyAt[r.index] = r.key

SlotInv == SlotsAgree /\ \A c \in Callers : HasSlot(call[c])

LEMMA InitSlotInv == Init => SlotInv
BY StoreAssumption DEF Init, SlotInv, SlotsAgree, HasSlot, Idle, NoIndex, Slots

\* Going on with a listing leaves its caller between two gets or done.
LEMMA ListFromPc ==
    ASSUME NEW c, NEW i, NEW end, NEW filter, NEW found,
           \A r : Continue(c, r) => call'[c] = r,
           ListFrom(c, i, end, filter, found)
    PROVE  call'[c].pc \in {"idle", "listGetKey"}
<1> DEFINE next == [Idle EXCEPT !.pc = "listGetKey", !.index = i, !.end = end,
                                !.filter = filter, !.found = found]
<1>1. call'[c] = next \/ call'[c] = Idle
  BY DEF ListFrom, Answer, Return
<1>2. Idle.pc = "idle"
  BY DEF Idle
<1>3. next.pc = "listGetKey"
  BY DEF Idle
<1> QED
  BY <1>1, <1>2, <1>3

LEMMA StepSlotInv ==
    ASSUME OneCaller, IndexInv, IndexInv', SlotInv, [Next]_vars
    PROVE  SlotInv'
<1>0. /\ TypeOK
      /\ SlotsAgree
      /\ \A c \in Callers : call[c] \in Call /\ Carries(call[c], indexOf)
                                            /\ HasSlot(call[c])
  BY DEF IndexInv, TypeOK, SlotInv
<1>1. CASE UNCHANGED vars
  BY <1>1 DEF SlotInv, SlotsAgree, HasSlot, vars
<1>2. CASE Next
  <2> PICK c \in Callers : Step(c)
    BY <1>2 DEF Next
  <2>0. /\ \A d \in Callers : d = c
        /\ \A r : Continue(c, r) => call'[c] = r
    BY <1>0 DEF OneCaller, Continue, TypeOK
  <2>a. CASE /\ call'[c].pc \in {"idle", "setGetIndex", "del", "listGetKey", "listGetRequest"}
             /\ UNCHANGED <<length, indexOf, keyAt, requests>>
    BY <1>0, <2>0, <2>a DEF SlotInv, SlotsAgree, HasSlot
  <2>1. ASSUME NEW k \in Keys, Set(c, k) PROVE SlotInv'
    BY <2>0, <2>1, <2>a DEF Set, Idle
  <2>2. CASE SetGetIndex(c)
    <3> DEFINE index == indexOf[call[c].key]
    <3>1. /\ call'[c] = [call[c] EXCEPT !.pc = NextOfSet(index), !.index = index]
          /\ UNCHANGED <<length, indexOf, keyAt, requests>>
      BY <2>0, <2>2 DEF SetGetIndex, IndexEntry
    <3>2. call[c].key \in Keys /\ call[c] \in Call
      BY <1>0, <2>2 DEF SetGetIndex, At, Carries
    <3>3. CASE index = NoIndex
      <4>1. call'[c].pc = "setGetLength" /\ call'[c].key = call[c].key
        BY <3>1, <3>2, <3>3 DEF NextOfSet, Call
      <4> QED
        BY <1>0, <2>0, <3>1, <3>3, <4>1 DEF SlotInv, SlotsAgree, HasSlot
    <3>4. CASE index # NoIndex
      <4>1. call'[c].pc = "putIndex" /\ call'[c].key = call[c].key /\ call'[c].index = index
        BY <3>1, <3>2, <3>4 DEF NextOfSet, Call
      <4> QED
        BY <1>0, <2>0, <3>1, <3>2, <3>4, <4>1 DEF SlotInv, SlotsAgree, HasSlot
    <3> QED
      BY <3>3, <3>4
  <2>3. CASE SetGetLength(c)
    <3>1. /\ call'[c].pc = "putLength"
          /\ call'[c].key = call[c].key
          /\ call'[c].index = length
          /\ UNCHANGED <<length, indexOf, keyAt, requests>>
      BY <1>0, <2>0, <2>3 DEF SetGetLength, Call
    <3>2. indexOf[call[c].key] = NoIndex
      BY <1>0, <2>3 DEF SetGetLength, At, HasSlot
    <3> QED
      BY <1>0, <2>0, <3>1, <3>2 DEF SlotInv, SlotsAgree, HasSlot
  <2>4. CASE PutLength(c)
    <3>1. /\ call'[c].pc = "putIndex"
          /\ call'[c].key = call[c].key
          /\ call'[c].index = call[c].index
          /\ length' = call[c].index + 1
          /\ UNCHANGED <<indexOf, keyAt, requests>>
      BY <1>0, <2>0, <2>4 DEF PutLength, Call
    <3>2. indexOf[call[c].key] = NoIndex /\ call[c].index = length /\ length \in Nat
      BY <1>0, <2>4 DEF PutLength, At, HasSlot, TypeOK
    <3>3. \A k \in Keys : indexOf[k] # length
      BY <1>0, <3>2 DEF SlotsAgree, TypeOK, Slots, NoIndex
    <3>4. SlotsAgree'
      BY <1>0, <3>1, <3>2 DEF SlotsAgree, TypeOK, Slots, NoIndex
    <3> QED
      BY <2>0, <3>1, <3>2, <3>3, <3>4 DEF SlotInv, HasSlot
  <2>5. CASE PutIndex(c)
    <3> DEFINE k0 == call[c].key
               i0 == call[c].index
    <3>1. /\ call'[c].pc = "putKey"
          /\ call'[c].key = k0
          /\ call'[c].index = i0
          /\ indexOf' = [indexOf EXCEPT ![k0] = i0]
          /\ UNCHANGED <<length, keyAt, requests>>
      BY <1>0, <2>0, <2>5 DEF PutIndex, Call
    <3>2. /\ k0 \in Keys
          /\ i0 \in Slots
          /\ i0 < length
          /\ \/ indexOf[k0] = i0
             \/ indexOf[k0] = NoIndex /\ \A k \in Keys : indexOf[k] # i0
      <4>1. call[c].pc = "putIndex" /\ Carries(call[c], indexOf) /\ HasSlot(call[c])
        BY <1>0, <2>5 DEF PutIndex, At
      <4>2. k0 \in Keys /\ i0 \in Slots
        BY <4>1 DEF Carries
      <4>3. /\ i0 < length
            /\ \/ indexOf[k0] = i0
               \/ indexOf[k0] = NoIndex /\ \A k \in Keys : indexOf[k] # i0
        BY <4>1 DEF HasSlot
      <4> QED
        BY <4>2, <4>3
    <3> HIDE DEF k0, i0
    <3>3. indexOf'[k0] = i0 /\ \A k \in Keys : k # k0 => indexOf'[k] = indexOf[k]
      BY <1>0, <3>1, <3>2 DEF TypeOK
    <3>4. CASE indexOf[k0] = i0
      <4>1. \A k \in Keys : indexOf'[k] = indexOf[k]
        BY <3>3, <3>4
      <4>2. SlotsAgree'
        BY <1>0, <3>1, <4>1 DEF SlotsAgree, TypeOK
      <4> QED
        BY <2>0, <3>1, <3>3, <4>2 DEF SlotInv, HasSlot
    <3>5. CASE indexOf[k0] = NoIndex /\ \A k \in Keys : indexOf[k] # i0
      <4>1. keyAt[i0] = NoKey /\ i0 # NoIndex
        BY <1>0, <3>2, <3>5 DEF SlotsAgree, TypeOK, Slots, NoIndex
      <4>2. requests[k0] = NoRequest
        BY <1>0, <3>2, <3>5 DEF SlotsAgree
      <4>3. \A i \in Slots : keyAt[i] # NoKey => keyAt[i] # k0
        BY <1>0, <3>5 DEF SlotsAgree, Slots, NoIndex
      <4>4. \A k \in Keys : indexOf'[k] # NoIndex =>
                              indexOf'[k] < length /\ keyAt[indexOf'[k]] \in {k, NoKey}
        BY <1>0, <3>2, <3>3, <4>1 DEF SlotsAgree
      <4>5. \A i \in Slots : keyAt[i] # NoKey => indexOf'[keyAt[i]] = i
        BY <1>0, <3>3, <4>3 DEF SlotsAgree, TypeOK
      <4>6. \A j, k \in Keys : indexOf'[j] # NoIndex /\ indexOf'[j] = indexOf'[k] => j = k
        BY <1>0, <3>3, <3>5 DEF SlotsAgree
      <4>7. \A k \in Keys : requests[k] # NoRequest =>
                              indexOf'[k] # NoIndex /\ keyAt[indexOf'[k]] = k
        BY <1>0, <3>3, <4>2 DEF SlotsAgree
      <4>8. UNCHANGED <<length, keyAt, requests>>
        BY <3>1
      <4>9. SlotsAgree'
        BY <4>4, <4>5, <4>6, <4>7, <4>8 DEF SlotsAgree
      <4> QED
        BY <2>0, <3>1, <3>3, <4>9 DEF SlotInv, HasSlot
    <3> QED
      BY <3>2, <3>4, <3>5
  <2>6. CASE PutKey(c)
    <3> DEFINE k0 == call[c].key
               i0 == call[c].index
    <3>1. /\ call'[c].pc = "putRequest"
          /\ call'[c].key = k0
          /\ call'[c].index = i0
          /\ keyAt' = [keyAt EXCEPT ![i0] = k0]
          /\ UNCHANGED <<length, indexOf, requests>>
      BY <1>0, <2>0, <2>6 DEF PutKey, Call
    <3>2. k0 \in Keys /\ i0 \in Slots /\ indexOf[k0] = i0 /\ i0 # NoIndex
      BY <1>0, <2>6 DEF PutKey, At, Carries, HasSlot, Slots, NoIndex
    <3> HIDE DEF k0, i0
    <3>3. keyAt'[i0] = k0 /\ \A i \in Slots : i # i0 => keyAt'[i] = keyAt[i]
      BY <1>0, <3>1, <3>2 DEF TypeOK
    <3>4. \A k \in Keys : k # k0 /\ indexOf[k] # NoIndex => indexOf[k] # i0
      BY <1>0, <3>2 DEF SlotsAgree
    <3>5. SlotsAgree'
      BY <1>0, <3>1, <3>2, <3>3, <3>4 DEF SlotsAgree, TypeOK
    <3> QED
      BY <2>0, <3>1, <3>2, <3>3, <3>5 DEF SlotInv, HasSlot
  <2>7. CASE PutRequest(c)
    <3>1. /\ call'[c] = Idle
          /\ requests' = [requests EXCEPT ![call[c].key] = call[c].status]
          /\ UNCHANGED <<length, indexOf, keyAt>>
      BY <2>0, <2>7 DEF PutRequest, Return
    <3>2. /\ call[c].key \in Keys
          /\ indexOf[call[c].key] # NoIndex
          /\ keyAt[indexOf[call[c].key]] = call[c].key
      BY <1>0, <2>7 DEF PutRequest, At, Carries, HasSlot
    <3>3. SlotsAgree'
      BY <1>0, <3>1, <3>2 DEF SlotsAgree, TypeOK
    <3> QED
      BY <2>0, <3>1, <3>3 DEF SlotInv, HasSlot, Idle
  <2>8. ASSUME NEW k \in Removable, Remove(c, k) PROVE SlotInv'
    BY <2>0, <2>8, <2>a DEF Remove, Idle
  <2>9. CASE Delete(c)
    <3>1. /\ call'[c] = Idle
          /\ requests' = [requests EXCEPT ![call[c].key] = NoRequest]
          /\ UNCHANGED <<length, indexOf, keyAt>>
      BY <2>0, <2>9 DEF Delete, Return
    <3>2. SlotsAgree'
      BY <1>0, <3>1 DEF SlotsAgree, TypeOK
    <3> QED
      BY <2>0, <3>1, <3>2 DEF SlotInv, HasSlot, Idle
  <2>10. ASSUME NEW k \in Keys, NEW s \in Statuses, SetStatus(c, k, s) PROVE SlotInv'
    BY <2>0, <2>10, <2>a DEF SetStatus, Idle
  <2>11. ASSUME NEW filter \in Filters, GetAllRequests(c, filter) PROVE SlotInv'
    <3>1. PICK i, end, found : ListFrom(c, i, end, filter, found)
      BY <2>11 DEF GetAllRequests
    <3>2. call'[c].pc \in {"idle", "listGetKey"}
      BY <2>0, <3>1, ListFromPc
    <3> QED
      BY <2>11, <2>a, <3>2 DEF GetAllRequests
  <2>12. CASE ListGetKey(c)
    BY <1>0, <2>0, <2>12, <2>a DEF ListGetKey, Call
  <2>13. CASE ListGetRequest(c)
    <3>1. call'[c].pc \in {"idle", "listGetKey"}
      <4>1. CASE Answer(c, Failed)
        BY <2>0, <4>1 DEF Answer, Return, Idle
      <4>2. CASE \E i, end, filter, found : ListFrom(c, i, end, filter, found)
        BY <2>0, <4>2, ListFromPc
      <4> QED
        BY <2>13, <4>1, <4>2 DEF ListGetRequest
    <3> QED
      BY <2>13, <2>a, <3>1 DEF ListGetRequest
  <2>14. CASE Abandon(c)
    BY <2>0, <2>14, <2>a DEF Abandon, Return, Idle
  <2> QED
    BY <2>1, <2>2, <2>3, <2>4, <2>5, <2>6, <2>7, <2>8, <2>9, <2>10, <2>11, <2>12,
       <2>13, <2>14 DEF Step
<1> QED
  BY <1>1, <1>2

\* With a single caller every stored request has a slot listings visit,
\* calls abandoned at any await and removals included (set, getAllRequests).
THEOREM OneCallerListsStored == OneCaller => (Spec => []StoredIsListed)
<1> SUFFICES ASSUME OneCaller PROVE Spec => []StoredIsListed
  OBVIOUS
<1>1. OneCaller /\ IndexInv /\ IndexInv' /\ SlotInv /\ [Next]_vars => SlotInv'
  BY StepSlotInv
<1>2. IndexInv /\ SlotInv => StoredIsListed
  <2> SUFFICES ASSUME IndexInv, SlotInv, NEW k \in Keys, requests[k] # NoRequest
               PROVE  \E i \in Slots : i < length /\ keyAt[i] = k
    BY DEF StoredIsListed
  <2>1. /\ indexOf[k] \in Slots
        /\ indexOf[k] < length
        /\ keyAt[indexOf[k]] = k
    BY DEF IndexInv, TypeOK, SlotInv, SlotsAgree
  <2> QED
    BY <2>1
<1>3. IndexInv /\ SlotInv /\ [Next]_vars => IndexInv' /\ SlotInv'
  BY <1>1, StepIndexInv
<1>4. Init => IndexInv /\ SlotInv
  BY InitIndexInv, InitSlotInv
<1> QED
  BY <1>2, <1>3, <1>4, PTL DEF Spec

-----------------------------------------------------------------------------
(* The refinement of RequestLog with a single caller, for any keys, bounds *)
(* and calls cut short.                                                    *)

\* found lists the keys of the slots below n that have a type in filter, once
\* each, and no slot below n is without its request.
FoundBelow(n, filter, found) ==
    /\ found \in Seq(Keys)
    /\ \A j \in 0 .. n - 1 : keyAt[j] \in Keys /\ requests[keyAt[j]] # NoRequest
    /\ \A k \in Keys :
         (\E i \in 1 .. Len(found) : found[i] = k)
           <=> (TypeOf[k] \in filter /\ \E j \in 0 .. n - 1 : keyAt[j] = k)
    /\ \A i, j \in 1 .. Len(found) : found[i] = found[j] => i = j

\* What a listing knows between two gets: nobody has changed the store since
\* it began.
Listing(r) ==
    r.pc \in {"listGetKey", "listGetRequest"} =>
        /\ r.filter \in Filters
        /\ r.end = length
        /\ r.index < length
        /\ FoundBelow(r.index, r.filter, r.found)
        /\ r.pc = "listGetRequest" => r.key = keyAt[r.index]

\* The part of the refinement's invariant that is about listings.
ListInv ==
    /\ answer = [c \in Callers |-> answer[c]]
    /\ \A c \in Callers : Listing(call[c])

\* RequestLog counts with the same operator.
LEMMA SameCardinality == \A S : Promise!Cardinality(S) = Cardinality(S)
BY DEF Promise!Cardinality, Cardinality

\* What was found once every slot was visited are the stored requests of the
\* types asked for.
LEMMA FoundAll ==
    ASSUME IndexInv, SlotInv, NEW filter, NEW found,
           FoundBelow(length, filter, found)
    PROVE  /\ Promise!ToSet(found) = Promise!Matching(filter)
           /\ Len(found) = Cardinality(Promise!Matching(filter))
<1>1. Promise!ToSet(found) = Promise!Matching(filter)
  <2>1. \A k \in Keys : requests[k] # NoRequest => \E j \in 0 .. length - 1 : keyAt[j] = k
    <3> SUFFICES ASSUME NEW k \in Keys, requests[k] # NoRequest
                 PROVE  \E j \in 0 .. length - 1 : keyAt[j] = k
      OBVIOUS
    <3>1. indexOf[k] # NoIndex /\ indexOf[k] \in Slots
      BY DEF IndexInv, TypeOK, StoredIsIndexed, Slots, NoIndex
    <3>2. indexOf[k] < length /\ keyAt[indexOf[k]] = k
      BY <3>1 DEF SlotInv, SlotsAgree
    <3>3. indexOf[k] \in 0 .. length - 1
      BY <3>1, <3>2 DEF Slots, IndexInv, TypeOK
    <3> QED
      BY <3>2, <3>3
  <2>2. found \in Seq(Keys) /\ DOMAIN found = 1 .. Len(found)
    BY DEF FoundBelow
  <2>3. \A k \in Keys : (\E i \in DOMAIN found : found[i] = k)
                          <=> (TypeOf[k] \in filter /\ requests[k] # NoRequest)
    BY <2>1, <2>2 DEF FoundBelow
  <2>4. \A i \in DOMAIN found : found[i] \in Keys
    BY <2>2
  <2> QED
    BY <2>3, <2>4 DEF Promise!ToSet, Promise!Matching
<1>2. Len(found) = Cardinality(Promise!ToSet(found))
  <2> DEFINE S == Promise!ToSet(found)
             n == Len(found)
  <2>1. found \in [1 .. n -> S] /\ n \in Nat
    BY DEF FoundBelow, Promise!ToSet
  <2>2. found \in Bijection(1 .. n, S)
    BY <2>1 DEF FoundBelow, Promise!ToSet, Bijection, Injection, Surjection, IsInjective
  <2>3. IsFiniteSet(1 .. n) /\ Cardinality(1 .. n) = n
    <3>1. /\ IsFiniteSet(1 .. n)
          /\ Cardinality(1 .. n) = IF 1 > n THEN 0 ELSE n - 1 + 1
      BY <2>1, FS_Interval
    <3> HIDE DEF n
    <3> QED
      BY <2>1, <3>1
  <2>4. Cardinality(S) = Cardinality(1 .. n)
    BY <2>2, <2>3, FS_Bijection DEF ExistsBijection
  <2> QED
    BY <2>3, <2>4
<1> QED
  BY <1>1, <1>2

\* Going on with a listing, or returning from it, is a listing of RequestLog
\* or changes nothing there.
LEMMA ListFromRefines ==
    ASSUME OneCaller, IndexInv, SlotInv, ListInv, NEW c \in Callers, NEW n \in Nat,
           NEW filter \in Filters, NEW found, n <= length,
           FoundBelow(n, filter, found), ListFrom(c, n, length, filter, found),
           UNCHANGED <<length, indexOf, keyAt, requests>>
    PROVE  ListInv' /\ [Promise!Next]_<<requests, answer>>
<1>0. /\ \A d \in Callers : d = c
      /\ answer = [d \in Callers |-> answer[d]]
      /\ call = [d \in Callers |-> call[d]]
      /\ length \in Nat
  BY DEF OneCaller, ListInv, IndexInv, TypeOK
<1>1. CASE n < length
  <2> DEFINE next == [Idle EXCEPT !.pc = "listGetKey", !.index = n, !.end = length,
                                  !.filter = filter, !.found = found]
  <2>1. call'[c] = next /\ UNCHANGED answer
    BY <1>0, <1>1 DEF ListFrom, MoreToList, Continue
  <2>2. /\ next.pc = "listGetKey"
        /\ next.index = n
        /\ next.end = length
        /\ next.filter = filter
        /\ next.found = found
    BY DEF Idle
  <2> HIDE DEF next
  <2>3. FoundBelow(n, filter, found)'
    BY DEF FoundBelow
  <2>4. Listing(call[c])'
    BY <1>1, <2>1, <2>2, <2>3 DEF Listing
  <2>5. ListInv'
    BY <1>0, <2>1, <2>4 DEF ListInv
  <2> QED
    BY <2>1, <2>5
<1>2. CASE ~ (n < length)
  <2>1. n = length
    BY <1>0, <1>2
  <2>2. Answer(c, found)
    BY <1>2 DEF ListFrom, MoreToList
  <2>3. call'[c].pc = "idle" /\ answer'[c] = found /\ answer' = [answer EXCEPT ![c] = found]
    BY <1>0, <2>2 DEF Answer, Return, Continue, Idle
  <2>4. ListInv'
    <3>1. answer' = [d \in Callers |-> answer'[d]]
      BY <1>0, <2>3
    <3>2. Listing(call[c])'
      BY <2>3 DEF Listing
    <3> QED
      BY <1>0, <3>1, <3>2 DEF ListInv
  <2>5. /\ Promise!ToSet(found) = Promise!Matching(filter)
        /\ Len(found) = Cardinality(Promise!Matching(filter))
    BY <2>1, FoundAll
  <2>6. CASE found = Failed
    <3>1. Promise!ListFails(c)
      BY <2>3, <2>6 DEF Promise!ListFails
    <3> QED
      BY <2>4, <3>1 DEF Promise!Next
  <2>7. CASE found # Failed
    <3>1. Promise!List(c, filter)
      BY <2>3, <2>5, <2>7, SameCardinality DEF Promise!List
    <3>2. filter \in Promise!Filters
      BY DEF Filters, Promise!Filters
    <3> QED
      BY <2>4, <3>1, <3>2 DEF Promise!Next
  <2> QED
    BY <2>6, <2>7
<1> QED
  BY <1>1, <1>2

LEMMA InitRefines == Init => ListInv /\ Promise!Init
BY DEF Init, ListInv, Listing, Idle, Promise!Init

LEMMA StepRefines ==
    ASSUME OneCaller, IndexInv, SlotInv, ListInv, [Next]_vars
    PROVE  ListInv' /\ [Promise!Next]_<<requests, answer>>
<1>0. /\ TypeOK
      /\ \A c \in Callers : call[c] \in Call /\ Carries(call[c], indexOf)
                                            /\ Listing(call[c])
      /\ answer = [c \in Callers |-> answer[c]]
  BY DEF IndexInv, TypeOK, ListInv
<1>1. CASE UNCHANGED vars
  BY <1>1 DEF ListInv, Listing, FoundBelow, vars
<1>2. CASE Next
  <2> PICK c \in Callers : Step(c)
    BY <1>2 DEF Next
  <2>0. /\ \A d \in Callers : d = c
        /\ \A r : Continue(c, r) => call'[c] = r
    BY <1>0 DEF OneCaller, Continue, TypeOK
  \* Nothing is listed, and the requests change under one key at most.
  <2>a. CASE /\ call'[c].pc \notin {"listGetKey", "listGetRequest"}
             /\ UNCHANGED answer
             /\ \/ UNCHANGED requests
                \/ \E k \in Keys, s \in RequestStates :
                     requests' = [requests EXCEPT ![k] = s]
    <3>1. ListInv'
      BY <1>0, <2>0, <2>a DEF ListInv, Listing
    <3>2. CASE UNCHANGED requests
      BY <2>a, <3>1, <3>2
    <3>3. ASSUME NEW k \in Keys, NEW s \in RequestStates,
                 requests' = [requests EXCEPT ![k] = s]
          PROVE  Promise!Next
      <4>1. Promise!Change(k)
        BY <2>a, <3>3 DEF Promise!Change, Promise!RequestStates, RequestStates
      <4> QED
        BY <4>1 DEF Promise!Next
    <3> QED
      BY <2>a, <3>1, <3>2, <3>3
  <2>1. ASSUME NEW k \in Keys, Set(c, k) PROVE ListInv' /\ [Promise!Next]_<<requests, answer>>
    BY <2>0, <2>1, <2>a DEF Set, Idle
  <2>2. CASE SetGetIndex(c)
    <3>1. call'[c].pc \in {"setGetLength", "putIndex"}
      BY <1>0, <2>0, <2>2 DEF SetGetIndex, NextOfSet, Call
    <3> QED
      BY <2>2, <2>a, <3>1 DEF SetGetIndex
  <2>3. CASE SetGetLength(c)
    BY <1>0, <2>0, <2>3, <2>a DEF SetGetLength, Call
  <2>4. CASE PutLength(c)
    BY <1>0, <2>0, <2>4, <2>a DEF PutLength, Call
  <2>5. CASE PutIndex(c)
    BY <1>0, <2>0, <2>5, <2>a DEF PutIndex, Call
  <2>6. CASE PutKey(c)
    BY <1>0, <2>0, <2>6, <2>a DEF PutKey, Call
  <2>7. CASE PutRequest(c)
    <3>1. call'[c].pc = "idle"
      BY <2>0, <2>7 DEF PutRequest, Return, Idle
    <3>2. call[c].key \in Keys /\ call[c].status \in RequestStates
      BY <1>0, <2>7 DEF PutRequest, At, Carries, RequestStates
    <3> QED
      BY <2>7, <2>a, <3>1, <3>2 DEF PutRequest
  <2>8. ASSUME NEW k \in Removable, Remove(c, k) PROVE ListInv' /\ [Promise!Next]_<<requests, answer>>
    BY <2>0, <2>8, <2>a DEF Remove, Idle
  <2>9. CASE Delete(c)
    <3>1. call'[c].pc = "idle"
      BY <2>0, <2>9 DEF Delete, Return, Idle
    <3>2. call[c].key \in Keys /\ NoRequest \in RequestStates
      BY <1>0, <2>9 DEF Delete, At, Carries, RequestStates
    <3> QED
      BY <2>9, <2>a, <3>1, <3>2 DEF Delete
  <2>10. ASSUME NEW k \in Keys, NEW s \in Statuses, SetStatus(c, k, s) PROVE ListInv' /\ [Promise!Next]_<<requests, answer>>
    BY <2>0, <2>10, <2>a DEF SetStatus, Idle
  <2>11. ASSUME NEW filter \in Filters, GetAllRequests(c, filter)
         PROVE  ListInv' /\ [Promise!Next]_<<requests, answer>>
    <3>1. FoundBelow(0, filter, <<>>)
      BY DEF FoundBelow
    <3>2. length \in Nat /\ 0 <= length
      BY <1>0 DEF TypeOK
    <3>3. ListFrom(c, 0, length, filter, <<>>) /\ UNCHANGED <<length, indexOf, keyAt, requests>>
      BY <2>11 DEF GetAllRequests
    <3> QED
      BY <3>1, <3>2, <3>3, ListFromRefines
  <2>12. CASE ListGetKey(c)
    <3> DEFINE r == call[c]
    <3>1. /\ r.pc = "listGetKey" /\ r \in Call
          /\ r.index \in Nat /\ r.index < length
          /\ Listing(r)
      BY <1>0, <2>12 DEF ListGetKey, At, Carries, Listing
    <3>2. r.index \in Slots
      BY <1>0, <3>1, StoreAssumption DEF TypeOK, Slots
    <3>3. /\ call'[c] = [r EXCEPT !.pc = "listGetRequest", !.key = keyAt[r.index]]
          /\ UNCHANGED <<length, indexOf, keyAt, requests, answer>>
      BY <2>0, <2>12, <3>2 DEF ListGetKey
    <3>4. /\ call'[c].pc = "listGetRequest"
          /\ call'[c].key = keyAt[r.index]
          /\ call'[c].index = r.index
          /\ call'[c].end = r.end
          /\ call'[c].filter = r.filter
          /\ call'[c].found = r.found
      BY <3>1, <3>3 DEF Call
    <3> HIDE DEF r
    <3>5. FoundBelow(r.index, r.filter, r.found) => (FoundBelow(call[c].index, call[c].filter, call[c].found))'
      BY <3>3, <3>4 DEF FoundBelow
    <3>6. Listing(call[c])'
      BY <3>1, <3>3, <3>4, <3>5 DEF Listing
    <3>7. ListInv'
      BY <1>0, <2>0, <3>3, <3>6 DEF ListInv
    <3> QED
      BY <3>3, <3>7
  <2>13. CASE ListGetRequest(c)
    <3> DEFINE k == call[c].key
               i == call[c].index
               filter == call[c].filter
               found == call[c].found
               more == IF TypeOf[k] \in filter THEN Append(found, k) ELSE found
    <3>1. /\ filter \in Filters
          /\ call[c].end = length
          /\ i \in Nat /\ i < length
          /\ FoundBelow(i, filter, found)
          /\ k = keyAt[i]
      BY <1>0, <2>13 DEF ListGetRequest, At, Carries, Listing
    <3>2. UNCHANGED <<length, indexOf, keyAt, requests>>
      BY <2>13 DEF ListGetRequest
    <3>3. CASE k = NoKey \/ requests[k] = NoRequest
      <4>1. Answer(c, Failed)
        BY <2>13, <3>3 DEF ListGetRequest
      <4>2. call'[c].pc = "idle" /\ answer' = [answer EXCEPT ![c] = Failed]
        BY <2>0, <4>1 DEF Answer, Return, Idle
      <4>3. ListInv'
        BY <1>0, <2>0, <4>2 DEF ListInv, Listing
      <4>4. Promise!ListFails(c)
        BY <3>2, <4>2 DEF Promise!ListFails
      <4> QED
        BY <4>3, <4>4 DEF Promise!Next
    <3>4. CASE ~ (k = NoKey \/ requests[k] = NoRequest)
      <4>1. ListFrom(c, i + 1, length, filter, more)
        BY <2>13, <3>1, <3>4 DEF ListGetRequest
      <4>2. i + 1 \in Nat /\ i + 1 <= length /\ i \in Slots
        BY <1>0, <3>1, StoreAssumption DEF TypeOK, Slots
      <4>3. k \in Keys /\ requests[k] # NoRequest
        BY <1>0, <3>1, <3>4, <4>2 DEF TypeOK
      <4>4. FoundBelow(i + 1, filter, more)
        <5> HIDE DEF k, i, filter, found
        <5>1. \A j \in 0 .. (i + 1) - 1 : j \in 0 .. i - 1 \/ j = i
          BY <3>1
        <5>2. \A j \in 0 .. (i + 1) - 1 : keyAt[j] \in Keys /\ requests[keyAt[j]] # NoRequest
          BY <3>1, <4>3, <5>1 DEF FoundBelow
        <5>3. \A j \in 0 .. i - 1 : keyAt[j] # k
          <6> SUFFICES ASSUME NEW j \in 0 .. i - 1, keyAt[j] = k PROVE FALSE
            OBVIOUS
          <6>1. j \in Slots /\ keyAt[j] # NoKey /\ keyAt[i] # NoKey /\ j # i
            BY <3>1, <4>2, <4>3, StoreAssumption DEF Slots
          <6>2. indexOf[k] = j /\ indexOf[k] = i
            BY <3>1, <4>2, <6>1 DEF SlotInv, SlotsAgree
          <6> QED
            BY <6>1, <6>2
        <5>4. found \in Seq(Keys) /\ \A m \in 1 .. Len(found) : found[m] # k
          BY <3>1, <4>3, <5>3 DEF FoundBelow
        <5>5. CASE TypeOf[k] \in filter
          <6>1. more = Append(found, k)
            BY <5>5
          <6>2. /\ more \in Seq(Keys)
                /\ Len(more) = Len(found) + 1
                /\ Len(found) \in Nat
                /\ \A m \in 1 .. Len(found) : more[m] = found[m]
                /\ more[Len(found) + 1] = k
            BY <4>3, <5>4, <6>1
          <6> HIDE DEF more
          <6>3. \A m \in 1 .. Len(more) : m \in 1 .. Len(found) \/ m = Len(found) + 1
            BY <6>2
          <6>4. \A m, l \in 1 .. Len(more) : more[m] = more[l] => m = l
            BY <3>1, <5>4, <6>2, <6>3 DEF FoundBelow
          <6>5. \A q \in Keys :
                  (\E m \in 1 .. Len(more) : more[m] = q)
                    <=> (q = k \/ \E m \in 1 .. Len(found) : found[m] = q)
            BY <6>2, <6>3
          <6>6. \A q \in Keys :
                  (\E m \in 1 .. Len(more) : more[m] = q)
                    <=> (TypeOf[q] \in filter /\ \E j \in 0 .. (i + 1) - 1 : keyAt[j] = q)
            <7>1. \A q \in Keys : (\E j \in 0 .. (i + 1) - 1 : keyAt[j] = q)
                                    <=> (q = k \/ \E j \in 0 .. i - 1 : keyAt[j] = q)
              BY <3>1, <5>1
            <7> QED
              BY <3>1, <5>5, <6>5, <7>1 DEF FoundBelow
          <6> QED
            BY <5>2, <6>2, <6>4, <6>6 DEF FoundBelow
        <5>6. CASE TypeOf[k] \notin filter
          <6>1. more = found
            BY <5>6
          <6>2. \A q \in Keys : (\E j \in 0 .. (i + 1) - 1 : keyAt[j] = q)
                                  <=> (q = k \/ \E j \in 0 .. i - 1 : keyAt[j] = q)
            BY <3>1, <5>1
          <6> HIDE DEF more
          <6> QED
            BY <3>1, <5>2, <5>6, <6>1, <6>2 DEF FoundBelow
        <5> QED
          BY <5>5, <5>6
      <4> HIDE DEF k, i, filter, found, more
      <4> QED
        BY <3>1, <3>2, <4>1, <4>2, <4>4, ListFromRefines
    <3> QED
      BY <3>3, <3>4
  <2>14. CASE Abandon(c)
    BY <2>0, <2>14, <2>a DEF Abandon, Return, Idle
  <2> QED
    BY <2>1, <2>2, <2>3, <2>4, <2>5, <2>6, <2>7, <2>8, <2>9, <2>10, <2>11, <2>12,
       <2>13, <2>14 DEF Step
<1> QED
  BY <1>1, <1>2

\* With a single caller the store does what its interface promises: requests
\* change one at a time and in one step, and a listing names what is stored,
\* once each, or fails as a whole, whatever calls were cut short before
\* (set, remove, setStatus, getAllRequests).
THEOREM OneCallerKeepsPromise == OneCaller => (Spec => Promised)
<1> SUFFICES ASSUME OneCaller PROVE Spec => Promised
  OBVIOUS
<1>1. Init => IndexInv /\ SlotInv /\ ListInv /\ Promise!Init
  BY InitIndexInv, InitSlotInv, InitRefines
<1>2. IndexInv /\ SlotInv /\ ListInv /\ [Next]_vars =>
        IndexInv' /\ SlotInv' /\ ListInv' /\ [Promise!Next]_<<requests, answer>>
  BY StepIndexInv, StepSlotInv, StepRefines
<1> QED
  BY <1>1, <1>2, PTL DEF Spec, Promised, Promise!Spec
=============================================================================
