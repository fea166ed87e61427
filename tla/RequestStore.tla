---------------------------- MODULE RequestStore ----------------------------
(***************************************************************************)
(* The request store of a keeper, LevelDBPersistenceAdapter in             *)
(* lib/persistence/leveldb.ts: an append-only list of keys kept in four    *)
(* kinds of LevelDB entries, which every operation reads and writes one    *)
(* await at a time.                                                        *)
(*                                                                         *)
(* A caller is an asynchronous function of the keeper process: a dispatch  *)
(* handler (lib/p2p/core.ts), scripts/repay.js.  One action is one         *)
(* operation of the database and the code up to the next await, so calls   *)
(* interleave as the event loop lets them.  A database operation may       *)
(* reject, and the process may die, between any two of them: Abandon.      *)
(* Content that no operation changes is the key's; a request's value is    *)
(* its status.                                                             *)
(***************************************************************************)
EXTENDS Integers, Sequences

CONSTANTS
    Keys,        \* hashes of the signatures of the requests in play
    Callers,
    Types,       \* "transfer" and "burn"
    TypeOf,      \* requestType of the request under a key
    Statuses,    \* statuses a request may have
    Pending,     \* the one a request without a status is given
    Removable,   \* keys somebody removes
    MaxLength,   \* bound on the length entry
    MaxAbandons, \* bound on the calls that are abandoned
    NoKey, NoRequest, Failed

ASSUME StoreAssumption ==
    /\ TypeOf \in [Keys -> Types]
    /\ Removable \subseteq Keys
    /\ Pending \in Statuses
    /\ NoRequest \notin Statuses
    /\ NoKey \notin Keys
    /\ MaxLength \in Nat
    /\ MaxAbandons \in Nat

VARIABLES
    length,     \* the entry 'length'
    indexOf,    \* the entries 'index:<key>'
    keyAt,      \* the entries 'key: <index>'
    requests,   \* the entries 'request:<key>'
    call,       \* what every caller is in the middle of
    answer,     \* last result of getAllRequests per caller
    abandoned   \* calls abandoned so far

vars == <<length, indexOf, keyAt, requests, call, answer, abandoned>>

-----------------------------------------------------------------------------

NoIndex == -1

Slots == 0 .. MaxLength - 1

RequestStates == Statuses \union {NoRequest}

Filters == {Types} \union {{t} : t \in Types}

\* The next database operation of a call.
Pc == {"idle", "setGetIndex", "setGetLength", "putLength", "putIndex", "putKey",
       "putRequest", "del", "listGetKey", "listGetRequest"}

Call == [pc : Pc, key : Keys \union {NoKey}, index : Int, status : RequestStates,
         filter : SUBSET Types, end : Nat, found : Seq(Keys)]

Idle == [pc |-> "idle", key |-> NoKey, index |-> NoIndex, status |-> NoRequest,
         filter |-> {}, end |-> 0, found |-> <<>>]

Init ==
    /\ length = 0
    /\ indexOf = [k \in Keys |-> NoIndex]
    /\ keyAt = [i \in Slots |-> NoKey]
    /\ requests = [k \in Keys |-> NoRequest]
    /\ call = [c \in Callers |-> Idle]
    /\ answer = [c \in Callers |-> <<>>]
    /\ abandoned = 0

At(c, pc) == call[c].pc = pc

Continue(c, next) == call' = [call EXCEPT ![c] = next]

Return(c) == Continue(c, Idle)

-----------------------------------------------------------------------------
(* set(request): getIndex, then length and its increment for a new key,    *)
(* then the three entries of the key.                                      *)

\* Bug variant: index 0 taken for a missing entry.
IndexEntryFalsy(k) == IF indexOf[k] = 0 THEN NoIndex ELSE indexOf[k]

\* getIndex: the entry, or -1.
IndexEntry(k) == indexOf[k]

\* Where set goes once getIndex answered.
NextOfSet(index) == IF index = NoIndex THEN "setGetLength" ELSE "putIndex"

Set(c, k) ==
    /\ At(c, "idle")
    /\ Continue(c, [Idle EXCEPT !.pc = "setGetIndex", !.key = k, !.status = Pending])
    /\ UNCHANGED <<length, indexOf, keyAt, requests, answer, abandoned>>

SetGetIndex(c) ==
    LET index == IndexEntry(call[c].key) IN
    /\ At(c, "setGetIndex")
    /\ Continue(c, [call[c] EXCEPT !.pc = NextOfSet(index), !.index = index])
    /\ UNCHANGED <<length, indexOf, keyAt, requests, answer, abandoned>>

SetGetLength(c) ==
    /\ At(c, "setGetLength")
    /\ length < MaxLength
    /\ Continue(c, [call[c] EXCEPT !.pc = "putLength", !.index = length])
    /\ UNCHANGED <<length, indexOf, keyAt, requests, answer, abandoned>>

\* Bug variant: the new length is not written.
PutLengthForgotten(c) ==
    /\ At(c, "putLength")
    /\ Continue(c, [call[c] EXCEPT !.pc = "putIndex"])
    /\ UNCHANGED <<length, indexOf, keyAt, requests, answer, abandoned>>

\* Bug variant: the length counts one slot too many.
PutLengthPastEnd(c) ==
    /\ At(c, "putLength")
    /\ length' = call[c].index + 2
    /\ Continue(c, [call[c] EXCEPT !.pc = "putIndex"])
    /\ UNCHANGED <<indexOf, keyAt, requests, answer, abandoned>>

PutLength(c) ==
    /\ At(c, "putLength")
    /\ length' = call[c].index + 1
    /\ Continue(c, [call[c] EXCEPT !.pc = "putIndex"])
    /\ UNCHANGED <<indexOf, keyAt, requests, answer, abandoned>>

PutIndex(c) ==
    /\ At(c, "putIndex")
    /\ indexOf' = [indexOf EXCEPT ![call[c].key] = call[c].index]
    /\ Continue(c, [call[c] EXCEPT !.pc = "putKey"])
    /\ UNCHANGED <<length, keyAt, requests, answer, abandoned>>

PutKey(c) ==
    /\ At(c, "putKey")
    /\ keyAt' = [keyAt EXCEPT ![call[c].index] = call[c].key]
    /\ Continue(c, [call[c] EXCEPT !.pc = "putRequest"])
    /\ UNCHANGED <<length, indexOf, requests, answer, abandoned>>

PutRequest(c) ==
    /\ At(c, "putRequest")
    /\ requests' = [requests EXCEPT ![call[c].key] = call[c].status]
    /\ Return(c)
    /\ UNCHANGED <<length, indexOf, keyAt, answer, abandoned>>

-----------------------------------------------------------------------------
(* remove(key), setStatus(key, value).                                     *)

\* remove: getIndex, and false for a key that was never set.  Only the
\* request is deleted; its index and its place in the list stay.
Remove(c, k) ==
    /\ At(c, "idle")
    /\ IndexEntry(k) # NoIndex
    /\ Continue(c, [Idle EXCEPT !.pc = "del", !.key = k])
    /\ UNCHANGED <<length, indexOf, keyAt, requests, answer, abandoned>>

\* Bug variant: the index entry is deleted with the request.
DeleteIndexToo(c) ==
    /\ At(c, "del")
    /\ requests' = [requests EXCEPT ![call[c].key] = NoRequest]
    /\ indexOf' = [indexOf EXCEPT ![call[c].key] = NoIndex]
    /\ Return(c)
    /\ UNCHANGED <<length, keyAt, answer, abandoned>>

Delete(c) ==
    /\ At(c, "del")
    /\ requests' = [requests EXCEPT ![call[c].key] = NoRequest]
    /\ Return(c)
    /\ UNCHANGED <<length, indexOf, keyAt, answer, abandoned>>

\* setStatus: get, then set with the new status.  A missing request is a
\* TypeError before anything is written.
SetStatus(c, k, s) ==
    /\ At(c, "idle")
    /\ requests[k] # NoRequest
    /\ Continue(c, [Idle EXCEPT !.pc = "setGetIndex", !.key = k, !.status = s])
    /\ UNCHANGED <<length, indexOf, keyAt, requests, answer, abandoned>>

-----------------------------------------------------------------------------
(* getAllRequests(filter): length, then key and request of every slot.     *)

Answer(c, result) ==
    /\ answer' = [answer EXCEPT ![c] = result]
    /\ Return(c)

\* The loop condition.
MoreToList(i, end) == i < end

\* Go on with slot i, or return what was found.
ListFrom(c, i, end, filter, found) ==
    IF MoreToList(i, end)
    THEN /\ Continue(c, [Idle EXCEPT !.pc = "listGetKey", !.index = i, !.end = end,
                                     !.filter = filter, !.found = found])
         /\ UNCHANGED answer
    ELSE Answer(c, found)

GetAllRequests(c, filter) ==
    /\ At(c, "idle")
    /\ ListFrom(c, 0, length, filter, <<>>)
    /\ UNCHANGED <<length, indexOf, keyAt, requests, abandoned>>

\* A slot past the last one the database holds has no entry.
ListGetKey(c) ==
    LET i == call[c].index IN
    /\ At(c, "listGetKey")
    /\ Continue(c, [call[c] EXCEPT !.pc = "listGetRequest",
                                   !.key = IF i \in Slots THEN keyAt[i] ELSE NoKey])
    /\ UNCHANGED <<length, indexOf, keyAt, requests, answer, abandoned>>

\* The status of a missing request is assigned before the request is tested,
\* so the whole listing fails.
ListGetRequest(c) ==
    LET k == call[c].key IN
    /\ At(c, "listGetRequest")
    /\ IF k = NoKey \/ requests[k] = NoRequest
       THEN Answer(c, Failed)
       ELSE ListFrom(c, call[c].index + 1, call[c].end, call[c].filter,
                     IF TypeOf[k] \in call[c].filter THEN Append(call[c].found, k)
                                                     ELSE call[c].found)
    /\ UNCHANGED <<length, indexOf, keyAt, requests, abandoned>>

-----------------------------------------------------------------------------

\* A put or get rejects, or the process dies: the call ends where it is and
\* what it wrote stays.
Abandon(c) ==
    /\ ~ At(c, "idle")
    /\ abandoned < MaxAbandons
    /\ abandoned' = abandoned + 1
    /\ Return(c)
    /\ UNCHANGED <<length, indexOf, keyAt, requests, answer>>

Step(c) ==
    \/ \E k \in Keys : Set(c, k)
    \/ SetGetIndex(c)
    \/ SetGetLength(c)
    \/ PutLength(c)
    \/ PutIndex(c)
    \/ PutKey(c)
    \/ PutRequest(c)
    \/ \E k \in Removable : Remove(c, k)
    \/ Delete(c)
    \/ \E k \in Keys, s \in Statuses : SetStatus(c, k, s)
    \/ \E filter \in Filters : GetAllRequests(c, filter)
    \/ ListGetKey(c)
    \/ ListGetRequest(c)
    \/ Abandon(c)

Next == \E c \in Callers : Step(c)

Spec == Init /\ [][Next]_vars

-----------------------------------------------------------------------------
(* Properties.                                                             *)

\* Type invariant.
TypeOK ==
    /\ length \in 0 .. MaxLength
    /\ indexOf \in [Keys -> Slots \union {NoIndex}]
    /\ keyAt \in [Slots -> Keys \union {NoKey}]
    /\ requests \in [Keys -> RequestStates]
    /\ call \in [Callers -> Call]
    /\ abandoned \in 0 .. MaxAbandons

\* remove finds every request that was ever stored: whatever calls interleave
\* or are abandoned, a request is written after its index (set, remove).
StoredIsIndexed ==
    \A k \in Keys : requests[k] # NoRequest => indexOf[k] # NoIndex

\* Every stored request has a slot a listing visits: set reserves a slot for
\* its key, and no other key is ever given the same one (set, getAllRequests).
StoredIsListed ==
    \A k \in Keys :
        requests[k] # NoRequest => \E i \in Slots : i < length /\ keyAt[i] = k

\* lib/persistence/leveldb.ts tests each request before it lists it: a
\* listing skips what is missing and never fails for it.
ListingAnswers == \A c \in Callers : answer[c] # Failed

\* The store does what its interface promises.
Promise == INSTANCE RequestLog WITH stored <- requests
Promised == Promise!Spec
=============================================================================
