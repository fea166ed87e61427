------------------------------ MODULE Adapters ------------------------------
(***************************************************************************)
(* The request stores other than LevelDB: a Map in memory and the          *)
(* browser's localStorage (lib/persistence/inMemory.ts, localStorage.ts).  *)
(*                                                                         *)
(* One store is used by callers whose calls overlap at their awaits.  An   *)
(* action is the code between two awaits; only setStatus has two parts     *)
(* that matter, between which the others may run.  The hash of a key is    *)
(* what it is taken of.  A caller has the keys set gave it.                *)
(***************************************************************************)
CONSTANTS
    Stored,      \* requests that are stored: their kind, nonce and asset
    Setters,     \* callers of setStatus
    Absent

VARIABLES
    adapter,     \* "inMemory" or "localStorage"
    items,       \* the map: by key, the request with its status
    unprefixed,  \* localStorage: items under keys without "request:"
    setter,      \* by caller, a request and the item setStatus got, or Absent
    keyed,       \* requests for which set gave out a key
    due          \* by request, the status its calls gave it; Absent if removed

adapterVars == <<adapter, items, unprefixed, setter, keyed, due>>

-----------------------------------------------------------------------------

States == {"pending", "succeeded"}

\* The Map keeps neither the type nor, misspelt, the asset.
KeptInMemory(r) == [nonce |-> r.nonce, asset |-> Absent, requestType |-> Absent]

ASSUME AdaptersAssumption ==
    /\ Absent \notin States
    /\ \A r \in Stored, status \in States :
         /\ Absent # [request |-> r, status |-> status]
         /\ Absent # [request |-> KeptInMemory(r), status |-> status]

Kept(r) == IF adapter = "inMemory" THEN KeptInMemory(r) ELSE r

\* object-hash of what is kept.
KeyOf(r) == Kept(r)

AllKeys == {KeyOf(r) : r \in Stored}

AdaptersInit ==
    /\ adapter \in {"inMemory", "localStorage"}
    /\ items = [k \in AllKeys |-> Absent]
    /\ unprefixed = {}
    /\ setter = [c \in Setters |-> Absent]
    /\ keyed = {}
    /\ due = [r \in Stored |-> Absent]

Put(r) ==
    /\ items' = [items EXCEPT ![KeyOf(r)] = [request |-> Kept(r), status |-> "pending"]]
    /\ keyed' = keyed \union {r}
    /\ due' = [due EXCEPT ![r] = "pending"]

\* set of the Map.
SetInMemory(r) ==
    /\ adapter = "inMemory"
    /\ Put(r)
    /\ UNCHANGED <<adapter, unprefixed, setter>>

\* set of localStorage, which rejects when its quota is used up.
SetLocalStorage(r) ==
    /\ adapter = "localStorage"
    /\ Put(r) \/ UNCHANGED <<items, keyed, due>>
    /\ UNCHANGED <<adapter, unprefixed, setter>>

\* remove of the key set gave out for r.
RemoveItem(r) ==
    /\ r \in keyed
    /\ items' = [items EXCEPT ![KeyOf(r)] = Absent]
    /\ due' = [due EXCEPT ![r] = Absent]
    /\ UNCHANGED <<adapter, unprefixed, setter, keyed>>

RemoveInMemory(r) == adapter = "inMemory" /\ RemoveItem(r)

RemoveLocalStorage(r) == adapter = "localStorage" /\ RemoveItem(r)

\* setStatus up to its await: a request that is not there is an error, which
\* localStorage keeps to itself.
SetStatusGets(c, r) ==
    /\ setter[c] = Absent
    /\ r \in keyed
    /\ items[KeyOf(r)] # Absent
    /\ setter' = [setter EXCEPT ![c] = [request |-> r, item |-> items[KeyOf(r)]]]
    /\ UNCHANGED <<adapter, items, unprefixed, keyed, due>>

\* What setStatus owes its caller, unless the request was removed meanwhile.
SetsDue(r, status) ==
    due' = [due EXCEPT ![r] = IF @ = Absent THEN Absent ELSE status]

\* Bug variant: the item is put back as it was read.
SetStatusUnchanged(c, status) ==
    /\ adapter = "inMemory"
    /\ setter[c] # Absent
    /\ items' = [items EXCEPT ![KeyOf(setter[c].request)] = setter[c].item]
    /\ SetsDue(setter[c].request, status)
    /\ setter' = [setter EXCEPT ![c] = Absent]
    /\ UNCHANGED <<adapter, unprefixed, keyed>>

\* The Map: the item is put back, also over a removal.
SetStatusInMemory(c, status) ==
    /\ adapter = "inMemory"
    /\ setter[c] # Absent
    /\ items' = [items EXCEPT ![KeyOf(setter[c].request)] =
                                 [setter[c].item EXCEPT !.status = status]]
    /\ SetsDue(setter[c].request, status)
    /\ setter' = [setter EXCEPT ![c] = Absent]
    /\ UNCHANGED <<adapter, unprefixed, keyed>>

\* localStorage: it is put under a key that nothing reads; an error is thrown
\* in any case and caught.
SetStatusLocalStorage(c, status) ==
    /\ adapter = "localStorage"
    /\ setter[c] # Absent
    /\ unprefixed' = unprefixed \union {KeyOf(setter[c].request)}
    /\ SetsDue(setter[c].request, status)
    /\ setter' = [setter EXCEPT ![c] = Absent]
    /\ UNCHANGED <<adapter, items, keyed>>

get(k) == IF items[k] = Absent THEN Absent ELSE items[k].request

has(k) == items[k] # Absent

getStatus(k) == IF items[k] = Absent THEN Absent ELSE items[k].status

\* getAllRequests of the Map compares a type that is not kept.
ListInMemory(filter) == {k \in AllKeys : has(k) /\ items[k].request.requestType = filter}

\* localStorage looks every key up with its prefix twice: it finds nothing,
\* and the type of nothing is an error.
ListLocalStorage(filter) ==
    IF filter = Absent \/ \A k \in AllKeys : ~ has(k) THEN {} ELSE Absent

getAllRequests(filter) ==
    IF adapter = "inMemory" THEN ListInMemory(filter) ELSE ListLocalStorage(filter)

AdaptersNext ==
    \/ \E r \in Stored :
         \/ SetInMemory(r) \/ SetLocalStorage(r)
         \/ RemoveInMemory(r) \/ RemoveLocalStorage(r)
         \/ \E c \in Setters : SetStatusGets(c, r)
    \/ \E c \in Setters, status \in States :
         SetStatusInMemory(c, status) \/ SetStatusLocalStorage(c, status)

-----------------------------------------------------------------------------
(* Properties.                                                             *)

\* The Map was also given a request that differs from r only in what it does
\* not keep, its asset or its type: they have one entry.
SharesEntry(r) == \E s \in keyed \ {r} : s.nonce = r.nonce

\* What set stored and nobody removed is there under the key it gave out,
\* whatever calls overlap.  The Map answers the status the calls for it gave it
\* last, as setStatus promises (types.ts, 'Updates the status of pending
\* transaction'), and lists the request when asked for all; but it drops asset
\* and type, and this is not so of requests that differ in nothing else.
\* localStorage has exactly what was stored and not removed, and that whole; its
\* setStatus does not do what is promised, and nothing is said of its statuses
\* (set, remove, setStatus, get, has, getStatus and getAllRequests).
StoredIsKept ==
    \A r \in Stored :
        LET k == KeyOf(r) IN
        /\ adapter = "inMemory" /\ due[r] # Absent /\ ~ SharesEntry(r) =>
             /\ has(k) /\ get(k).nonce = r.nonce
             /\ getStatus(k) = due[r]
             /\ k \in getAllRequests(Absent)
        /\ adapter = "localStorage" =>
             /\ has(k) = (due[r] # Absent)
             /\ has(k) => get(k) = r
=============================================================================
