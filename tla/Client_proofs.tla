---------------------------- MODULE Client_proofs ----------------------------
(***************************************************************************)
(* Proofs about parts of the client, for any constants: a wait on the      *)
(* other chain does not end before something arrived (BurnWatch), stores   *)
(* keep what they were given (Adapters), the mocked runtime repays only    *)
(* what it has lent (Mock), and the airdrop's contract takes the proofs of *)
(* its claims and pays nothing else (Airdrop).                             *)
(***************************************************************************)
EXTENDS BurnWatch, Adapters, Mock, Airdrop, FiniteSums, SequenceTheorems,
        FiniteSetTheorems, TLAPS

-----------------------------------------------------------------------------
(* Waiting for a burn.                                                     *)

BurnWatchSpec == BurnWatchInit /\ [][HostNext \/ RemoteNext]_burnVars

BurnWatchType ==
    /\ wanted \in [Burns -> BurnRequests]
    /\ utxos \in [Networks -> SUBSET Nat]
    /\ \A n \in Networks : IsFiniteSet(utxos[n])
    /\ arrivals \in [Networks -> Nat]
    /\ counted \in [Burns -> Nat \union {Nothing}]
    /\ before \in [Burns -> Nat]
    /\ remote \in [Burns -> Nat \union {Nothing, Failed}]

\* There are no more outputs than there were at the first count and arrived
\* since: what is spent only makes them fewer.
Explained(outputs, count, time, arrived) ==
    /\ time <= arrived
    /\ Cardinality(outputs) <= count + (arrived - time)

\* The inductive invariant of RemoteNotEarly.
RemoteInv ==
    /\ BurnWatchType
    /\ RemoteNotEarly
    /\ \A b \in Burns :
         LET n == getHandlerForDestinationChain(wanted[b]) IN
         counted[b] # Nothing => Explained(utxos[n], counted[b], before[b], arrivals[n])

LEMMA InitRemoteInv == BurnWatchInit => RemoteInv
<1> SUFFICES ASSUME NEW requests \in [Burns -> BurnRequests], BurnWatchStart(requests)
             PROVE  RemoteInv
  BY DEF BurnWatchInit
<1>1. IsFiniteSet({}) /\ Nothing \notin Nat
  BY BurnWatchAssumption, FS_EmptySet
<1> QED
  BY <1>1 DEF BurnWatchStart, RemoteInv, BurnWatchType, RemoteNotEarly

LEMMA StepRemoteInv == RemoteInv /\ [HostNext \/ RemoteNext]_burnVars => RemoteInv'
<1> SUFFICES ASSUME RemoteInv, [HostNext \/ RemoteNext]_burnVars PROVE RemoteInv'
  OBVIOUS
<1> USE DEF RemoteInv
<1>0. /\ Nothing \notin Nat /\ Failed \notin Nat /\ Nothing # Failed
      /\ \A b \in Burns : getHandlerForDestinationChain(wanted[b]) \in Networks
  <2>1. Nothing \notin Nat /\ Failed \notin Nat /\ Nothing # Failed
    BY BurnWatchAssumption
  <2>2. \A b \in Burns : getHandlerForDestinationChain(wanted[b]) \in Networks
    BY DEF getHandlerForDestinationChain, Networks
  <2> QED
    BY <2>1, <2>2
<1>1. CASE UNCHANGED <<wanted, remoteVars>>
  BY <1>1 DEF BurnWatchType, RemoteNotEarly, remoteVars
<1>2. CASE HostNext
  BY <1>1, <1>2 DEF HostNext, BurnTx, ListenHost, HearBurn, ReceiptArrives, ReceiptLost
<1>3. ASSUME NEW n \in Networks, UtxoArrives(n) PROVE RemoteInv'
  <2> DEFINE new == arrivals[n] + 1
  <2>1. /\ arrivals' = [arrivals EXCEPT ![n] = new]
        /\ utxos' = [utxos EXCEPT ![n] = utxos[n] \union {new}]
        /\ UNCHANGED <<wanted, counted, before, remote>>
    BY <1>3 DEF UtxoArrives
  <2>2. new \in Nat /\ new > arrivals[n] /\ arrivals[n] \in Nat
    BY DEF BurnWatchType
  <2>3. /\ IsFiniteSet(utxos[n] \union {new})
        /\ Cardinality(utxos[n] \union {new}) \in Nat
        /\ Cardinality(utxos[n] \union {new}) <= Cardinality(utxos[n]) + 1
        /\ Cardinality(utxos[n]) \in Nat
    <3>1. IsFiniteSet(utxos[n])
      BY DEF BurnWatchType
    <3>2. Cardinality(utxos[n]) \in Nat
      BY <3>1, FS_CardinalityType
    <3>3. /\ IsFiniteSet(utxos[n] \union {new})
          /\ Cardinality(utxos[n] \union {new}) =
               IF new \in utxos[n] THEN Cardinality(utxos[n]) ELSE Cardinality(utxos[n]) + 1
      BY <3>1, FS_AddElement
    <3> QED
      BY <3>2, <3>3
  <2>4. /\ arrivals'[n] = new /\ utxos'[n] = utxos[n] \union {new}
        /\ \A m \in Networks : m # n => arrivals'[m] = arrivals[m] /\ utxos'[m] = utxos[m]
        /\ utxos' \in [Networks -> SUBSET Nat] /\ arrivals' \in [Networks -> Nat]
    BY <2>1, <2>2 DEF BurnWatchType
  <2>5. new = arrivals[n] + 1
    OBVIOUS
  <2> HIDE DEF new
  <2>6. BurnWatchType'
    BY <2>1, <2>3, <2>4 DEF BurnWatchType
  <2>7. \A m \in Networks : arrivals'[m] \in Nat /\ arrivals[m] \in Nat /\ arrivals'[m] >= arrivals[m]
    BY <2>2, <2>4 DEF BurnWatchType
  <2>8. RemoteNotEarly'
    BY <1>0, <2>1, <2>7 DEF RemoteNotEarly, BurnWatchType, getHandlerForDestinationChain
  <2>9. ASSUME NEW b \in Burns, counted[b] # Nothing, NEW m \in Networks,
               m = getHandlerForDestinationChain(wanted[b])
        PROVE  Explained(utxos'[m], counted[b], before[b], arrivals'[m])
    <3>1. Explained(utxos[m], counted[b], before[b], arrivals[m])
      BY <2>9
    <3>2. counted[b] \in Nat /\ before[b] \in Nat
      BY <2>9 DEF BurnWatchType
    <3>3. CASE m = n
      <4>1. before[b] <= arrivals[n] /\ Cardinality(utxos[n]) <= counted[b] + (arrivals[n] - before[b])
        BY <3>1, <3>3 DEF Explained
      <4>2. /\ before[b] <= new
            /\ Cardinality(utxos[n] \union {new}) <= counted[b] + (new - before[b])
        BY <2>2, <2>3, <2>5, <3>2, <4>1
      <4> QED
        BY <2>4, <3>3, <4>2 DEF Explained
    <3>4. CASE m # n
      BY <2>4, <3>1, <3>4
    <3> QED
      BY <3>3, <3>4
  <2> QED
    BY <1>0, <2>1, <2>6, <2>8, <2>9 DEF getHandlerForDestinationChain
<1>4. ASSUME NEW n \in Networks, UtxoSpent(n) PROVE RemoteInv'
  <2> PICK output \in utxos[n] : utxos' = [utxos EXCEPT ![n] = utxos[n] \ {output}]
    BY <1>4 DEF UtxoSpent
  <2>1. UNCHANGED <<wanted, arrivals, counted, before, remote>>
    BY <1>4 DEF UtxoSpent
  <2>2. /\ IsFiniteSet(utxos[n] \ {output})
        /\ Cardinality(utxos[n] \ {output}) \in Nat
        /\ Cardinality(utxos[n] \ {output}) <= Cardinality(utxos[n])
        /\ Cardinality(utxos[n]) \in Nat
    <3>1. IsFiniteSet(utxos[n])
      BY DEF BurnWatchType
    <3>2. Cardinality(utxos[n]) \in Nat
      BY <3>1, FS_CardinalityType
    <3>3. /\ IsFiniteSet(utxos[n] \ {output})
          /\ Cardinality(utxos[n] \ {output}) =
               IF output \in utxos[n] THEN Cardinality(utxos[n]) - 1 ELSE Cardinality(utxos[n])
      BY <3>1, FS_RemoveElement
    <3>4. Cardinality(utxos[n] \ {output}) \in Nat
      BY <3>3, FS_CardinalityType
    <3> QED
      BY <3>2, <3>3, <3>4
  <2>3. /\ utxos'[n] = utxos[n] \ {output}
        /\ \A m \in Networks : m # n => utxos'[m] = utxos[m]
        /\ utxos' \in [Networks -> SUBSET Nat]
    BY DEF BurnWatchType
  <2>4. BurnWatchType'
    BY <2>1, <2>2, <2>3 DEF BurnWatchType
  <2>5. ASSUME NEW b \in Burns, counted[b] # Nothing, NEW m \in Networks,
               m = getHandlerForDestinationChain(wanted[b])
        PROVE  Explained(utxos'[m], counted[b], before[b], arrivals[m])
    <3>1. Explained(utxos[m], counted[b], before[b], arrivals[m])
      BY <2>5
    <3>2. counted[b] \in Nat /\ before[b] \in Nat /\ arrivals[m] \in Nat
      BY <2>5 DEF BurnWatchType
    <3>3. CASE m = n
      BY <2>2, <2>3, <3>1, <3>2, <3>3 DEF Explained
    <3>4. CASE m # n
      BY <2>3, <3>1, <3>4
    <3> QED
      BY <3>3, <3>4
  <2>6. RemoteNotEarly'
    BY <2>1 DEF RemoteNotEarly
  <2> QED
    BY <1>0, <2>1, <2>4, <2>5, <2>6
<1>5. ASSUME NEW b \in Burns, CountUtxos(b) PROVE RemoteInv'
  <2> DEFINE n == getHandlerForDestinationChain(wanted[b])
             count == Cardinality(utxos[n])
             time == arrivals[n]
  <2>1. /\ remote[b] = Nothing
        /\ counted' = [counted EXCEPT ![b] = count]
        /\ before' = [before EXCEPT ![b] = time]
        /\ UNCHANGED <<wanted, utxos, arrivals, remote>>
    BY <1>5 DEF CountUtxos
  <2>2. count \in Nat /\ time \in Nat
    BY <1>0, FS_CardinalityType DEF BurnWatchType
  <2>3. Explained(utxos[n], count, time, arrivals[n])
    BY <2>2 DEF Explained
  <2> HIDE DEF count, time
  <2>4. /\ counted' \in [Burns -> Nat \union {Nothing}] /\ before' \in [Burns -> Nat]
        /\ counted'[b] = count /\ before'[b] = time
        /\ \A c \in Burns : c # b => counted'[c] = counted[c] /\ before'[c] = before[c]
    BY <2>1, <2>2 DEF BurnWatchType
  <2>5. BurnWatchType'
    BY <2>1, <2>4 DEF BurnWatchType
  <2>6. RemoteNotEarly'
    BY <1>0, <2>1, <2>4 DEF RemoteNotEarly
  <2>7. ASSUME NEW c \in Burns, counted'[c] # Nothing
        PROVE  Explained(utxos[getHandlerForDestinationChain(wanted[c])], counted'[c],
                         before'[c], arrivals[getHandlerForDestinationChain(wanted[c])])
    BY <2>3, <2>4, <2>7
  <2> QED
    BY <2>1, <2>5, <2>6, <2>7
<1>6. ASSUME NEW b \in Burns, CountFails(b) PROVE RemoteInv'
  <2>1. /\ remote' = [remote EXCEPT ![b] = Failed]
        /\ UNCHANGED <<wanted, utxos, arrivals, counted, before>>
    BY <1>6 DEF CountFails
  <2>2. BurnWatchType'
    BY <2>1 DEF BurnWatchType
  <2>3. RemoteNotEarly'
    BY <1>0, <2>1 DEF RemoteNotEarly, BurnWatchType
  <2> QED
    BY <2>1, <2>2, <2>3
<1>7. ASSUME NEW b \in Burns, Poll(b) PROVE RemoteInv'
  <2> DEFINE n == getHandlerForDestinationChain(wanted[b])
  <2>0. n \in Networks
    BY <1>0
  <2> PICK last \in utxos[n] : remote' = [remote EXCEPT ![b] = last]
    BY <1>7 DEF Poll
  <2>1. /\ counted[b] # Nothing
        /\ Cardinality(utxos[n]) > counted[b]
        /\ UNCHANGED <<wanted, utxos, arrivals, counted, before>>
    BY <1>7 DEF Poll
  <2>2. last \in Nat
    BY <2>0 DEF BurnWatchType
  <2>3. BurnWatchType'
    BY <2>1, <2>2 DEF BurnWatchType
  <2>4. arrivals[n] > before[b]
    <3>1. Explained(utxos[n], counted[b], before[b], arrivals[n])
      BY <2>1
    <3>2. /\ counted[b] \in Nat /\ before[b] \in Nat /\ arrivals[n] \in Nat
          /\ Cardinality(utxos[n]) \in Nat
      BY <2>0, <2>1, FS_CardinalityType DEF BurnWatchType
    <3> QED
      BY <2>1, <3>1, <3>2 DEF Explained
  <2>5. RemoteNotEarly'
    BY <2>1, <2>4 DEF RemoteNotEarly, BurnWatchType
  <2> QED
    BY <2>1, <2>3, <2>5
<1>8. CASE UNCHANGED burnVars
  BY <1>1, <1>8 DEF burnVars
<1>9. CASE RemoteNext
  BY <1>3, <1>4, <1>5, <1>6, <1>7, <1>9 DEF RemoteNext
<1> QED
  BY <1>2, <1>8, <1>9

\* waitForRemoteTransaction returns nothing before an output has arrived that
\* its first count did not see, for any requests, arrivals and spending, and
\* in whatever order the explorers list (waitForRemoteTransaction).
THEOREM WaitsForArrival == BurnWatchSpec => []RemoteNotEarly
<1>1. RemoteInv => RemoteNotEarly
  BY DEF RemoteInv
<1> QED
  BY InitRemoteInv, StepRemoteInv, <1>1, PTL DEF BurnWatchSpec

-----------------------------------------------------------------------------
(* Stores in memory and in the browser.                                    *)

AdaptersSpec == AdaptersInit /\ [][AdaptersNext]_adapterVars

Item(k, status) == [request |-> k, status |-> status]

\* What lies under the key of r: in localStorage exactly what is due, with the
\* first status; in the Map what is due unless another request shares the entry.
ItemOf(r) ==
    /\ adapter = "inMemory" /\ due[r] # Absent /\ ~ SharesEntry(r) =>
         items[KeyOf(r)] = Item(KeyOf(r), due[r])
    /\ adapter = "localStorage" =>
         IF due[r] = Absent THEN items[r] = Absent ELSE items[r] = Item(r, "pending")

\* The inductive invariant of StoredIsKept: and what a caller of setStatus
\* holds between its two parts is its request's.
AdapterInv ==
    /\ adapter \in {"inMemory", "localStorage"}
    /\ items = [k \in AllKeys |-> items[k]]
    /\ setter = [c \in Setters |-> setter[c]]
    /\ keyed \subseteq Stored
    /\ due \in [Stored -> States \union {Absent}]
    /\ \A r \in Stored : due[r] # Absent => r \in keyed
    /\ \A r \in Stored : ItemOf(r)
    /\ \A k \in AllKeys : items[k] # Absent => \E status \in States : items[k] = Item(k, status)
    /\ \A c \in Setters : setter[c] # Absent =>
         /\ setter[c].request \in keyed
         /\ \E status \in States : setter[c].item = Item(KeyOf(setter[c].request), status)

LEMMA ItemIsThere == \A r \in Stored, status \in States : Item(KeyOf(r), status) # Absent
BY AdaptersAssumption DEF KeyOf, Kept, Item

LEMMA InitAdapterInv == AdaptersInit => AdapterInv
<1> SUFFICES ASSUME AdaptersInit PROVE AdapterInv
  OBVIOUS
<1>1. \A r \in Stored : KeyOf(r) \in AllKeys
  BY DEF AllKeys
<1>2. \A r \in Stored : adapter = "localStorage" => KeyOf(r) = r
  BY DEF KeyOf, Kept
<1>3. \A r \in Stored : ItemOf(r)
  BY <1>1, <1>2 DEF AdaptersInit, ItemOf
<1> QED
  BY <1>3 DEF AdaptersInit, AdapterInv

\* A call for one request changes what lies under its key, with what is due.
LEMMA ChangeKeepsInv ==
    ASSUME AdapterInv, NEW r \in Stored, NEW item,
           items' = [items EXCEPT ![KeyOf(r)] = item],
           item = Absent \/ \E status \in States : item = Item(KeyOf(r), status),
           r \in keyed', keyed' \subseteq keyed \union {r},
           due' \in [Stored -> States \union {Absent}],
           \A q \in Stored : q # r => due'[q] = due[q],
           adapter = "inMemory" /\ due'[r] # Absent => item = Item(KeyOf(r), due'[r]),
           adapter = "localStorage" =>
             IF due'[r] = Absent THEN item = Absent ELSE item = Item(r, "pending"),
           keyed \subseteq keyed',
           setter' = [c \in Setters |-> setter'[c]],
           \A c \in Setters : setter'[c] \in {setter[c], Absent},
           UNCHANGED adapter
    PROVE  AdapterInv'
<1>0. /\ AllKeys' = AllKeys
      /\ \A q \in Stored : KeyOf(q)' = KeyOf(q) /\ KeyOf(q) \in AllKeys
      /\ \A q \in Stored : adapter = "localStorage" => KeyOf(q) = q
  BY DEF AllKeys, KeyOf, Kept
<1>1. /\ items' = [k \in AllKeys |-> items'[k]]
      /\ items'[KeyOf(r)] = item
      /\ \A k \in AllKeys : k # KeyOf(r) => items'[k] = items[k]
  BY <1>0 DEF AdapterInv
<1>2. keyed' \subseteq Stored /\ \A q \in Stored : due'[q] # Absent => q \in keyed'
  BY DEF AdapterInv
<1>3. ASSUME NEW q \in Stored PROVE ItemOf(q)'
  <2>1. CASE q = r
    BY <1>0, <1>1, <2>1 DEF ItemOf
  <2>2. CASE q # r
    <3>1. ItemOf(q) /\ due'[q] = due[q]
      BY <2>2 DEF AdapterInv
    <3>2. ASSUME adapter = "inMemory", due'[q] # Absent, ~ SharesEntry(q)'
          PROVE  items'[KeyOf(q)] = Item(KeyOf(q), due'[q])
      <4>1. ~ SharesEntry(q) /\ q.nonce # r.nonce
        BY <2>2, <3>2 DEF SharesEntry
      <4>2. KeyOf(q).nonce = q.nonce /\ KeyOf(r).nonce = r.nonce
        BY <3>2 DEF KeyOf, Kept, KeptInMemory
      <4>3. items'[KeyOf(q)] = items[KeyOf(q)]
        BY <1>0, <1>1, <4>1, <4>2
      <4> QED
        BY <3>1, <3>2, <4>1, <4>3 DEF ItemOf
    <3>3. ASSUME adapter = "localStorage"
          PROVE  IF due'[q] = Absent THEN items'[q] = Absent ELSE items'[q] = Item(q, "pending")
      <4>1. items'[q] = items[q]
        BY <1>0, <1>1, <2>2, <3>3
      <4> QED
        BY <3>1, <3>3, <4>1 DEF ItemOf
    <3>4. Item(KeyOf(q), due[q])' = Item(KeyOf(q), due'[q])
      BY <1>0 DEF Item
    <3> QED
      BY <1>0, <3>2, <3>3, <3>4 DEF ItemOf
  <2> QED
    BY <2>1, <2>2
<1>4. ASSUME NEW k \in AllKeys, items'[k] # Absent
      PROVE  \E status \in States : items'[k] = Item(k, status)
  BY <1>1, <1>4 DEF AdapterInv
<1>5. ASSUME NEW c \in Setters, setter'[c] # Absent
      PROVE  /\ setter'[c].request \in keyed'
             /\ \E status \in States : setter'[c].item = Item(KeyOf(setter'[c].request), status)
  BY <1>5 DEF AdapterInv
<1>6. \A c \in Setters : setter'[c] # Absent => KeyOf(setter[c].request)' = KeyOf(setter'[c].request)
  BY DEF KeyOf, Kept
<1>7. adapter' \in {"inMemory", "localStorage"}
  BY DEF AdapterInv
<1>8. \A k \in AllKeys, status \in States : Item(k, status)' = Item(k, status)
  BY DEF Item
<1> QED
  BY <1>0, <1>1, <1>2, <1>3, <1>4, <1>5, <1>6, <1>7, <1>8 DEF AdapterInv

LEMMA StepAdapterInv == AdapterInv /\ [AdaptersNext]_adapterVars => AdapterInv'
<1> SUFFICES ASSUME AdapterInv, [AdaptersNext]_adapterVars PROVE AdapterInv'
  OBVIOUS
<1>0. /\ "pending" \in States
      /\ Absent \notin States
      /\ due \in [Stored -> States \union {Absent}] /\ keyed \subseteq Stored
      /\ setter = [c \in Setters |-> setter[c]]
  BY AdaptersAssumption DEF States, AdapterInv
<1>1. CASE UNCHANGED <<adapter, items, setter, keyed, due>>
  <2>1. /\ AllKeys' = AllKeys
        /\ \A r \in Stored : ItemOf(r)' = ItemOf(r)
    BY <1>1 DEF AllKeys, KeyOf, Kept, ItemOf, SharesEntry, Item
  <2> QED
    BY <1>1, <2>1 DEF AdapterInv, KeyOf, Kept, Item
<1>2. ASSUME NEW r \in Stored, Put(r), UNCHANGED <<adapter, setter>> PROVE AdapterInv'
  <2> DEFINE item == Item(KeyOf(r), "pending")
  <2>1. /\ items' = [items EXCEPT ![KeyOf(r)] = item]
        /\ keyed' = keyed \union {r}
        /\ due' = [due EXCEPT ![r] = "pending"]
    BY <1>2 DEF Put, Item, KeyOf
  <2>2. due' \in [Stored -> States \union {Absent}] /\ due'[r] = "pending"
    BY <1>0, <2>1
  <2>3. \A q \in Stored : q # r => due'[q] = due[q]
    BY <1>0, <2>1
  <2>4. \E status \in States : item = Item(KeyOf(r), status)
    BY <1>0
  <2>5. adapter = "localStorage" => item = Item(r, "pending")
    BY DEF KeyOf, Kept
  <2>6. adapter = "inMemory" => item = Item(KeyOf(r), due'[r])
    BY <2>2
  <2> HIDE DEF item
  <2>7. setter' = [c \in Setters |-> setter'[c]]
    BY <1>0, <1>2
  <2>8. \A c \in Setters : setter'[c] \in {setter[c], Absent}
    BY <1>2
  <2>9. /\ r \in keyed' /\ keyed' \subseteq keyed \union {r} /\ keyed \subseteq keyed'
        /\ due'[r] # Absent
    BY <1>0, <2>1, <2>2
  <2>10. item = Absent \/ \E status \in States : item = Item(KeyOf(r), status)
    BY <2>4
  <2>11. adapter = "localStorage" =>
           IF due'[r] = Absent THEN item = Absent ELSE item = Item(r, "pending")
    BY <2>5, <2>9
  <2>12. adapter = "inMemory" /\ due'[r] # Absent => item = Item(KeyOf(r), due'[r])
    BY <2>6
  <2>13. items' = [items EXCEPT ![KeyOf(r)] = item] /\ adapter' = adapter
    BY <1>2, <2>1
  <2>14. due' \in [Stored -> States \union {Absent}]
    BY <2>2
  <2> QED
    BY <2>3, <2>7, <2>8, <2>9, <2>10, <2>11, <2>12, <2>13, <2>14, ChangeKeepsInv
<1>3. ASSUME NEW r \in Stored, SetInMemory(r) PROVE AdapterInv'
  BY <1>2, <1>3 DEF SetInMemory
<1>4. ASSUME NEW r \in Stored, SetLocalStorage(r) PROVE AdapterInv'
  BY <1>1, <1>2, <1>4 DEF SetLocalStorage
<1>5. ASSUME NEW r \in Stored, RemoveItem(r) PROVE AdapterInv'
  <2>1. /\ r \in keyed
        /\ items' = [items EXCEPT ![KeyOf(r)] = Absent]
        /\ due' = [due EXCEPT ![r] = Absent]
        /\ UNCHANGED <<adapter, setter, keyed>>
    BY <1>5 DEF RemoveItem
  <2>2. due' \in [Stored -> States \union {Absent}] /\ due'[r] = Absent
    BY <1>0, <2>1
  <2>3. \A q \in Stored : q # r => due'[q] = due[q]
    BY <1>0, <2>1
  <2>4. setter' = [c \in Setters |-> setter'[c]]
    BY <1>0, <2>1
  <2> QED
    BY <2>1, <2>2, <2>3, <2>4, ChangeKeepsInv
<1>6. ASSUME NEW c \in Setters, NEW r \in Stored, SetStatusGets(c, r) PROVE AdapterInv'
  <2> DEFINE got == [request |-> r, item |-> items[KeyOf(r)]]
  <2>1. /\ setter' = [setter EXCEPT ![c] = got]
        /\ r \in keyed
        /\ items[KeyOf(r)] # Absent
        /\ UNCHANGED <<adapter, items, keyed, due>>
    BY <1>6 DEF SetStatusGets
  <2>2. KeyOf(r) \in AllKeys
    BY DEF AllKeys
  <2>3. got.request = r /\ got.item = items[KeyOf(r)]
    OBVIOUS
  <2>4. \E status \in States : got.item = Item(KeyOf(got.request), status)
    BY <2>1, <2>2, <2>3 DEF AdapterInv
  <2> HIDE DEF got
  <2>5. /\ setter' = [d \in Setters |-> setter'[d]]
        /\ setter'[c] = got
        /\ \A d \in Setters : d # c => setter'[d] = setter[d]
    BY <1>0, <2>1
  <2>6. ASSUME NEW d \in Setters, setter'[d] # Absent
        PROVE  /\ setter'[d].request \in keyed
               /\ \E status \in States : setter'[d].item = Item(KeyOf(setter'[d].request), status)
    BY <2>1, <2>3, <2>4, <2>5, <2>6 DEF AdapterInv
  <2>7. /\ AllKeys' = AllKeys /\ (\A q \in Stored : ItemOf(q)' = ItemOf(q))
        /\ \A k, status : Item(k, status)' = Item(k', status')
    BY <2>1 DEF AllKeys, KeyOf, Kept, ItemOf, SharesEntry, Item
  <2> QED
    BY <2>1, <2>5, <2>6, <2>7 DEF AdapterInv, KeyOf, Kept, Item
<1>7. ASSUME NEW c \in Setters, NEW status \in States, SetStatusInMemory(c, status)
      PROVE  AdapterInv'
  <2> DEFINE r == setter[c].request
             item == Item(KeyOf(r), status)
  <2>1. /\ r \in keyed
        /\ \E t \in States : setter[c].item = Item(KeyOf(r), t)
        /\ adapter = "inMemory"
    BY <1>7 DEF SetStatusInMemory, AdapterInv
  <2>2. [setter[c].item EXCEPT !.status = status] = item
    BY <2>1 DEF Item
  <2>3. /\ items' = [items EXCEPT ![KeyOf(r)] = item]
        /\ due' = [due EXCEPT ![r] = IF due[r] = Absent THEN Absent ELSE status]
        /\ setter' = [setter EXCEPT ![c] = Absent]
        /\ UNCHANGED <<adapter, keyed>>
    BY <1>7, <2>2 DEF SetStatusInMemory, SetsDue
  <2>4. \E t \in States : item = Item(KeyOf(r), t)
    OBVIOUS
  <2>5. r \in Stored
    BY <1>0, <2>1
  <2>6. /\ due' \in [Stored -> States \union {Absent}]
        /\ due'[r] \in {Absent, status}
        /\ \A q \in Stored : q # r => due'[q] = due[q]
    BY <1>0, <2>3, <2>5
  <2>7. due'[r] # Absent => item = Item(KeyOf(r), due'[r])
    BY <2>6
  <2> HIDE DEF r, item
  <2>8. /\ setter' = [d \in Setters |-> setter'[d]]
        /\ \A d \in Setters : setter'[d] \in {setter[d], Absent}
    BY <1>0, <2>3
  <2>9. adapter # "localStorage"
    BY <2>1
  <2> QED
    BY <2>1, <2>3, <2>4, <2>5, <2>6, <2>7, <2>8, <2>9, ChangeKeepsInv
<1>8. ASSUME NEW c \in Setters, NEW status \in States, SetStatusLocalStorage(c, status)
      PROVE  AdapterInv'
  <2>1. /\ setter' = [setter EXCEPT ![c] = Absent]
        /\ due' = [due EXCEPT ![setter[c].request] =
                                IF due[setter[c].request] = Absent THEN Absent ELSE status]
        /\ adapter = "localStorage"
        /\ UNCHANGED <<adapter, items, keyed>>
    BY <1>8 DEF SetStatusLocalStorage, SetsDue
  <2>2. /\ setter' = [d \in Setters |-> setter'[d]]
        /\ \A d \in Setters : setter'[d] \in {setter[d], Absent}
    BY <1>0, <2>1
  <2>3. /\ due' \in [Stored -> States \union {Absent}]
        /\ \A q \in Stored : due'[q] = Absent <=> due[q] = Absent
    BY <1>0, <2>1
  <2>4. \A q \in Stored : ItemOf(q)'
    BY <2>1, <2>3 DEF AdapterInv, ItemOf, Item
  <2>5. ASSUME NEW d \in Setters, setter'[d] # Absent
        PROVE  /\ setter'[d].request \in keyed
               /\ \E t \in States : setter'[d].item = Item(KeyOf(setter'[d].request), t)
    BY <2>2, <2>5 DEF AdapterInv
  <2>6. \A q \in Stored : due'[q] # Absent => q \in keyed
    BY <2>3 DEF AdapterInv
  <2>7. AllKeys' = AllKeys
    BY <2>1 DEF AllKeys, KeyOf, Kept
  <2> QED
    BY <2>1, <2>2, <2>3, <2>4, <2>5, <2>6, <2>7 DEF AdapterInv, KeyOf, Kept, Item
<1>9. CASE UNCHANGED adapterVars
  BY <1>1, <1>9 DEF adapterVars
<1>10. CASE AdaptersNext
  BY <1>3, <1>4, <1>5, <1>6, <1>7, <1>8, <1>10
  DEF AdaptersNext, RemoveInMemory, RemoveLocalStorage
<1> QED
  BY <1>9, <1>10

\* The Map keeps a stored request with the status its calls gave it last unless
\* another one differs from it in nothing the Map keeps, and localStorage keeps
\* exactly what was stored and not removed, for any requests and callers whose
\* calls overlap (set, remove and setStatus of both adapters).
THEOREM StoresKeepWhatTheyGot == AdaptersSpec => []StoredIsKept
<1>1. AdapterInv => StoredIsKept
  <2> SUFFICES ASSUME AdapterInv, NEW r \in Stored
               PROVE  /\ adapter = "inMemory" /\ due[r] # Absent /\ ~ SharesEntry(r) =>
                           /\ has(KeyOf(r)) /\ get(KeyOf(r)).nonce = r.nonce
                           /\ getStatus(KeyOf(r)) = due[r]
                           /\ KeyOf(r) \in getAllRequests(Absent)
                      /\ adapter = "localStorage" =>
                           /\ has(KeyOf(r)) = (due[r] # Absent)
                           /\ has(KeyOf(r)) => get(KeyOf(r)) = r
    BY DEF StoredIsKept
  <2>1. ASSUME adapter = "inMemory", due[r] # Absent, ~ SharesEntry(r)
        PROVE  /\ has(KeyOf(r)) /\ get(KeyOf(r)).nonce = r.nonce
               /\ getStatus(KeyOf(r)) = due[r]
               /\ KeyOf(r) \in getAllRequests(Absent)
    <3>1. items[KeyOf(r)] = Item(KeyOf(r), due[r]) /\ due[r] \in States
      BY <2>1 DEF AdapterInv, ItemOf
    <3>2. items[KeyOf(r)] # Absent
      BY <3>1, ItemIsThere
    <3>3. items[KeyOf(r)].request = KeyOf(r) /\ items[KeyOf(r)].status = due[r]
      BY <3>1 DEF Item
    <3>4. KeyOf(r).nonce = r.nonce /\ KeyOf(r).requestType = Absent /\ KeyOf(r) \in AllKeys
      BY <2>1 DEF KeyOf, Kept, KeptInMemory, AllKeys
    <3> QED
      BY <2>1, <3>2, <3>3, <3>4 DEF has, get, getStatus, getAllRequests, ListInMemory
  <2>2. ASSUME adapter = "localStorage"
        PROVE  /\ has(KeyOf(r)) = (due[r] # Absent)
               /\ has(KeyOf(r)) => get(KeyOf(r)) = r
    <3>1. KeyOf(r) = r
      BY <2>2 DEF KeyOf, Kept
    <3>2. IF due[r] = Absent THEN items[r] = Absent ELSE items[r] = Item(r, "pending")
      BY <2>2 DEF AdapterInv, ItemOf
    <3>3. Item(r, "pending") # Absent /\ Item(r, "pending").request = r
      BY <3>1, ItemIsThere DEF States, Item
    <3> QED
      BY <3>1, <3>2, <3>3 DEF has, get
  <2> QED
    BY <2>1, <2>2
<1> QED
  BY InitAdapterInv, StepAdapterInv, <1>1, PTL DEF AdaptersSpec

-----------------------------------------------------------------------------
(* The mocked runtime.                                                     *)

MockSpec == MockInit /\ [][MockNext]_mockVars

Publication == [request : MockRequests, stage : {"timer", "dispatching", "returned"}]

Dispatch ==
    [stage : {"dry", "minting", "executing", "executed", "failed"}, confirmations : Nat,
     deposit : BOOLEAN, repay : {"none", "timer", "waiting", "signed", "sent"},
     waitForSignature : {"transaction", "mocked"}]

Update == [by : Nat \X MockKeepers, of : {"execution", "repay"}, to : Nat]

MockType ==
    /\ publications \in Seq(Publication)
    /\ pending \in [Signatures -> Nat]
    /\ \A d \in DOMAIN dispatches :
         /\ d \in Nat \X MockKeepers
         /\ d[1] \in DOMAIN publications
         /\ dispatches[d] \in Dispatch
    /\ updates \in Seq(Update)
    /\ \A i \in DOMAIN updates : updates[i].by \in DOMAIN dispatches

\* A dispatcher that waits for a mocked signature has sent the update of its
\* loan, and one that repays has waited for it.
Lent(d) ==
    /\ dispatches[d].waitForSignature = "mocked" =>
         \E i \in DOMAIN updates : updates[i].of = "execution" /\ updates[i].by = d
    /\ dispatches[d].repay = "signed" => dispatches[d].waitForSignature = "mocked"

\* The inductive invariant of RepayFollowsLoan: no emitter of an earlier
\* publication is heard by a later one's updates.
MockInv ==
    /\ MockType
    /\ \A d \in DOMAIN dispatches : Lent(d)
    /\ \A p \in DOMAIN publications :
         publications[p].request.requestType = "TRANSFER" =>
            /\ pending[publications[p].request.signature] >= p
            /\ publications[p].stage # "dispatching"
    /\ RepayFollowsLoan

LEMMA InitMockInv == MockInit => MockInv
<1> SUFFICES ASSUME MockInit PROVE MockInv
  OBVIOUS
<1>1. /\ publications \in Seq(Publication) /\ DOMAIN publications = {}
      /\ DOMAIN dispatches = {}
      /\ updates \in Seq(Update) /\ DOMAIN updates = {}
  BY DEF MockInit
<1> QED
  BY <1>1 DEF MockInit, MockInv, MockType, RepayFollowsLoan

\* A step of one dispatcher that sends no update and replaces no function.
LEMMA DispatchMoves ==
    ASSUME MockInv, NEW d \in DOMAIN dispatches, NEW r \in Dispatch,
           dispatches' = [dispatches EXCEPT ![d] = r],
           r.waitForSignature = dispatches[d].waitForSignature,
           r.repay = "signed" =>
              dispatches[d].repay = "signed" \/ r.waitForSignature = "mocked",
           UNCHANGED <<publications, pending, updates>>
    PROVE  MockInv'
<1>1. /\ DOMAIN dispatches' = DOMAIN dispatches
      /\ dispatches'[d] = r
      /\ \A e \in DOMAIN dispatches : e # d => dispatches'[e] = dispatches[e]
  OBVIOUS
<1>2. MockType'
  BY <1>1 DEF MockInv, MockType
<1>3. \A e \in DOMAIN dispatches : Lent(e)'
  BY <1>1 DEF MockInv, Lent
<1>4. RepayFollowsLoan'
  BY DEF MockInv, RepayFollowsLoan, IsTransfer, Requested
<1> QED
  BY <1>1, <1>2, <1>3, <1>4 DEF MockInv

\* Going through a publication's stages.
LEMMA StageMoves ==
    ASSUME MockInv, NEW p \in DOMAIN publications,
           NEW stage \in {"timer", "dispatching", "returned"},
           publications' = [publications EXCEPT ![p].stage = stage]
    PROVE  /\ publications' \in Seq(Publication)
           /\ DOMAIN publications' = DOMAIN publications
           /\ \A q \in DOMAIN publications :
                /\ publications'[q].request = publications[q].request
                /\ publications'[q].stage \in {publications[q].stage, stage}
<1>1. publications \in Seq(Publication) /\ publications[p] \in Publication
  BY DEF MockInv, MockType
<1>2. [publications[p] EXCEPT !.stage = stage] \in Publication
  BY <1>1 DEF Publication
<1>3. [publications[p] EXCEPT !.stage = stage].request = publications[p].request
  BY <1>1 DEF Publication
<1>4. [publications[p] EXCEPT !.stage = stage].stage = stage
  BY <1>1 DEF Publication
<1> QED
  BY <1>1, <1>2, <1>3, <1>4

\* Dispatching adds fresh dispatchers, takes nothing from the others, and
\* leaves updates alone.
LEMMA DispatchAdds ==
    ASSUME MockInv, NEW p \in Nat, Dispatched(p), UNCHANGED updates,
           publications' \in Seq(Publication),
           DOMAIN publications \subseteq DOMAIN publications',
           p \in DOMAIN publications',
           \A q \in DOMAIN publications : publications'[q].request = publications[q].request,
           pending' \in [Signatures -> Nat]
    PROVE  MockType' /\ (\A d \in DOMAIN dispatches' : Lent(d)') /\ RepayFollowsLoan'
<1> DEFINE new == {p} \X MockKeepers
<1>1. /\ DOMAIN dispatches' = DOMAIN dispatches \union new
      /\ \A d \in DOMAIN dispatches : dispatches'[d] = dispatches[d]
      /\ \A d \in new : d \notin DOMAIN dispatches => dispatches'[d] = Trivial
  BY DEF Dispatched
<1>2. Trivial \in Dispatch /\ Trivial.waitForSignature = "transaction" /\ Trivial.repay = "none"
  BY DEF Trivial, Dispatch
<1>3. \A d \in new : d \in Nat \X MockKeepers /\ d[1] \in DOMAIN publications'
  OBVIOUS
<1> HIDE DEF new
<1>4. \A d \in DOMAIN dispatches : d \in Nat \X MockKeepers /\ d[1] \in DOMAIN publications'
  BY DEF MockInv, MockType
<1>5. updates' \in Seq(Update) /\ \A i \in DOMAIN updates' : updates'[i].by \in DOMAIN dispatches'
  BY <1>1 DEF MockInv, MockType
<1>7. MockType'
  BY <1>1, <1>2, <1>3, <1>4, <1>5 DEF MockInv, MockType
<1>8. \A d \in DOMAIN dispatches' : Lent(d)'
  BY <1>1, <1>2 DEF MockInv, Lent
<1>9. RepayFollowsLoan'
  <2>1. \A i \in DOMAIN updates : updates[i].by[1] \in DOMAIN publications
    BY DEF MockInv, MockType
  <2> QED
    BY <2>1 DEF MockInv, RepayFollowsLoan, IsTransfer, Requested
<1> QED
  BY <1>7, <1>8, <1>9

\* An update goes to the latest publication of its request or a later one.
LEMMA EmitKeeps ==
    ASSUME MockInv, NEW d \in DOMAIN dispatches, NEW of \in {"execution", "repay"},
           NEW r \in Dispatch, dispatches' = [dispatches EXCEPT ![d] = r],
           Emit(d, of), r.repay # "signed" \/ r.waitForSignature = "mocked",
           of = "repay" => dispatches[d].waitForSignature = "mocked",
           r.waitForSignature = "mocked" =>
              of = "execution" \/ dispatches[d].waitForSignature = "mocked",
           UNCHANGED <<publications, pending>>
    PROVE  MockInv'
<1> DEFINE update == [by |-> d, of |-> of, to |-> pending[Requested(d).signature]]
           n == Len(updates)
<1>0. /\ d \in Nat \X MockKeepers /\ d[1] \in DOMAIN publications
      /\ publications[d[1]] \in Publication
      /\ updates \in Seq(Update)
  BY DEF MockInv, MockType
<1>1. /\ DOMAIN dispatches' = DOMAIN dispatches
      /\ dispatches'[d] = r
      /\ \A e \in DOMAIN dispatches : e # d => dispatches'[e] = dispatches[e]
  OBVIOUS
<1>2. Requested(d) \in MockRequests /\ Requested(d).signature \in Signatures
  BY <1>0 DEF Requested, Publication, Signatures
<1>3. update \in Update
  BY <1>0, <1>2 DEF MockInv, MockType, Update
<1>4. updates' = Append(updates, update)
  BY DEF Emit
<1>5. update.by = d /\ update.of = of /\ update.to = pending[Requested(d).signature]
  OBVIOUS
<1>6. IsTransfer(d) => update.to >= d[1]
  BY <1>0, <1>5 DEF MockInv, IsTransfer, Requested
<1> HIDE DEF update
<1>7. /\ updates' \in Seq(Update)
      /\ n \in Nat
      /\ DOMAIN updates = 1 .. n
      /\ DOMAIN updates' = 1 .. n + 1
      /\ \A i \in 1 .. n : updates'[i] = updates[i]
      /\ updates'[n + 1] = update
  BY <1>0, <1>3, <1>4
<1> HIDE DEF n
<1>8. MockType'
  <2>1. \A i \in DOMAIN updates' : updates'[i].by \in DOMAIN dispatches
    <3>1. \A i \in 1 .. n : updates[i].by \in DOMAIN dispatches
      BY <1>7 DEF MockInv, MockType
    <3> QED
      BY <1>5, <1>7, <3>1
  <2>2. \A e \in DOMAIN dispatches : dispatches'[e] \in Dispatch
    BY <1>1 DEF MockInv, MockType
  <2> QED
    BY <1>1, <1>7, <2>1, <2>2 DEF MockInv, MockType
<1>9. \A e \in DOMAIN dispatches : Lent(e)'
  <2>1. ASSUME NEW e \in DOMAIN dispatches, e # d PROVE Lent(e)'
    BY <1>1, <1>7, <2>1 DEF MockInv, Lent
  <2>2. Lent(d)'
    BY <1>1, <1>5, <1>7 DEF MockInv, Lent
  <2> QED
    BY <2>1, <2>2
<1>10. RepayFollowsLoan'
  <2> SUFFICES ASSUME NEW i \in 1 .. n + 1
               PROVE  /\ updates'[i].of = "repay" =>
                           \E j \in 1 .. i - 1 : /\ updates'[j].of = "execution"
                                                 /\ updates'[j].by = updates'[i].by
                      /\ IsTransfer(updates'[i].by) => updates'[i].to >= updates'[i].by[1]
    BY <1>7 DEF RepayFollowsLoan, IsTransfer, Requested
  <2>1. CASE i \in 1 .. n
    BY <1>7, <2>1 DEF MockInv, RepayFollowsLoan
  <2>2. CASE i = n + 1
    <3>1. of = "repay" => \E j \in 1 .. n : updates[j].of = "execution" /\ updates[j].by = d
      BY <1>7 DEF MockInv, Lent
    <3> QED
      BY <1>5, <1>6, <1>7, <2>2, <3>1
  <2> QED
    BY <1>7, <2>1, <2>2
<1> QED
  BY <1>1, <1>8, <1>9, <1>10 DEF MockInv

LEMMA StepMockInv == MockInv /\ [MockNext]_mockVars => MockInv'
<1> SUFFICES ASSUME MockInv, [MockNext]_mockVars PROVE MockInv'
  OBVIOUS
<1>1. CASE UNCHANGED <<publications, pending, dispatches, updates>>
  BY <1>1 DEF MockInv, MockType, Lent, RepayFollowsLoan, IsTransfer, Requested
<1>2. CASE subscribeKeepers \/ KeeperFound
  BY <1>1, <1>2 DEF subscribeKeepers, KeeperFound
<1>3. ASSUME NEW r \in MockRequests, publishTransferRequest(r) PROVE MockInv'
  <2> DEFINE publication == [request |-> r, stage |-> "timer"]
             n == Len(publications)
  <2>1. /\ publications \in Seq(Publication)
        /\ publication \in Publication
        /\ publications' = Append(publications, publication)
        /\ publication.request = r /\ publication.stage = "timer"
    BY <1>3 DEF publishTransferRequest, MockInv, MockType, Publication
  <2> HIDE DEF publication
  <2>2. /\ publications' \in Seq(Publication)
        /\ n \in Nat /\ Len(publications') = n + 1
        /\ DOMAIN publications = 1 .. n /\ DOMAIN publications' = 1 .. n + 1
        /\ \A p \in 1 .. n : publications'[p] = publications[p]
        /\ publications'[n + 1] = publication
    BY <2>1
  <2>3. /\ pending' = [pending EXCEPT ![r.signature] = n + 1]
        /\ UNCHANGED <<dispatches, updates>>
    BY <1>3, <2>2 DEF publishTransferRequest
  <2> HIDE DEF n
  <2>4. r.signature \in Signatures /\ pending' \in [Signatures -> Nat]
    BY <2>2, <2>3 DEF MockInv, MockType, Signatures
  <2>5. MockType'
    BY <2>2, <2>3, <2>4 DEF MockInv, MockType
  <2>6. \A d \in DOMAIN dispatches : Lent(d)'
    BY <2>3 DEF MockInv, Lent
  <2>7. ASSUME NEW p \in 1 .. n + 1, publications'[p].request.requestType = "TRANSFER"
        PROVE  /\ pending'[publications'[p].request.signature] >= p
               /\ publications'[p].stage # "dispatching"
    <3>1. CASE p = n + 1
      BY <2>1, <2>2, <2>3, <2>4, <3>1 DEF MockInv, MockType
    <3>2. CASE p \in 1 .. n
      <4>1. publications[p].request \in MockRequests
        <5>1. publications[p] \in Publication
          BY <2>2, <3>2 DEF MockInv, MockType
        <5> QED
          BY <5>1 DEF Publication
      <4>2. publications[p].request.signature \in Signatures
        BY <4>1 DEF Signatures
      <4>3. /\ pending[publications[p].request.signature] >= p
            /\ publications[p].stage # "dispatching"
        BY <2>2, <2>7, <3>2 DEF MockInv
      <4> QED
        BY <2>2, <2>3, <3>2, <4>2, <4>3 DEF MockInv, MockType
    <3> QED
      BY <2>2, <3>1, <3>2
  <2>8. RepayFollowsLoan'
    <3>1. \A i \in DOMAIN updates : updates[i].by[1] \in 1 .. n
      BY <2>2 DEF MockInv, MockType
    <3> QED
      BY <2>2, <2>3, <3>1 DEF MockInv, RepayFollowsLoan, IsTransfer, Requested
  <2> QED
    BY <2>2, <2>3, <2>5, <2>6, <2>7, <2>8 DEF MockInv
<1>4. ASSUME NEW p \in DOMAIN publications, TransferTimer(p) PROVE MockInv'
  <2>1. /\ publications' = [publications EXCEPT ![p].stage = "returned"]
        /\ Dispatched(p)
        /\ UNCHANGED <<pending, updates>>
    BY <1>4 DEF TransferTimer
  <2>2. /\ publications' \in Seq(Publication)
        /\ DOMAIN publications' = DOMAIN publications
        /\ \A q \in DOMAIN publications :
             /\ publications'[q].request = publications[q].request
             /\ publications'[q].stage \in {publications[q].stage, "returned"}
    BY <2>1, StageMoves
  <2>3. p \in Nat /\ pending' \in [Signatures -> Nat]
    BY <2>1 DEF MockInv, MockType
  <2>4. MockType' /\ (\A d \in DOMAIN dispatches' : Lent(d)') /\ RepayFollowsLoan'
    BY <2>1, <2>2, <2>3, DispatchAdds
  <2> QED
    BY <2>1, <2>2, <2>4 DEF MockInv
<1>5. ASSUME NEW r \in MockRequests, publishMetaRequest(r) PROVE MockInv'
  <2> DEFINE publication == [request |-> r, stage |-> "dispatching"]
             n == Len(publications)
  <2>1. /\ publications \in Seq(Publication)
        /\ publication \in Publication
        /\ publications' = Append(publications, publication)
        /\ publication.request.requestType # "TRANSFER"
    BY <1>5 DEF publishMetaRequest, MockInv, MockType, Publication
  <2> HIDE DEF publication
  <2>2. /\ publications' \in Seq(Publication)
        /\ n \in Nat /\ Len(publications') = n + 1
        /\ DOMAIN publications = 1 .. n /\ DOMAIN publications' = 1 .. n + 1
        /\ \A p \in 1 .. n : publications'[p] = publications[p]
        /\ publications'[n + 1] = publication
    BY <2>1
  <2>3. Dispatched(n + 1) /\ UNCHANGED <<pending, updates>>
    BY <1>5, <2>2 DEF publishMetaRequest
  <2> HIDE DEF n
  <2>4. /\ n + 1 \in Nat /\ n + 1 \in DOMAIN publications'
        /\ DOMAIN publications \subseteq DOMAIN publications'
        /\ \A q \in DOMAIN publications : publications'[q].request = publications[q].request
        /\ pending' \in [Signatures -> Nat]
    BY <2>2, <2>3 DEF MockInv, MockType
  <2>5. MockType' /\ (\A d \in DOMAIN dispatches' : Lent(d)') /\ RepayFollowsLoan'
    BY <2>2, <2>3, <2>4, DispatchAdds
  <2>6. \A p \in 1 .. n + 1 : publications'[p].request.requestType = "TRANSFER" =>
           /\ pending'[publications'[p].request.signature] >= p
           /\ publications'[p].stage # "dispatching"
    BY <2>1, <2>2, <2>3 DEF MockInv
  <2> QED
    BY <2>2, <2>5, <2>6 DEF MockInv
<1>6. ASSUME NEW p \in DOMAIN publications, MetaReturns(p) PROVE MockInv'
  <2> DEFINE signature == publications[p].request.signature
  <2>1. /\ publications' = [publications EXCEPT ![p].stage = "returned"]
        /\ pending' = [pending EXCEPT ![signature] = p]
        /\ UNCHANGED <<dispatches, updates>>
    BY <1>6 DEF MetaReturns
  <2>2. /\ publications' \in Seq(Publication)
        /\ DOMAIN publications' = DOMAIN publications
        /\ \A q \in DOMAIN publications :
             /\ publications'[q].request = publications[q].request
             /\ publications'[q].stage \in {publications[q].stage, "returned"}
    BY <2>1, StageMoves
  <2>3. /\ p \in Nat /\ publications[p].stage = "dispatching"
        /\ \A q \in DOMAIN publications : publications[q].request \in MockRequests
    <3>1. p \in Nat /\ \A q \in DOMAIN publications : publications[q] \in Publication
      BY DEF MockInv, MockType
    <3> QED
      BY <1>6, <3>1 DEF MetaReturns, Publication
  <2>4. \A q \in DOMAIN publications : publications[q].request.signature \in Signatures
    BY <2>3 DEF Signatures
  <2> HIDE DEF signature
  <2>5. MockType'
    BY <2>1, <2>2, <2>3 DEF MockInv, MockType
  <2>6. \A d \in DOMAIN dispatches : Lent(d)'
    BY <2>1 DEF MockInv, Lent
  <2>7. RepayFollowsLoan'
    <3>1. \A i \in DOMAIN updates : updates[i].by[1] \in DOMAIN publications
      BY DEF MockInv, MockType
    <3> QED
      BY <2>1, <2>2, <3>1 DEF MockInv, RepayFollowsLoan, IsTransfer, Requested
  <2>8. ASSUME NEW q \in DOMAIN publications, publications[q].request.requestType = "TRANSFER"
        PROVE  /\ pending'[publications[q].request.signature] >= q
               /\ publications'[q].stage # "dispatching"
    <3>1. publications[p].request.requestType # "TRANSFER"
      BY <2>3 DEF MockInv
    <3>2. publications[q].request.signature # signature
      BY <2>3, <2>8, <3>1, MockAssumption DEF signature
    <3>3. pending'[publications[q].request.signature] = pending[publications[q].request.signature]
      BY <2>1, <2>4, <3>2 DEF MockInv, MockType
    <3> QED
      BY <2>2, <2>8, <3>3 DEF MockInv
  <2> QED
    BY <2>1, <2>2, <2>5, <2>6, <2>7, <2>8 DEF MockInv
<1>7. ASSUME NEW d \in DOMAIN dispatches, Dry(d) PROVE MockInv'
  <2> DEFINE r == [dispatches[d] EXCEPT
                     !.stage = IF IsTransfer(d) THEN "minting" ELSE "executing"]
  <2>1. dispatches[d] \in Dispatch
    BY DEF MockInv, MockType
  <2>2. /\ r \in Dispatch
        /\ r.waitForSignature = dispatches[d].waitForSignature
        /\ r.repay = dispatches[d].repay
    BY <2>1 DEF Dispatch
  <2>3. dispatches' = [dispatches EXCEPT ![d] = r] /\ UNCHANGED <<publications, pending, updates>>
    BY <1>7 DEF Dry
  <2> HIDE DEF r
  <2> QED
    BY <2>2, <2>3, DispatchMoves
<1>8. ASSUME NEW d \in DOMAIN dispatches, Deposit(d) PROVE MockInv'
  <2> DEFINE r == [dispatches[d] EXCEPT !.stage = "executing", !.deposit = TRUE]
  <2>1. dispatches[d] \in Dispatch
    BY DEF MockInv, MockType
  <2>2. /\ r \in Dispatch
        /\ r.waitForSignature = dispatches[d].waitForSignature
        /\ r.repay = dispatches[d].repay
    BY <2>1 DEF Dispatch
  <2>3. dispatches' = [dispatches EXCEPT ![d] = r] /\ UNCHANGED <<publications, pending, updates>>
    BY <1>8 DEF Deposit
  <2> HIDE DEF r
  <2> QED
    BY <2>2, <2>3, DispatchMoves
<1>9. ASSUME NEW d \in DOMAIN dispatches, Confirmation(d) PROVE MockInv'
  <2> DEFINE n == dispatches[d].confirmations + 1
             repay == IF n = target /\ dispatches[d].deposit THEN "timer" ELSE dispatches[d].repay
             r == [dispatches[d] EXCEPT !.confirmations = n, !.repay = repay]
  <2>1. dispatches[d] \in Dispatch
    BY DEF MockInv, MockType
  <2>2. n \in Nat /\ repay \in {"timer", dispatches[d].repay}
    BY <2>1 DEF Dispatch
  <2>3. dispatches' = [dispatches EXCEPT ![d] = r] /\ UNCHANGED <<publications, pending, updates>>
    BY <1>9 DEF Confirmation
  <2> HIDE DEF n, repay
  <2>4. /\ r \in Dispatch
        /\ r.waitForSignature = dispatches[d].waitForSignature
        /\ r.repay = "signed" => dispatches[d].repay = "signed"
    BY <2>1, <2>2 DEF Dispatch
  <2> HIDE DEF r
  <2> QED
    BY <2>3, <2>4, DispatchMoves
<1>10. ASSUME NEW d \in DOMAIN dispatches, Execute(d) PROVE MockInv'
  <2> DEFINE r == [dispatches[d] EXCEPT !.stage = "executed", !.waitForSignature = "mocked"]
  <2>1. dispatches[d] \in Dispatch
    BY DEF MockInv, MockType
  <2>2. r \in Dispatch /\ r.waitForSignature = "mocked"
    BY <2>1 DEF Dispatch
  <2>3. /\ dispatches' = [dispatches EXCEPT ![d] = r]
        /\ Emit(d, "execution")
        /\ UNCHANGED <<publications, pending>>
    BY <1>10 DEF Execute
  <2> HIDE DEF r
  <2> QED
    BY <2>2, <2>3, EmitKeeps
<1>11. ASSUME NEW d \in DOMAIN dispatches, ExecuteFails(d) PROVE MockInv'
  <2> DEFINE r == [dispatches[d] EXCEPT !.stage = "failed"]
  <2>1. dispatches[d] \in Dispatch
    BY DEF MockInv, MockType
  <2>2. /\ r \in Dispatch
        /\ r.waitForSignature = dispatches[d].waitForSignature
        /\ r.repay = dispatches[d].repay
    BY <2>1 DEF Dispatch
  <2>3. dispatches' = [dispatches EXCEPT ![d] = r] /\ UNCHANGED <<publications, pending, updates>>
    BY <1>11 DEF ExecuteFails
  <2> HIDE DEF r
  <2> QED
    BY <2>2, <2>3, DispatchMoves
<1>12. ASSUME NEW d \in DOMAIN dispatches, Repay(d) PROVE MockInv'
  <2> DEFINE repay == IF dispatches[d].waitForSignature = "mocked" THEN "signed" ELSE "waiting"
             r == [dispatches[d] EXCEPT !.repay = repay]
  <2>1. dispatches[d] \in Dispatch
    BY DEF MockInv, MockType
  <2>2. /\ repay \in {"signed", "waiting"}
        /\ repay = "signed" => dispatches[d].waitForSignature = "mocked"
    OBVIOUS
  <2>3. dispatches' = [dispatches EXCEPT ![d] = r] /\ UNCHANGED <<publications, pending, updates>>
    BY <1>12 DEF Repay
  <2> HIDE DEF repay
  <2>4. /\ r \in Dispatch
        /\ r.waitForSignature = dispatches[d].waitForSignature
        /\ r.repay = repay
    BY <2>1, <2>2 DEF Dispatch
  <2> HIDE DEF r
  <2> QED
    BY <2>2, <2>3, <2>4, DispatchMoves
<1>13. ASSUME NEW d \in DOMAIN dispatches, Repaid(d) PROVE MockInv'
  <2> DEFINE r == [dispatches[d] EXCEPT !.repay = "sent"]
  <2>1. dispatches[d] \in Dispatch /\ dispatches[d].waitForSignature = "mocked"
    BY <1>13 DEF Repaid, MockInv, MockType, Lent
  <2>2. r \in Dispatch /\ r.repay = "sent" /\ r.waitForSignature = "mocked"
    BY <2>1 DEF Dispatch
  <2>3. /\ dispatches' = [dispatches EXCEPT ![d] = r]
        /\ Emit(d, "repay")
        /\ UNCHANGED <<publications, pending>>
    BY <1>13 DEF Repaid
  <2> HIDE DEF r
  <2> QED
    BY <2>1, <2>2, <2>3, EmitKeeps
<1>14. CASE UNCHANGED mockVars
  BY <1>1, <1>14 DEF mockVars
<1>15. CASE MockNext
  BY <1>2, <1>3, <1>4, <1>5, <1>6, <1>7, <1>8, <1>9, <1>10, <1>11, <1>12, <1>13, <1>15
  DEF MockNext
<1> QED
  BY <1>14, <1>15

\* Whatever the order of timers and answers, the update of a repay follows
\* the loan's, and reaches an emitter its caller may still have
\* (createMockKeeper, waitForMint, publishTransferRequest).
THEOREM RepaysFollowLoans == MockSpec => []RepayFollowsLoan
<1>1. MockInv => RepayFollowsLoan
  BY DEF MockInv
<1> QED
  BY InitMockInv, StepMockInv, <1>1, PTL DEF MockSpec

-----------------------------------------------------------------------------
(* Layers.                                                                 *)

\* layer holds the layers of a tree over leaves up to the m-th.
LayersUpTo(layer, leaves, m) ==
    layer = [k \in 0 .. m |-> IF k = 0 THEN leaves ELSE getNextLayer(layer[k - 1])]

LEMMA LayersExist ==
    ASSUME NEW leaves, NEW m \in Nat
    PROVE  \E layer : LayersUpTo(layer, leaves, m)
<1> DEFINE Good == {k \in 0 .. m : \E layer : LayersUpTo(layer, leaves, k)}
<1>1. 0 \in Good
  <2> DEFINE layer == [k \in 0 .. 0 |-> leaves]
  <2>1. layer = [k \in 0 .. 0 |-> IF k = 0 THEN leaves ELSE getNextLayer(layer[k - 1])]
    <3>1. \A k \in 0 .. 0 : k = 0
      OBVIOUS
    <3> QED BY <3>1
  <2> HIDE DEF layer
  <2>2. LayersUpTo(layer, leaves, 0)
    BY <2>1 DEF LayersUpTo
  <2> QED BY <2>2
<1>2. ASSUME NEW i \in 0 .. m - 1, i \in Good
      PROVE  i + 1 \in Good
  <2>1. PICK below : LayersUpTo(below, leaves, i)
    BY <1>2
  <2>2. below = [k \in 0 .. i |-> IF k = 0 THEN leaves ELSE getNextLayer(below[k - 1])]
    BY <2>1 DEF LayersUpTo
  <2> DEFINE layer == [k \in 0 .. i + 1 |-> IF k = i + 1 THEN getNextLayer(below[i]) ELSE below[k]]
  <2>3. ASSUME NEW k \in 0 .. i + 1
        PROVE  layer[k] = IF k = 0 THEN leaves ELSE getNextLayer(layer[k - 1])
    <3>1. CASE k = i + 1
      <4>1. k - 1 \in 0 .. i + 1 /\ k - 1 = i /\ k - 1 # i + 1 /\ k # 0
        BY <3>1
      <4>2. layer[k] = getNextLayer(below[i]) /\ layer[k - 1] = below[i]
        BY <3>1, <4>1
      <4> QED BY <4>1, <4>2
    <3>2. CASE k # i + 1 /\ k # 0
      <4>1. k \in 0 .. i /\ k - 1 \in 0 .. i + 1 /\ k - 1 # i + 1
        BY <3>2
      <4>2. layer[k] = below[k] /\ layer[k - 1] = below[k - 1]
        BY <3>2, <4>1
      <4>3. below[k] = getNextLayer(below[k - 1])
        BY <2>2, <3>2, <4>1
      <4> QED BY <3>2, <4>2, <4>3
    <3>3. CASE k = 0
      <4>1. k \in 0 .. i /\ k # i + 1
        BY <3>3
      <4>2. layer[k] = below[k] /\ below[k] = leaves
        BY <2>2, <3>3, <4>1
      <4> QED BY <3>3, <4>2
    <3> QED BY <3>1, <3>2, <3>3
  <2>4. layer = [k \in 0 .. i + 1 |-> IF k = 0 THEN leaves ELSE getNextLayer(layer[k - 1])]
    <3> DEFINE other == [k \in 0 .. i + 1 |-> IF k = 0 THEN leaves ELSE getNextLayer(layer[k - 1])]
    <3>1. \A k \in 0 .. i + 1 : layer[k] = other[k]
      <4> HIDE DEF layer
      <4> QED BY <2>3
    <3> QED BY <3>1
  <2> HIDE DEF layer
  <2>5. LayersUpTo(layer, leaves, i + 1)
    BY <2>4 DEF LayersUpTo
  <2> QED BY <2>5
<1> HIDE DEF Good
<1>3. 0 .. m \subseteq Good
  BY <1>1, <1>2, UpTo
<1>4. m \in Good
  BY <1>3
<1> QED BY <1>4 DEF Good

LEMMA LayersAre ==
    ASSUME NEW leaves, Len(leaves) \in Nat
    PROVE  LayersUpTo(getLayers(leaves), leaves, Len(leaves))
<1>1. getLayers(leaves) = CHOOSE layer : LayersUpTo(layer, leaves, Len(leaves))
  BY DEF getLayers, LayersUpTo
<1> QED BY <1>1, LayersExist

\* A sequence of whatever values.
Proper(s) == Len(s) \in Nat /\ s = [i \in 1 .. Len(s) |-> s[i]]

LEMMA LenOf ==
    ASSUME NEW n \in Nat, NEW s, s = [i \in 1 .. n |-> s[i]]
    PROVE  Len(s) = n /\ Proper(s)
<1> DEFINE S == {s[i] : i \in 1 .. n}
<1>1. s \in [1 .. n -> S]
  OBVIOUS
<1> HIDE DEF S
<1>2. s \in Seq(S)
  BY <1>1
<1>3. Len(s) = n
  BY <1>1, <1>2, LenProperties
<1> QED BY <1>3 DEF Proper

\* Half as many elements, rounded up.
LEMMA NextLayerIs ==
    ASSUME NEW s, Proper(s)
    PROVE  /\ Proper(getNextLayer(s))
           /\ Len(getNextLayer(s)) = (Len(s) + 1) \div 2
           /\ \A j \in 1 .. (Len(s) + 1) \div 2 :
                getNextLayer(s)[j] = IF 2 * j <= Len(s) THEN combinedHash(s[2 * j - 1], s[2 * j])
                                     ELSE s[2 * j - 1]
<1> DEFINE h == (Len(s) + 1) \div 2
           t == [j \in 1 .. h |-> IF 2 * j <= Len(s) THEN combinedHash(s[2 * j - 1], s[2 * j])
                                  ELSE s[2 * j - 1]]
<1>1. Len(s) \in Nat
  BY DEF Proper
<1>2. h \in Nat
  BY <1>1
<1>3. getNextLayer(s) = t
  BY DEF getNextLayer
<1> HIDE DEF h
<1>4. t = [j \in 1 .. h |-> t[j]]
  OBVIOUS
<1>5. \A j \in 1 .. h : t[j] = IF 2 * j <= Len(s) THEN combinedHash(s[2 * j - 1], s[2 * j])
                                ELSE s[2 * j - 1]
  OBVIOUS
<1> HIDE DEF t
<1>6. Len(t) = h /\ Proper(t)
  BY <1>2, <1>4, LenOf
<1> QED BY <1>3, <1>5, <1>6 DEF h

\* The layers of a tree: every one is made of the one below, the last has one
\* element.
LEMMA LayerShapes ==
    ASSUME NEW leaves, Proper(leaves), Len(leaves) > 0
    PROVE  LET layers == getLayers(leaves)
               n == Len(leaves)
           IN /\ DOMAIN layers = 0 .. n
              /\ layers[0] = leaves
              /\ \A k \in 0 .. n - 1 : layers[k + 1] = getNextLayer(layers[k])
              /\ \A k \in 0 .. n : Proper(layers[k]) /\ Len(layers[k]) > 0
              /\ Len(layers[n]) = 1
<1> DEFINE layers == getLayers(leaves)
           n == Len(leaves)
<1>1. n \in Nat /\ n > 0
  BY DEF Proper
<1>2. layers = [k \in 0 .. n |-> IF k = 0 THEN leaves ELSE getNextLayer(layers[k - 1])]
  BY <1>1, LayersAre DEF LayersUpTo
<1> HIDE DEF layers, n
<1>3. DOMAIN layers = 0 .. n /\ layers[0] = leaves
  BY <1>1, <1>2
<1>4. ASSUME NEW k \in 0 .. n - 1
      PROVE  layers[k + 1] = getNextLayer(layers[k])
  <2>1. k + 1 \in 0 .. n /\ k + 1 # 0 /\ (k + 1) - 1 = k
    BY <1>1
  <2>2. layers[k + 1] = getNextLayer(layers[(k + 1) - 1])
    BY <1>2, <2>1
  <2> QED BY <2>1, <2>2
<1> DEFINE Fine(k) == /\ Proper(layers[k])
                      /\ Len(layers[k]) > 0
                      /\ Len(layers[k]) = 1 \/ Len(layers[k]) <= n - k
           Good == {k \in 0 .. n : Fine(k)}
<1>5. 0 \in Good
  BY <1>1, <1>3 DEF n
<1>6. ASSUME NEW k \in 0 .. n - 1, k \in Good
      PROVE  k + 1 \in Good
  <2> DEFINE m == Len(layers[k])
  <2>1. m \in Nat /\ m > 0 /\ (m = 1 \/ m <= n - k) /\ Proper(layers[k])
    <3>1. Fine(k)
      BY <1>6
    <3> QED BY <3>1 DEF Proper
  <2>2. Proper(layers[k + 1]) /\ Len(layers[k + 1]) = (m + 1) \div 2
    BY <1>4, <2>1, NextLayerIs
  <2> HIDE DEF m
  <2>3. (m + 1) \div 2 > 0 /\ ((m + 1) \div 2 = 1 \/ (m + 1) \div 2 <= n - (k + 1))
    BY <1>1, <2>1
  <2>4. k + 1 \in 0 .. n
    BY <1>1
  <2> QED BY <2>2, <2>3, <2>4
<1> HIDE DEF Fine, Good
<1>7. 0 .. n \subseteq Good
  BY <1>1, <1>5, <1>6, UpTo
<1>8. \A k \in 0 .. n : Proper(layers[k]) /\ Len(layers[k]) > 0
  <2>1. \A k \in 0 .. n : Fine(k)
    BY <1>7 DEF Good
  <2> QED BY <2>1 DEF Fine
<1>9. Len(layers[n]) = 1
  <2>1. Fine(n)
    BY <1>1, <1>7 DEF Good
  <2>2. Len(layers[n]) \in Nat
    BY <1>1, <1>8 DEF Proper
  <2> QED BY <1>1, <2>1, <2>2 DEF Fine
<1> QED BY <1>3, <1>4, <1>8, <1>9 DEF layers, n

-----------------------------------------------------------------------------
(* Hashes along a proof.                                                   *)

\* hash holds what the first m nodes of proof lead to from node.
HashesUpTo(hash, node, proof, m) ==
    hash = [k \in 0 .. m |-> IF k = 0 THEN node ELSE combinedHash(hash[k - 1], proof[k])]

LEMMA HashesExist ==
    ASSUME NEW node, NEW proof, NEW m \in Nat
    PROVE  \E f : HashesUpTo(f, node, proof, m)
<1> DEFINE Good == {k \in 0 .. m : \E f : HashesUpTo(f, node, proof, k)}
<1>1. 0 \in Good
  <2> DEFINE f == [k \in 0 .. 0 |-> node]
  <2>1. f = [k \in 0 .. 0 |-> IF k = 0 THEN node ELSE combinedHash(f[k - 1], proof[k])]
    <3>1. \A k \in 0 .. 0 : k = 0
      OBVIOUS
    <3> QED BY <3>1
  <2> HIDE DEF f
  <2>2. HashesUpTo(f, node, proof, 0)
    BY <2>1 DEF HashesUpTo
  <2> QED BY <2>2
<1>2. ASSUME NEW i \in 0 .. m - 1, i \in Good
      PROVE  i + 1 \in Good
  <2>1. PICK g : HashesUpTo(g, node, proof, i)
    BY <1>2
  <2>2. g = [k \in 0 .. i |-> IF k = 0 THEN node ELSE combinedHash(g[k - 1], proof[k])]
    BY <2>1 DEF HashesUpTo
  <2> DEFINE last == combinedHash(g[i], proof[(i + 1)])
             f == [k \in 0 .. i + 1 |-> IF k = i + 1 THEN last ELSE g[k]]
  <2>3. ASSUME NEW k \in 0 .. i + 1
        PROVE  f[k] = IF k = 0 THEN node ELSE combinedHash(f[k - 1], proof[k])
    <3>1. CASE k = i + 1
      <4>1. k - 1 \in 0 .. i + 1 /\ k - 1 = i /\ k - 1 # i + 1 /\ k # 0
        BY <3>1
      <4>2. f[k] = last /\ f[k - 1] = g[i]
        BY <3>1, <4>1
      <4> HIDE DEF f
      <4> QED BY <3>1, <4>1, <4>2
    <3>2. CASE k # i + 1 /\ k # 0
      <4>1. k \in 0 .. i /\ k - 1 \in 0 .. i + 1 /\ k - 1 # i + 1
        BY <3>2
      <4>2. f[k] = g[k] /\ f[k - 1] = g[k - 1]
        BY <3>2, <4>1
      <4>3. g[k] = combinedHash(g[k - 1], proof[k])
        BY <2>2, <3>2, <4>1
      <4> HIDE DEF f
      <4> QED BY <3>2, <4>2, <4>3
    <3>3. CASE k = 0
      <4>1. k \in 0 .. i /\ k # i + 1
        BY <3>3
      <4>2. f[k] = g[k] /\ g[k] = node
        BY <2>2, <3>3, <4>1
      <4> HIDE DEF f
      <4> QED BY <3>3, <4>2
    <3> QED BY <3>1, <3>2, <3>3
  <2>4. f = [k \in 0 .. i + 1 |-> IF k = 0 THEN node ELSE combinedHash(f[k - 1], proof[k])]
    <3> DEFINE other == [k \in 0 .. i + 1 |-> IF k = 0 THEN node ELSE combinedHash(f[k - 1], proof[k])]
    <3>1. \A k \in 0 .. i + 1 : f[k] = other[k]
      <4> HIDE DEF f
      <4> QED BY <2>3
    <3> QED BY <3>1
  <2> HIDE DEF f
  <2>5. HashesUpTo(f, node, proof, i + 1)
    BY <2>4 DEF HashesUpTo
  <2> QED BY <2>5
<1> HIDE DEF Good
<1>3. 0 .. m \subseteq Good
  BY <1>1, <1>2, UpTo
<1>4. m \in Good
  BY <1>3
<1> QED BY <1>4 DEF Good

LEMMA HashIs ==
    ASSUME NEW node, NEW proof, Len(proof) \in Nat
    PROVE  \E hash : HashesUpTo(hash, node, proof, Len(proof))
                    /\ computedHash(node, proof) = hash[Len(proof)]
<1> DEFINE hash == CHOOSE hash : HashesUpTo(hash, node, proof, Len(proof))
<1>1. computedHash(node, proof) = hash[Len(proof)]
  BY DEF computedHash, HashesUpTo
<1>2. HashesUpTo(hash, node, proof, Len(proof))
  BY HashesExist
<1> QED BY <1>1, <1>2

\* No proof leads nowhere, and one more node leads one further.
LEMMA HashOfNone ==
    ASSUME NEW node
    PROVE  computedHash(node, <<>>) = node
<1>1. Len(<<>>) = 0
  BY EmptySeq
<1>2. PICK hash : HashesUpTo(hash, node, <<>>, 0) /\ computedHash(node, <<>>) = hash[0]
  BY <1>1, HashIs
<1>3. hash[0] = node
  BY <1>2 DEF HashesUpTo
<1> QED BY <1>2, <1>3

LEMMA HashOfMore ==
    ASSUME NEW node, NEW S, NEW proof \in Seq(S), NEW x \in S
    PROVE  computedHash(node, proof \o <<x>>) = combinedHash(computedHash(node, proof), x)
<1> DEFINE m == Len(proof)
           more == proof \o <<x>>
           one == <<x>>
<1>1. m \in Nat
  BY LenProperties
<1>2. one \in Seq(S) /\ Len(one) = 1 /\ one[1] = x
  OBVIOUS
<1>3. /\ Len(more) = m + 1
      /\ \A i \in 1 .. m : more[i] = proof[i]
      /\ more[m + 1] = x
  <2> HIDE DEF one
  <2>1. /\ Len(proof \o one) = Len(proof) + Len(one)
        /\ \A i \in 1 .. Len(proof) + Len(one) :
             (proof \o one)[i] = IF i <= Len(proof) THEN proof[i] ELSE one[i - Len(proof)]
    BY <1>2, ConcatProperties
  <2>2. (m + 1) - m = 1
    BY <1>1
  <2>3. \A i \in 1 .. m : i \in 1 .. Len(proof) + Len(one) /\ i <= Len(proof)
    BY <1>1, <1>2
  <2>4. m + 1 \in 1 .. Len(proof) + Len(one) /\ ~ (m + 1 <= Len(proof))
    BY <1>1, <1>2
  <2> HIDE DEF m
  <2> QED BY <1>2, <2>1, <2>2, <2>3, <2>4 DEF one, m
<1>4. PICK g : HashesUpTo(g, node, proof, m) /\ computedHash(node, proof) = g[m]
  BY <1>1, HashIs
<1> HIDE DEF more
<1>5. PICK h : HashesUpTo(h, node, more, m + 1) /\ computedHash(node, more) = h[m + 1]
  <2>1. m + 1 \in Nat
    BY <1>1
  <2> QED BY <1>3, <2>1, HashIs
<1> HIDE DEF m
<1>6. g = [k \in 0 .. m |-> IF k = 0 THEN node ELSE combinedHash(g[k - 1], proof[k])]
  BY <1>4 DEF HashesUpTo
<1>7. h = [k \in 0 .. m + 1 |-> IF k = 0 THEN node ELSE combinedHash(h[k - 1], more[k])]
  BY <1>5 DEF HashesUpTo
<1> DEFINE Good == {k \in 0 .. m : g[k] = h[k]}
<1>8. 0 \in Good
  <2>1. 0 \in 0 .. m /\ 0 \in 0 .. m + 1
    BY <1>1
  <2> QED BY <1>6, <1>7, <2>1
<1>9. ASSUME NEW k \in 0 .. m - 1, k \in Good
      PROVE  k + 1 \in Good
  <2>1. k + 1 \in 0 .. m /\ k + 1 \in 0 .. m + 1 /\ k + 1 # 0 /\ (k + 1) - 1 = k
        /\ k + 1 \in 1 .. m
    BY <1>1
  <2>2. g[k + 1] = combinedHash(g[k], proof[k + 1])
    BY <1>6, <2>1
  <2>3. h[k + 1] = combinedHash(h[k], more[k + 1])
    BY <1>7, <2>1
  <2> QED BY <1>3, <1>9, <2>1, <2>2, <2>3
<1>10. 0 .. m \subseteq Good
  <2> HIDE DEF Good
  <2> QED BY <1>1, <1>8, <1>9, UpTo
<1>11. g[m] = h[m]
  <2>1. m \in 0 .. m
    BY <1>1
  <2> QED BY <1>10, <2>1
<1>12. h[m + 1] = combinedHash(h[m], x)
  <2>1. m + 1 \in 0 .. m + 1 /\ m + 1 # 0 /\ (m + 1) - 1 = m
    BY <1>1
  <2>2. h[m + 1] = combinedHash(h[(m + 1) - 1], more[m + 1])
    BY <1>7, <2>1
  <2>3. more[m + 1] = x
    BY <1>3
  <2>4. h[(m + 1) - 1] = h[m]
    BY <2>1
  <2> QED BY <2>2, <2>3, <2>4
<1> QED BY <1>4, <1>5, <1>11, <1>12 DEF more

-----------------------------------------------------------------------------
(* Proofs.                                                                 *)

\* From the place at in layer to the one above it.
Above(at, layer) == [idx |-> at.idx \div 2, proof |-> at.proof \o getPairElement(at.idx, layer)]

\* walk holds, for the first m layers, the place of an element and the proof
\* collected below.
WalksUpTo(walk, layers, start, m) ==
    walk = [k \in 0 .. m |-> IF k = 0 THEN [idx |-> start, proof |-> <<>>]
                             ELSE Above(walk[k - 1], layers[k - 1])]

LEMMA WalksExist ==
    ASSUME NEW layers, NEW start, NEW m \in Nat
    PROVE  \E f : WalksUpTo(f, layers, start, m)
<1> DEFINE Good == {k \in 0 .. m : \E f : WalksUpTo(f, layers, start, k)}
<1>1. 0 \in Good
  <2> DEFINE f == [k \in 0 .. 0 |-> [idx |-> start, proof |-> <<>>]]
  <2>1. f = [k \in 0 .. 0 |-> IF k = 0 THEN [idx |-> start, proof |-> <<>>] ELSE Above(f[k - 1], layers[k - 1])]
    <3>1. \A k \in 0 .. 0 : k = 0
      OBVIOUS
    <3> QED BY <3>1
  <2> HIDE DEF f
  <2>2. WalksUpTo(f, layers, start, 0)
    BY <2>1 DEF WalksUpTo
  <2> QED BY <2>2
<1>2. ASSUME NEW i \in 0 .. m - 1, i \in Good
      PROVE  i + 1 \in Good
  <2>1. PICK g : WalksUpTo(g, layers, start, i)
    BY <1>2
  <2>2. g = [k \in 0 .. i |-> IF k = 0 THEN [idx |-> start, proof |-> <<>>] ELSE Above(g[k - 1], layers[k - 1])]
    BY <2>1 DEF WalksUpTo
  <2> DEFINE last == Above(g[i], layers[(i + 1) - 1])
             f == [k \in 0 .. i + 1 |-> IF k = i + 1 THEN last ELSE g[k]]
  <2>3. ASSUME NEW k \in 0 .. i + 1
        PROVE  f[k] = IF k = 0 THEN [idx |-> start, proof |-> <<>>] ELSE Above(f[k - 1], layers[k - 1])
    <3>1. CASE k = i + 1
      <4>1. k - 1 \in 0 .. i + 1 /\ k - 1 = i /\ k - 1 # i + 1 /\ k # 0
        BY <3>1
      <4>2. f[k] = last /\ f[k - 1] = g[i]
        BY <3>1, <4>1
      <4> HIDE DEF f
      <4> QED BY <3>1, <4>1, <4>2
    <3>2. CASE k # i + 1 /\ k # 0
      <4>1. k \in 0 .. i /\ k - 1 \in 0 .. i + 1 /\ k - 1 # i + 1
        BY <3>2
      <4>2. f[k] = g[k] /\ f[k - 1] = g[k - 1]
        BY <3>2, <4>1
      <4>3. g[k] = Above(g[k - 1], layers[k - 1])
        BY <2>2, <3>2, <4>1
      <4> HIDE DEF f
      <4> QED BY <3>2, <4>2, <4>3
    <3>3. CASE k = 0
      <4>1. k \in 0 .. i /\ k # i + 1
        BY <3>3
      <4>2. f[k] = g[k] /\ g[k] = [idx |-> start, proof |-> <<>>]
        BY <2>2, <3>3, <4>1
      <4> HIDE DEF f
      <4> QED BY <3>3, <4>2
    <3> QED BY <3>1, <3>2, <3>3
  <2>4. f = [k \in 0 .. i + 1 |-> IF k = 0 THEN [idx |-> start, proof |-> <<>>] ELSE Above(f[k - 1], layers[k - 1])]
    <3> DEFINE other == [k \in 0 .. i + 1 |-> IF k = 0 THEN [idx |-> start, proof |-> <<>>] ELSE Above(f[k - 1], layers[k - 1])]
    <3>1. \A k \in 0 .. i + 1 : f[k] = other[k]
      <4> HIDE DEF f
      <4> QED BY <2>3
    <3> QED BY <3>1
  <2> HIDE DEF f
  <2>5. WalksUpTo(f, layers, start, i + 1)
    BY <2>4 DEF WalksUpTo
  <2> QED BY <2>5
<1> HIDE DEF Good
<1>3. 0 .. m \subseteq Good
  BY <1>1, <1>2, UpTo
<1>4. m \in Good
  BY <1>3
<1> QED BY <1>4 DEF Good

\* What the element at place idx of a layer hashes to with its pair, if it has
\* one, is the element above it.
LEMMA PairHashes ==
    ASSUME NEW s, Proper(s), NEW idx \in 0 .. Len(s) - 1
    PROVE  LET pair == getPairElement(idx, s)
               above == getNextLayer(s)[idx \div 2 + 1]
           IN /\ idx \div 2 \in 0 .. Len(getNextLayer(s)) - 1
              /\ \/ pair = <<>> /\ above = s[idx + 1]
                 \/ \E i \in 1 .. Len(s) : pair = <<s[i]>> /\ above = combinedHash(s[idx + 1], s[i])
<1> DEFINE n == Len(s)
           j == idx \div 2 + 1
           pair == getPairElement(idx, s)
           above == getNextLayer(s)[j]
<1>1. n \in Nat /\ idx \in Nat /\ idx < n
  BY DEF Proper
<1>2. Len(getNextLayer(s)) = (n + 1) \div 2
  BY NextLayerIs
<1>3. idx \div 2 \in 0 .. Len(getNextLayer(s)) - 1 /\ j \in 1 .. (n + 1) \div 2
  <2> HIDE DEF n
  <2>1. idx \div 2 \in Nat /\ idx \div 2 < (n + 1) \div 2 /\ (n + 1) \div 2 \in Nat
    BY <1>1
  <2> QED BY <1>2, <2>1
<1>4. above = IF 2 * j <= n THEN combinedHash(s[2 * j - 1], s[2 * j]) ELSE s[2 * j - 1]
  <2> HIDE DEF j
  <2> QED BY <1>3, NextLayerIs DEF n
<1>5. CASE idx % 2 = 0
  <2>1. 2 * j - 1 = idx + 1 /\ 2 * j = idx + 2
    BY <1>1, <1>5
  <2>2. pair = IF idx + 1 < n THEN <<s[(idx + 1) + 1]>> ELSE <<>>
    BY <1>5 DEF getPairElement
  <2>3. (idx + 1) + 1 = idx + 2
    BY <1>1
  <2> HIDE DEF j, pair, above, n
  <2>4. CASE idx + 1 < n
    <3>1. idx + 2 <= n /\ idx + 2 \in 1 .. n
      BY <1>1, <2>4
    <3>2. above = combinedHash(s[idx + 1], s[idx + 2])
      BY <1>4, <2>1, <3>1
    <3>3. pair = <<s[idx + 2]>>
      BY <2>2, <2>3, <2>4
    <3> QED BY <1>3, <3>1, <3>2, <3>3 DEF j, pair, above, n
  <2>5. CASE ~ (idx + 1 < n)
    <3>1. ~ (idx + 2 <= n)
      BY <1>1, <2>5
    <3>2. above = s[idx + 1] /\ pair = <<>>
      BY <1>4, <2>1, <2>2, <2>5, <3>1
    <3> QED BY <1>3, <3>2 DEF j, pair, above, n
  <2> QED BY <2>4, <2>5
<1>6. CASE idx % 2 # 0
  <2>1. 2 * j - 1 = idx /\ 2 * j = idx + 1 /\ idx > 0
    BY <1>1, <1>6
  <2>2. pair = IF idx - 1 < n THEN <<s[(idx - 1) + 1]>> ELSE <<>>
    BY <1>6 DEF getPairElement
  <2>3. (idx - 1) + 1 = idx /\ idx - 1 < n /\ idx + 1 <= n /\ idx \in 1 .. n
    BY <1>1, <2>1
  <2> HIDE DEF j, pair, above, n
  <2>4. above = combinedHash(s[idx], s[idx + 1])
    BY <1>4, <2>1, <2>3
  <2>5. combinedHash(s[idx], s[idx + 1]) = combinedHash(s[idx + 1], s[idx])
    BY DEF combinedHash
  <2>6. pair = <<s[idx]>>
    BY <2>2, <2>3
  <2> QED BY <1>3, <2>3, <2>4, <2>5, <2>6 DEF j, pair, above, n
<1> QED BY <1>5, <1>6

\* The proof of an element leads from it to the root.
LEMMA ProofLeadsToRoot ==
    ASSUME NEW leaves, Proper(leaves), NEW place \in 1 .. Len(leaves)
    PROVE  computedHash(leaves[place], getProof(leaves, leaves[place])) = getRoot(leaves)
<1> DEFINE n == Len(leaves)
           el == leaves[place]
           layers == getLayers(leaves)
           start == (CHOOSE i \in DOMAIN leaves : leaves[i] = el) - 1
           S == UNION {{layers[k][i] : i \in 1 .. Len(layers[k])} : k \in 0 .. n}
<1>1. n \in Nat /\ n > 0 /\ DOMAIN leaves = 1 .. n
  BY DEF Proper
<1>2. start \in 0 .. n - 1 /\ leaves[start + 1] = el
  <2> DEFINE i == CHOOSE i \in DOMAIN leaves : leaves[i] = el
  <2>1. place \in DOMAIN leaves /\ leaves[place] = el
    BY <1>1
  <2>2. i \in DOMAIN leaves /\ leaves[i] = el
    BY <2>1
  <2> HIDE DEF i
  <2>3. i - 1 \in 0 .. n - 1 /\ (i - 1) + 1 = i
    BY <1>1, <2>2
  <2> QED BY <2>2, <2>3 DEF i
<1>3. PICK walk : /\ WalksUpTo(walk, layers, start, n + 1)
                  /\ getProof(leaves, el) = walk[n + 1].proof
  <2> DEFINE walk == CHOOSE walk : WalksUpTo(walk, layers, start, n + 1)
  <2>1. getProof(leaves, el) = walk[n + 1].proof
    BY DEF getProof, WalksUpTo, Above
  <2>2. n + 1 \in Nat
    BY <1>1
  <2> HIDE DEF layers, start, n
  <2>3. WalksUpTo(walk, layers, start, n + 1)
    BY <2>2, WalksExist
  <2> HIDE DEF walk
  <2> QED BY <2>1, <2>3
<1>4. /\ layers[0] = leaves
      /\ \A k \in 0 .. n - 1 : layers[k + 1] = getNextLayer(layers[k])
      /\ \A k \in 0 .. n : Proper(layers[k]) /\ Len(layers[k]) > 0
      /\ Len(layers[n]) = 1
  BY <1>1, LayerShapes
<1>5. getRoot(leaves) = layers[n][1]
  BY DEF getRoot
<1> HIDE DEF n, layers, start, el
<1>6. walk = [k \in 0 .. n + 1 |-> IF k = 0 THEN [idx |-> start, proof |-> <<>>]
                                   ELSE Above(walk[k - 1], layers[k - 1])]
  BY <1>3 DEF WalksUpTo
<1>7. ASSUME NEW k \in 0 .. n
      PROVE  /\ walk[k + 1].idx = walk[k].idx \div 2
             /\ walk[k + 1].proof = walk[k].proof \o getPairElement(walk[k].idx, layers[k])
  <2>1. k + 1 \in 0 .. n + 1 /\ k + 1 # 0 /\ (k + 1) - 1 = k
    BY <1>1
  <2>2. walk[k + 1] = Above(walk[(k + 1) - 1], layers[(k + 1) - 1])
    BY <1>6, <2>1
  <2>3. walk[k + 1] = Above(walk[k], layers[k])
    BY <2>1, <2>2
  <2> DEFINE idx == walk[k].idx \div 2
             proof == walk[k].proof \o getPairElement(walk[k].idx, layers[k])
  <2>4. walk[k + 1] = [idx |-> idx, proof |-> proof]
    BY <2>3 DEF Above
  <2> HIDE DEF idx, proof
  <2>5. walk[k + 1].idx = idx /\ walk[k + 1].proof = proof
    BY <2>4
  <2> QED BY <2>5 DEF idx, proof
<1> DEFINE Fine(k) == /\ walk[k].idx \in 0 .. Len(layers[k]) - 1
                      /\ walk[k].proof \in Seq(S)
                      /\ computedHash(el, walk[k].proof) = layers[k][walk[k].idx + 1]
           Good == {k \in 0 .. n : Fine(k)}
<1>8. 0 \in Good
  <2>1. walk[0] = [idx |-> start, proof |-> <<>>]
    BY <1>1, <1>6
  <2>2. <<>> \in Seq(S) /\ computedHash(el, <<>>) = el
    BY HashOfNone
  <2>3. Len(layers[0]) = n /\ layers[0][start + 1] = el
    BY <1>2, <1>4 DEF n
  <2>4. walk[0].idx = start /\ walk[0].proof = <<>>
    BY <2>1
  <2> HIDE DEF S
  <2>5. Fine(0)
    BY <1>2, <2>2, <2>3, <2>4
  <2>6. 0 \in 0 .. n
    BY <1>1
  <2> HIDE DEF Fine
  <2> QED BY <2>5, <2>6
<1>9. ASSUME NEW k \in 0 .. n - 1, k \in Good
      PROVE  k + 1 \in Good
  <2> DEFINE s == layers[k]
             idx == walk[k].idx
             proof == walk[k].proof
             pair == getPairElement(idx, s)
             above == getNextLayer(s)[idx \div 2 + 1]
  <2>1. Fine(k)
    BY <1>9
  <2>2. k \in 0 .. n /\ k + 1 \in 0 .. n
    BY <1>1
  <2>3. Proper(s) /\ layers[k + 1] = getNextLayer(s)
    BY <1>4, <2>2
  <2>4. idx \in 0 .. Len(s) - 1 /\ proof \in Seq(S) /\ computedHash(el, proof) = s[idx + 1]
    BY <2>1
  <2>5. walk[k + 1].idx = idx \div 2 /\ walk[k + 1].proof = proof \o pair
    BY <1>7, <2>2
  <2>6. \A i \in 1 .. Len(s) : s[i] \in S
    BY <2>2
  <2> HIDE DEF S, s, idx, proof, Fine
  <2>7. /\ idx \div 2 \in 0 .. Len(getNextLayer(s)) - 1
        /\ \/ pair = <<>> /\ above = s[idx + 1]
           \/ \E i \in 1 .. Len(s) : pair = <<s[i]>> /\ above = combinedHash(s[idx + 1], s[i])
    BY <2>3, <2>4, PairHashes
  <2>8. proof \o pair \in Seq(S) /\ computedHash(el, proof \o pair) = above
    <3> HIDE DEF pair, above
    <3>1. CASE pair = <<>> /\ above = s[idx + 1]
      <4>1. proof \o <<>> = proof
        BY <2>4, ConcatEmptySeq
      <4> QED BY <2>4, <3>1, <4>1
    <3>2. ASSUME NEW i \in 1 .. Len(s), pair = <<s[i]>>, above = combinedHash(s[idx + 1], s[i])
          PROVE  proof \o pair \in Seq(S) /\ computedHash(el, proof \o pair) = above
      <4>1. s[i] \in S
        BY <2>6
      <4>2. computedHash(el, proof \o <<s[i]>>) = combinedHash(computedHash(el, proof), s[i])
        BY <2>4, <4>1, HashOfMore
      <4>3. proof \o <<s[i]>> \in Seq(S)
        BY <2>4, <4>1
      <4> QED BY <2>4, <3>2, <4>2, <4>3
    <3> QED BY <2>7, <3>1, <3>2
  <2> HIDE DEF pair
  <2>9. Fine(k + 1)
    BY <2>3, <2>5, <2>7, <2>8 DEF Fine
  <2> QED BY <2>2, <2>9
<1>10. n \in Good
  <2> HIDE DEF Good
  <2>1. 0 .. n \subseteq Good
    BY <1>1, <1>8, <1>9, UpTo
  <2> QED BY <1>1, <2>1
<1>11. /\ walk[n].idx = 0
       /\ walk[n].proof \in Seq(S)
       /\ computedHash(el, walk[n].proof) = layers[n][1]
  <2>1. Fine(n)
    BY <1>10
  <2>2. walk[n].idx = 0
    BY <1>4, <2>1
  <2> HIDE DEF S
  <2> QED BY <2>1, <2>2
<1> HIDE DEF S
<1>12. walk[n + 1].proof = walk[n].proof
  <2>1. getPairElement(0, layers[n]) = <<>>
    BY <1>4 DEF getPairElement
  <2>2. n \in 0 .. n
    BY <1>1
  <2>3. walk[n + 1].proof = walk[n].proof \o <<>>
    BY <1>7, <1>11, <2>1, <2>2
  <2> QED BY <1>11, <2>3, ConcatEmptySeq
<1>13. getProof(leaves, el) = walk[n].proof
  BY <1>3, <1>12
<1>14. computedHash(el, getProof(leaves, el)) = getRoot(leaves)
  BY <1>5, <1>11, <1>13
<1> QED BY <1>14 DEF el

-----------------------------------------------------------------------------
(* What proofs show.                                                       *)

NodesOf(leaves) ==
    LET layers == getLayers(leaves) IN UNION {Range(layers[k]) : k \in DOMAIN layers}

Childless(leaves) == \A i \in 1 .. Len(leaves) : leaves[i].children = {}

LEMMA CombinedHashIs ==
    ASSUME NEW x, NEW y
    PROVE  combinedHash(x, y).leaf = <<>> /\ combinedHash(x, y).children = {x, y}
  BY DEF combinedHash

LEMMA LeafIs ==
    ASSUME NEW index, NEW account, NEW amount
    PROVE  /\ Leaf(index, account, amount).leaf = <<index, account, amount>>
           /\ Leaf(index, account, amount).children = {}
           /\ Leaf(index, account, amount).leaf # <<>>
<1>1. /\ Leaf(index, account, amount).leaf = <<index, account, amount>>
      /\ Leaf(index, account, amount).children = {}
  BY DEF Leaf
<1>2. <<index, account, amount>> # <<>>
  OBVIOUS
<1> QED BY <1>1, <1>2

\* A node is a place of a layer, and the other way round.
LEMMA NodesAre ==
    ASSUME NEW leaves, Proper(leaves), Len(leaves) > 0
    PROVE  LET layers == getLayers(leaves)
               n == Len(leaves)
           IN /\ \A k \in 0 .. n : \A i \in 1 .. Len(layers[k]) : layers[k][i] \in NodesOf(leaves)
              /\ \A e \in NodesOf(leaves) : \E k \in 0 .. n : \E i \in 1 .. Len(layers[k]) : e = layers[k][i]
<1> DEFINE layers == getLayers(leaves)
           n == Len(leaves)
<1>1. DOMAIN layers = 0 .. n /\ \A k \in 0 .. n : DOMAIN layers[k] = 1 .. Len(layers[k])
  BY LayerShapes DEF Proper
<1>2. NodesOf(leaves) = UNION {{layers[k][i] : i \in DOMAIN layers[k]} : k \in DOMAIN layers}
  BY DEF NodesOf, Range
<1> HIDE DEF layers, n
<1>3. \A k \in 0 .. n : \A i \in 1 .. Len(layers[k]) : layers[k][i] \in NodesOf(leaves)
  BY <1>1, <1>2
<1>4. \A e \in NodesOf(leaves) : \E k \in 0 .. n : \E i \in 1 .. Len(layers[k]) : e = layers[k][i]
  BY <1>1, <1>2
<1> QED BY <1>3, <1>4 DEF layers, n

\* What holds of the leaves and of a pair of nodes of the tree holds of every
\* node: the children of a node are nodes, and a node that is no leaf of the
\* tree has an empty encoding.
LEMMA NodesAreSound ==
    ASSUME NEW leaves, Proper(leaves), Len(leaves) > 0, Childless(leaves)
    PROVE  \A e \in NodesOf(leaves) :
             /\ e.children \subseteq NodesOf(leaves)
             /\ e.leaf = <<>> \/ \E i \in 1 .. Len(leaves) : leaves[i] = e
<1> DEFINE layers == getLayers(leaves)
           n == Len(leaves)
           Sound(e) == /\ e.children \subseteq NodesOf(leaves)
                       /\ e.leaf = <<>> \/ \E i \in 1 .. n : leaves[i] = e
           Fine(k) == \A i \in 1 .. Len(layers[k]) : Sound(layers[k][i])
           Good == {k \in 0 .. n : Fine(k)}
<1>1. n \in Nat /\ n > 0
  BY DEF Proper
<1>2. /\ layers[0] = leaves
      /\ \A k \in 0 .. n - 1 : layers[k + 1] = getNextLayer(layers[k])
      /\ \A k \in 0 .. n : Proper(layers[k])
  BY LayerShapes
<1>3. /\ \A k \in 0 .. n : \A i \in 1 .. Len(layers[k]) : layers[k][i] \in NodesOf(leaves)
      /\ \A e \in NodesOf(leaves) : \E k \in 0 .. n : \E i \in 1 .. Len(layers[k]) : e = layers[k][i]
  BY NodesAre
<1>4. \A i \in 1 .. n : Sound(leaves[i])
  BY DEF Childless
<1> HIDE DEF layers, Sound
<1>5. 0 \in Good
  <2>1. Fine(0)
    BY <1>2, <1>4
  <2> HIDE DEF Fine
  <2> QED BY <1>1, <2>1
<1>6. ASSUME NEW k \in 0 .. n - 1, k \in Good
      PROVE  k + 1 \in Good
  <2> DEFINE s == layers[k]
             h == (Len(s) + 1) \div 2
  <2>1. k \in 0 .. n /\ k + 1 \in 0 .. n
    BY <1>1
  <2>2. Proper(s) /\ layers[k + 1] = getNextLayer(s) /\ Fine(k)
    BY <1>2, <1>6, <2>1
  <2>3. \A i \in 1 .. Len(s) : Sound(s[i]) /\ s[i] \in NodesOf(leaves)
    BY <1>3, <2>1, <2>2
  <2> HIDE DEF s
  <2>4. Len(s) \in Nat
    BY <2>2 DEF Proper
  <2>5. /\ Len(getNextLayer(s)) = h
        /\ \A j \in 1 .. h :
             getNextLayer(s)[j] = IF 2 * j <= Len(s) THEN combinedHash(s[2 * j - 1], s[2 * j])
                                  ELSE s[2 * j - 1]
    BY <2>2, NextLayerIs
  <2>6. ASSUME NEW j \in 1 .. h
        PROVE  Sound(getNextLayer(s)[j])
    <3>1. 2 * j - 1 \in 1 .. Len(s)
      BY <2>4
    <3>2. CASE 2 * j <= Len(s)
      <4>1. 2 * j \in 1 .. Len(s)
        BY <2>4, <3>2
      <4>2. getNextLayer(s)[j] = combinedHash(s[2 * j - 1], s[2 * j])
        BY <2>5, <3>2
      <4>3. s[2 * j - 1] \in NodesOf(leaves) /\ s[2 * j] \in NodesOf(leaves)
        BY <2>3, <3>1, <4>1
      <4>4. Sound(combinedHash(s[2 * j - 1], s[2 * j]))
        BY <4>3, CombinedHashIs DEF Sound
      <4> QED BY <4>2, <4>4
    <3>3. CASE ~ (2 * j <= Len(s))
      <4>1. getNextLayer(s)[j] = s[2 * j - 1]
        BY <2>5, <3>3
      <4> QED BY <2>3, <3>1, <4>1
    <3> QED BY <3>2, <3>3
  <2> HIDE DEF h
  <2>7. Fine(k + 1)
    BY <2>2, <2>5, <2>6
  <2> HIDE DEF Fine
  <2> QED BY <2>1, <2>7
<1>7. 0 .. n \subseteq Good
  <2> HIDE DEF Good
  <2> QED BY <1>1, <1>5, <1>6, UpTo
<1>8. \A e \in NodesOf(leaves) : Sound(e)
  BY <1>3, <1>7
<1> QED BY <1>8 DEF Sound

\* A node that leads to the root is a node of the tree.
LEMMA OnlyNodesVerify ==
    ASSUME NEW leaves, Proper(leaves), Len(leaves) > 0, Childless(leaves),
           NEW node, NEW proof, Len(proof) \in Nat,
           computedHash(node, proof) \in NodesOf(leaves)
    PROVE  node \in NodesOf(leaves)
<1> DEFINE m == Len(proof)
<1>1. m \in Nat
  OBVIOUS
<1>2. PICK hash : HashesUpTo(hash, node, proof, m) /\ computedHash(node, proof) = hash[m]
  BY HashIs
<1> HIDE DEF m
<1>3. hash = [k \in 0 .. m |-> IF k = 0 THEN node ELSE combinedHash(hash[k - 1], proof[k])]
  BY <1>2 DEF HashesUpTo
<1> DEFINE Good == {j \in 0 .. m : hash[m - j] \in NodesOf(leaves)}
<1>4. 0 \in Good
  <2>1. m - 0 = m /\ 0 \in 0 .. m
    BY <1>1
  <2> QED BY <1>2, <2>1
<1>5. ASSUME NEW j \in 0 .. m - 1, j \in Good
      PROVE  j + 1 \in Good
  <2>1. m - j \in 0 .. m /\ m - j # 0 /\ (m - j) - 1 = m - (j + 1) /\ j + 1 \in 0 .. m
    BY <1>1
  <2>2. hash[m - j] = combinedHash(hash[(m - j) - 1], proof[m - j])
    BY <1>3, <2>1
  <2>3. hash[m - j] \in NodesOf(leaves)
    BY <1>5
  <2>4. hash[(m - j) - 1] \in hash[m - j].children
    BY <2>2, CombinedHashIs
  <2>5. hash[(m - j) - 1] \in NodesOf(leaves)
    BY <2>3, <2>4, NodesAreSound
  <2> QED BY <2>1, <2>5
<1>6. m \in Good
  <2> HIDE DEF Good
  <2>1. 0 .. m \subseteq Good
    BY <1>1, <1>4, <1>5, UpTo
  <2> QED BY <1>1, <2>1
<1>7. hash[0] \in NodesOf(leaves)
  <2>1. m - m = 0
    BY <1>1
  <2> QED BY <1>6, <2>1
<1>8. hash[0] = node
  BY <1>1, <1>3
<1> QED BY <1>7, <1>8

\* Nothing but a leaf of the tree verifies against its root.
LEMMA OnlyLeavesVerify ==
    ASSUME NEW leaves, Proper(leaves), Len(leaves) > 0, Childless(leaves),
           NEW index, NEW account, NEW amount, NEW proof, Len(proof) \in Nat,
           verifyProof(Leaf(index, account, amount), proof, getRoot(leaves))
    PROVE  \E i \in 1 .. Len(leaves) : leaves[i] = Leaf(index, account, amount)
<1> DEFINE n == Len(leaves)
           node == Leaf(index, account, amount)
<1>1. getRoot(leaves) \in NodesOf(leaves)
  <2> DEFINE layers == getLayers(leaves)
  <2>1. n \in 0 .. n
    BY DEF Proper
  <2>2. Len(layers[n]) = 1
    BY LayerShapes
  <2>3. \A k \in 0 .. n : \A i \in 1 .. Len(layers[k]) : layers[k][i] \in NodesOf(leaves)
    BY NodesAre
  <2>4. getRoot(leaves) = layers[n][1]
    BY DEF getRoot
  <2> HIDE DEF layers, n
  <2>5. 1 \in 1 .. Len(layers[n])
    BY <2>2
  <2> QED BY <2>1, <2>3, <2>4, <2>5
<1>2. node \in NodesOf(leaves)
  BY <1>1, OnlyNodesVerify DEF verifyProof
<1>3. node.leaf # <<>>
  BY LeafIs
<1> HIDE DEF node
<1>4. \E i \in 1 .. Len(leaves) : leaves[i] = node
  BY <1>2, <1>3, NodesAreSound
<1> QED BY <1>4 DEF node

\* A sequence of the elements of a set, each once, has them all.
LEMMA SequencesOfSet ==
    ASSUME NEW S, IsFiniteSet(S), NEW s \in SetToSeqs(S)
    PROVE  /\ Proper(s)
           /\ \A i \in 1 .. Len(s) : s[i] \in S
           /\ \A x \in S : \E i \in 1 .. Len(s) : s[i] = x
<1> DEFINE n == Cardinality(S)
           D == 1 .. n
<1>1. n \in Nat
  BY FS_CardinalityType
<1>2. s \in [D -> S] /\ \A i, j \in D : i # j => s[i] # s[j]
  BY DEF SetToSeqs
<1>3. IsFiniteSet(D) /\ Cardinality(D) = n
  BY <1>1, FS_Interval
<1> HIDE DEF n
<1>4. Len(s) = n /\ Proper(s)
  <2>1. s = [i \in 1 .. n |-> s[i]]
    BY <1>2
  <2> QED BY <1>1, <2>1, LenOf
<1> HIDE DEF D
<1>5. s \in Injection(D, S)
  BY <1>2 DEF Injection, IsInjective
<1>6. s \in Surjection(D, S)
  BY <1>3, <1>5, FS_Injection DEF n
<1>7. \A x \in S : \E i \in D : s[i] = x
  BY <1>6 DEF Surjection
<1> QED BY <1>2, <1>4, <1>7 DEF D

-----------------------------------------------------------------------------
(* The airdrop.                                                            *)

AirdropSpec == AirdropInit /\ [][AirdropNext]_airdropVars

\* What has been paid for the places in the bitmap, and to whom.
PaidAsClaimed ==
    /\ \A i \in DOMAIN list :
         received[list[i][1]] = IF i - 1 \in claimedBitMap THEN Parsed(list[i][2]) ELSE 0
    /\ \A a \in Addresses : (\A i \in DOMAIN list : list[i][1] # a) => received[a] = 0

\* The inductive invariant of AirdropExact.
AirdropInv ==
    /\ \E n \in Nat : list \in [1 .. n -> Addresses \X Earnings]
    /\ received \in [Addresses -> Nat]
    /\ claimedBitMap \subseteq {i - 1 : i \in DOMAIN list}
    /\ elements # <<>> => Valid(list) /\ elements \in SetToSeqs(Leaves) /\ PaidAsClaimed

LEMMA ParsedIsNat == \A e \in Earnings : Parsed(e) \in Nat
<1>1. ASSUME NEW e \in 0 .. 99
      PROVE  Parsed(e) \in Nat
  <2>1. e \in Nat /\ 16 * (e \div 10) + (e % 10) \in Nat
    OBVIOUS
  <2> QED BY <2>1 DEF Parsed
<1> QED BY <1>1, AirdropAssumption

LEMMA ClaimIs ==
    ASSUME NEW i \in DOMAIN list
    PROVE  /\ Claims[i].index = i - 1
           /\ Claims[i].account = list[i][1]
           /\ Claims[i].amount = Parsed(list[i][2])
  BY DEF Claims

\* The leaves of the tree and the claims of the list are the same.
LEMMA LeavesAreClaims ==
    ASSUME \E n \in Nat : list \in [1 .. n -> Addresses \X Earnings],
           elements # <<>>, elements \in SetToSeqs(Leaves)
    PROVE  /\ Proper(elements)
           /\ Len(elements) > 0
           /\ Childless(elements)
           /\ \A p \in 1 .. Len(elements) : \E i \in DOMAIN list :
                elements[p] = Leaf(i - 1, list[i][1], Parsed(list[i][2]))
           /\ \A i \in DOMAIN list : \E p \in 1 .. Len(elements) :
                elements[p] = Leaf(i - 1, list[i][1], Parsed(list[i][2]))
<1> DEFINE leaf(i) == Leaf(i - 1, list[i][1], Parsed(list[i][2]))
<1>1. PICK n \in Nat : list \in [1 .. n -> Addresses \X Earnings]
  OBVIOUS
<1>2. Leaves = {leaf(i) : i \in 1 .. n}
  <2>1. DOMAIN list = 1 .. n
    BY <1>1
  <2>2. \A i \in DOMAIN list : toNode(Claims[i].index, Claims[i].account, Claims[i].amount) = leaf(i)
    BY ClaimIs DEF toNode
  <2> HIDE DEF leaf
  <2> QED BY <2>1, <2>2 DEF Leaves
<1>3. IsFiniteSet(Leaves)
  <2> DEFINE f == [i \in 1 .. n |-> leaf(i)]
  <2>1. f \in Surjection(1 .. n, Leaves)
    <3> HIDE DEF leaf
    <3> QED BY <1>2 DEF Surjection
  <2>2. IsFiniteSet(1 .. n)
    BY FS_Interval
  <2> HIDE DEF f
  <2> QED BY <2>1, <2>2, FS_Surjection
<1>4. /\ Proper(elements)
      /\ \A p \in 1 .. Len(elements) : elements[p] \in Leaves
      /\ \A x \in Leaves : \E p \in 1 .. Len(elements) : elements[p] = x
  BY <1>3, SequencesOfSet
<1>5. Len(elements) > 0
  <2>1. SUFFICES ASSUME Len(elements) = 0 PROVE FALSE
    BY <1>4 DEF Proper
  <2>2. elements = [i \in 1 .. 0 |-> elements[i]]
    BY <1>4, <2>1 DEF Proper
  <2>3. elements \in [1 .. 0 -> {}]
    BY <2>2
  <2>4. elements \in Seq({}) /\ Len(elements) = 0
    BY <2>1, <2>3
  <2> QED BY <2>4, EmptySeq
<1>6. Childless(elements)
  <2>1. \A i \in 1 .. n : leaf(i).children = {}
    BY LeafIs
  <2> HIDE DEF leaf
  <2> QED BY <1>2, <1>4, <2>1 DEF Childless
<1>7. DOMAIN list = 1 .. n
  BY <1>1
<1> HIDE DEF leaf
<1>8. \A p \in 1 .. Len(elements) : \E i \in DOMAIN list : elements[p] = leaf(i)
  BY <1>2, <1>4, <1>7
<1>9. \A i \in DOMAIN list : \E p \in 1 .. Len(elements) : elements[p] = leaf(i)
  BY <1>2, <1>4, <1>7
<1> QED BY <1>4, <1>5, <1>6, <1>8, <1>9 DEF leaf

LEMMA InitAirdropInv == AirdropInit => AirdropInv
<1> SUFFICES ASSUME AirdropInit PROVE AirdropInv
  OBVIOUS
<1>1. PICK how \in {"numbers", useMerkleGenerator, "new"}, n \in 1 .. MaxEntries :
        \E entries \in [1 .. n -> Addresses \X Earnings] : AirdropStart(how, entries)
  BY DEF AirdropInit
<1>2. PICK entries \in [1 .. n -> Addresses \X Earnings] : AirdropStart(how, entries)
  BY <1>1
<1>3. n \in Nat /\ list \in [1 .. n -> Addresses \X Earnings]
  BY <1>2, AirdropAssumption DEF AirdropStart
<1>4. received = [a \in Addresses |-> 0] /\ claimedBitMap = {}
  BY <1>2 DEF AirdropStart
<1>5. elements # <<>> => Valid(list) /\ elements \in SetToSeqs(Leaves)
  BY <1>2 DEF AirdropStart
<1>6. PaidAsClaimed
  <2>1. \A i \in DOMAIN list : list[i][1] \in Addresses
    BY <1>3
  <2> QED BY <1>4, <2>1 DEF PaidAsClaimed
<1> QED BY <1>3, <1>4, <1>5, <1>6 DEF AirdropInv

LEMMA StepAirdropInv == AirdropInv /\ [AirdropNext]_airdropVars => AirdropInv'
<1> SUFFICES ASSUME AirdropInv, [AirdropNext]_airdropVars PROVE AirdropInv'
  OBVIOUS
<1>1. CASE UNCHANGED airdropVars
  <2>1. UNCHANGED <<format, list, elements, claimedBitMap, received>>
    BY <1>1 DEF airdropVars
  <2>2. \A e : (Parsed(e))' = Parsed(e)
    BY <2>1 DEF Parsed
  <2>3. PaidAsClaimed' <=> PaidAsClaimed
    BY <2>1, <2>2 DEF PaidAsClaimed
  <2>4. Valid(list)' <=> Valid(list)
    BY <2>1, <2>2 DEF Valid
  <2>5. Claims' = Claims
    BY <2>1, <2>2 DEF Claims
  <2>6. Leaves' = Leaves
    BY <2>1, <2>5 DEF Leaves
  <2> QED BY <2>1, <2>3, <2>4, <2>6 DEF AirdropInv
<1>2. CASE AirdropNext
  <2>1. PICK index \in 0 .. MaxEntries, account \in Addresses,
             amount \in Earnings \union {Parsed(e) : e \in Earnings} : Claim(index, account, amount)
    BY <1>2 DEF AirdropNext
  <2>2. UNCHANGED <<format, list, elements>> /\ elements # <<>>
    BY <2>1 DEF Claim
  <2>3. /\ \E n \in Nat : list \in [1 .. n -> Addresses \X Earnings]
        /\ received \in [Addresses -> Nat]
        /\ claimedBitMap \subseteq {i - 1 : i \in DOMAIN list}
        /\ Valid(list) /\ elements \in SetToSeqs(Leaves) /\ PaidAsClaimed
    BY <2>2 DEF AirdropInv
  <2>4. PICK p \in 1 .. Len(elements) : elements[p] = Leaf(index, account, amount)
    <3>1. PICK proof \in ProofsOfAnybody : verifyProof(Leaf(index, account, amount), proof, getRoot(elements))
      BY <2>1 DEF Claim, toNode, merkleRoot
    <3>2. PICK m \in 0 .. MaxProof : proof \in [1 .. m -> Nodes]
      BY DEF ProofsOfAnybody
    <3>3. Len(proof) \in Nat
      <4>1. m \in Nat /\ proof = [i \in 1 .. m |-> proof[i]]
        BY <3>2, AirdropAssumption
      <4>2. Len(proof) = m
        BY <4>1, LenOf
      <4> QED BY <4>1, <4>2
    <3>4. Proper(elements) /\ Len(elements) > 0 /\ Childless(elements)
      BY <2>2, <2>3, LeavesAreClaims
    <3> QED BY <3>1, <3>3, <3>4, OnlyLeavesVerify
  <2>5. PICK i \in DOMAIN list : Leaf(index, account, amount) = Leaf(i - 1, list[i][1], Parsed(list[i][2]))
    BY <2>2, <2>3, <2>4, LeavesAreClaims
  <2>6. index = i - 1 /\ account = list[i][1] /\ amount = Parsed(list[i][2])
    <3>1. <<index, account, amount>> = <<i - 1, list[i][1], Parsed(list[i][2])>>
      BY <2>5, LeafIs
    <3> QED BY <3>1
  <2>7. list[i] \in Addresses \X Earnings /\ amount \in Nat
    <3>1. list[i] \in Addresses \X Earnings
      BY <2>3
    <3>2. list[i][2] \in Earnings
      BY <3>1
    <3> QED BY <2>6, <3>1, <3>2, ParsedIsNat
  <2>8. index \notin claimedBitMap /\ claimedBitMap' = claimedBitMap \union {index}
    BY <2>1 DEF Claim
  <2>9. received[account] = 0
    BY <2>3, <2>6, <2>8 DEF PaidAsClaimed
  <2>10. received' = [received EXCEPT ![account] = amount]
    <3>1. received' = [received EXCEPT ![account] = received[account] + amount]
      BY <2>1 DEF Claim
    <3> QED BY <2>7, <2>9, <3>1
  <2>11. /\ received' \in [Addresses -> Nat]
         /\ received'[account] = amount
         /\ \A a \in Addresses : a # account => received'[a] = received[a]
    BY <2>3, <2>7, <2>10
  <2>12. PaidAsClaimed'
    <3>1. ASSUME NEW j \in DOMAIN list
          PROVE  received'[list[j][1]] = IF j - 1 \in claimedBitMap' THEN Parsed(list[j][2]) ELSE 0
      <4>1. CASE j = i
        BY <2>6, <2>8, <2>11, <4>1
      <4>2. CASE j # i
        <5>1. list[j][1] # account /\ list[j][1] \in Addresses
          <6>1. list[j] \in Addresses \X Earnings
            BY <2>3
          <6> QED BY <2>3, <2>6, <4>2, <6>1 DEF Valid
        <5>2. j - 1 # index
          <6>1. PICK n \in Nat : list \in [1 .. n -> Addresses \X Earnings]
            BY <2>3
          <6>2. i \in 1 .. n /\ j \in 1 .. n
            BY <6>1
          <6> QED BY <2>6, <4>2, <6>2
        <5>3. received'[list[j][1]] = received[list[j][1]]
          BY <2>11, <5>1
        <5>4. j - 1 \in claimedBitMap' <=> j - 1 \in claimedBitMap
          BY <2>8, <5>2
        <5> QED BY <2>3, <5>3, <5>4 DEF PaidAsClaimed
      <4> QED BY <4>1, <4>2
    <3>2. ASSUME NEW a \in Addresses, \A j \in DOMAIN list : list[j][1] # a
          PROVE  received'[a] = 0
      <4>1. a # account
        BY <2>6, <3>2
      <4> QED BY <2>3, <2>11, <3>2, <4>1 DEF PaidAsClaimed
    <3>3. \A j \in DOMAIN list : (Parsed(list[j][2]))' = Parsed(list[j][2])
      BY <2>2 DEF Parsed
    <3> QED BY <2>2, <3>1, <3>2, <3>3 DEF PaidAsClaimed
  <2>13. (\E n \in Nat : list \in [1 .. n -> Addresses \X Earnings])'
    BY <2>2, <2>3
  <2>14. claimedBitMap' \subseteq {j - 1 : j \in DOMAIN list'}
    BY <2>2, <2>3, <2>6, <2>8
  <2>15. Valid(list)' /\ (elements \in SetToSeqs(Leaves))'
    <3>1. \A e : (Parsed(e))' = Parsed(e)
      BY <2>2 DEF Parsed
    <3>2. Valid(list)' <=> Valid(list)
      BY <2>2, <3>1 DEF Valid
    <3>3. Claims' = Claims
      BY <2>2, <3>1 DEF Claims
    <3>4. Leaves' = Leaves
      BY <2>2, <3>3 DEF Leaves
    <3> QED BY <2>2, <2>3, <3>2, <3>4
  <2> QED BY <2>11, <2>12, <2>13, <2>14, <2>15 DEF AirdropInv
<1> QED BY <1>1, <1>2

LEMMA AirdropInvImplies == AirdropInv => AirdropExact
<1> SUFFICES ASSUME AirdropInv, elements # <<>> PROVE AirdropExact
  BY DEF AirdropExact
<1>1. /\ \E n \in Nat : list \in [1 .. n -> Addresses \X Earnings]
      /\ received \in [Addresses -> Nat]
      /\ Valid(list) /\ elements \in SetToSeqs(Leaves) /\ PaidAsClaimed
  BY DEF AirdropInv
<1>2. ASSUME NEW i \in DOMAIN list
      PROVE  LET c == Claims[i] IN
             /\ verifyProof(toNode(c.index, c.account, c.amount), ProofOf(c), merkleRoot)
             /\ received[c.account] = IF c.index \in claimedBitMap THEN c.amount ELSE 0
             /\ format # useMerkleGenerator => c.amount = list[i][2]
  <2> DEFINE c == Claims[i]
  <2>1. c.index = i - 1 /\ c.account = list[i][1] /\ c.amount = Parsed(list[i][2])
    BY ClaimIs
  <2> HIDE DEF c
  <2>2. PICK p \in 1 .. Len(elements) : elements[p] = Leaf(c.index, c.account, c.amount)
    BY <1>1, <2>1, LeavesAreClaims
  <2>3. Proper(elements)
    BY <1>1, LeavesAreClaims
  <2>4. computedHash(elements[p], getProof(elements, elements[p])) = getRoot(elements)
    BY <2>3, ProofLeadsToRoot
  <2>5. verifyProof(toNode(c.index, c.account, c.amount), ProofOf(c), merkleRoot)
    BY <2>2, <2>4 DEF verifyProof, toNode, ProofOf, merkleRoot
  <2>6. received[c.account] = IF c.index \in claimedBitMap THEN c.amount ELSE 0
    BY <1>1, <2>1 DEF PaidAsClaimed
  <2>7. format # useMerkleGenerator => c.amount = list[i][2]
    BY <2>1 DEF Parsed
  <2> QED BY <2>5, <2>6, <2>7 DEF c
<1>3. \A a \in Addresses : (\A i \in DOMAIN list : list[i][1] # a) => received[a] = 0
  BY <1>1 DEF PaidAsClaimed
<1>4. ASSUME claimedBitMap = {Claims[i].index : i \in DOMAIN list}
      PROVE  SumFunction(received) = tokenTotal
  <2>1. PICK n \in Nat : list \in [1 .. n -> Addresses \X Earnings]
    BY <1>1
  <2>2. DOMAIN list = 1 .. n
    BY <2>1
  <2> DEFINE g == [i \in 1 .. n |-> list[i][1]]
             f == [i \in DOMAIN list |-> Claims[i].amount]
  <2>3. \A i \in 1 .. n : g[i] \in Addresses
    BY <2>1
  <2>4. \A i, j \in 1 .. n : g[i] = g[j] => i = j
    BY <1>1, <2>2 DEF Valid
  <2>5. \A i \in 1 .. n : f[i] = received[g[i]]
    <3>1. ASSUME NEW i \in 1 .. n
          PROVE  f[i] = received[g[i]]
      <4>1. Claims[i].index = i - 1 /\ Claims[i].amount = Parsed(list[i][2])
        BY <2>2, ClaimIs
      <4>2. i - 1 \in claimedBitMap
        BY <1>4, <2>2, <4>1
      <4>3. received[list[i][1]] = Parsed(list[i][2])
        BY <1>1, <2>2, <4>2 DEF PaidAsClaimed
      <4> QED BY <2>2, <4>1, <4>3
    <3> QED BY <3>1
  <2>6. \A a \in Addresses : (\A i \in 1 .. n : g[i] # a) => received[a] = 0
    BY <1>3, <2>2
  <2>7. \A a \in Addresses : received[a] \in Nat
    BY <1>1
  <2>8. tokenTotal = SumFunctionOnSet(f, 1 .. n)
    BY <2>2 DEF tokenTotal, SumFunction
  <2>9. SumFunction(received) = SumFunctionOnSet(received, Addresses)
    BY <1>1 DEF SumFunction
  <2> HIDE DEF g, f
  <2>10. SumFunctionOnSet(received, Addresses) = SumFunctionOnSet(f, 1 .. n)
    <3>1. Reindexes(g, n, f, received, Addresses)
      BY <2>3, <2>4, <2>5, <2>6, <2>7 DEF Reindexes
    <3> QED BY <3>1, AirdropAssumption, SumThrough
  <2> QED BY <2>8, <2>9, <2>10
<1> QED BY <1>2, <1>3, <1>4 DEF AirdropExact

\* Every claim proves to be in the tree, and what an account has been paid is
\* its claim if its place was claimed and nothing else, with whatever the
\* contract was called (getProof, parseBalanceMap, claim).
THEOREM AirdropPaysClaims == AirdropSpec => []AirdropExact
<1>1. AirdropInv /\ UNCHANGED airdropVars => AirdropInv'
  BY StepAirdropInv
<1> QED BY <1>1, InitAirdropInv, StepAirdropInv, AirdropInvImplies, PTL DEF AirdropSpec
=============================================================================
