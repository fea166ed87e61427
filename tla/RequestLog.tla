----------------------------- MODULE RequestLog -----------------------------
(***************************************************************************)
(* What the interface PersistenceAdapter (lib/persistence/types.ts)        *)
(* promises its callers: a map from keys to requests that set, remove and  *)
(* setStatus change in one step, and listings that name every request      *)
(* stored with the type asked for, each once, or fail as a whole.          *)
(***************************************************************************)
EXTENDS FiniteSets, SequencesExt

CONSTANTS Keys, Callers, Types, TypeOf, Statuses, NoRequest, Failed

VARIABLES stored,  \* status of the request under every key
          answer   \* last answer of getAllRequests to every caller

RequestStates == Statuses \union {NoRequest}

Filters == {Types} \union {{t} : t \in Types}

Matching(filter) == {k \in Keys : stored[k] # NoRequest /\ TypeOf[k] \in filter}

Init ==
    /\ stored = [k \in Keys |-> NoRequest]
    /\ answer = [c \in Callers |-> <<>>]

Change(k) ==
    /\ \E s \in RequestStates : stored' = [stored EXCEPT ![k] = s]
    /\ UNCHANGED answer

List(c, filter) ==
    /\ answer'[c] # Failed
    /\ ToSet(answer'[c]) = Matching(filter)
    /\ Len(answer'[c]) = Cardinality(Matching(filter))
    /\ answer' = [answer EXCEPT ![c] = answer'[c]]
    /\ UNCHANGED stored

ListFails(c) ==
    /\ answer' = [answer EXCEPT ![c] = Failed]
    /\ UNCHANGED stored

Next ==
    \/ \E k \in Keys : Change(k)
    \/ \E c \in Callers :
         \/ \E filter \in Filters : List(c, filter)
         \/ ListFails(c)

Spec == Init /\ [][Next]_<<stored, answer>>
=============================================================================
