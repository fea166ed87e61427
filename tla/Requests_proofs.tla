--------------------------- MODULE Requests_proofs ---------------------------
(***************************************************************************)
(* Proofs about the client's request objects, for any contracts, accounts  *)
(* and orders of calls: a signature survives the trip to a keeper and to   *)
(* the store, keeper, user and static call wait at one gateway, and a      *)
(* repayment names the record of its loan, also by the object the user     *)
(* goes on to change.  And about the quotes, for any amounts, answers and  *)
(* failures: the exchanges asked one after the other connect, and the fees *)
(* add up.                                                                 *)
(***************************************************************************)
EXTENDS Requests, Quotes, SequenceTheorems, TLAPS

RequestsSpec == RequestsInit /\ [][RequestsNext]_requestVars

\* An object of the class in use, whose nonces are drawn.
ObjectOK(o) ==
    /\ o = [f \in Fields |-> o[f]]
    /\ o.requestType = kind
    /\ o.nonce # Unset
    /\ o.pNonce # Unset

\* Fields nothing but the constructor sets.
Frozen == {"network", "asset", "amount", "nonce", "to", "pNonce", "module", "data"}

\* A gateway was asked for with the fields the object still has, except for
\* the controller.
AskedFor(g) ==
    g # Unset =>
        /\ kind = "transfer"
        /\ g = GatewayOf([object EXCEPT !.contractAddress = g.contract])

\* The inductive invariant: so was the gateway of the address that was shown
\* and that of a static call.
RequestsInv ==
    /\ kind \in Kinds
    /\ ObjectOK(object)
    /\ mint \in {Unset, "asked", "ready", "failed"}
    /\ published # Unset =>
         /\ ObjectOK(published)
         /\ \A f \in Frozen : published[f] = object[f]
    /\ AskedFor(gateway)
    /\ AskedFor(static)

LEMMA FieldsOfClasses ==
    /\ Frozen \subseteq Fields
    /\ {"requestType", "recovered", "signature", "contractAddress", "chainId",
        "underwriter"} \subseteq Fields
BY DEF Frozen, Fields, TransferParameters, MetaParameters, BurnParameters, Shared

\* A constructor draws what nonces are missing.
LEMMA ConstructOK ==
    ASSUME NEW k \in Kinds, NEW given, NEW random \in {"user's", "keeper's", "script's"},
           k = kind
    PROVE  ObjectOK(Construct(k, given, random))
<1> DEFINE o == Construct(k, given, random)
<1>1. /\ {"requestType", "nonce", "pNonce"} \subseteq Fields
      /\ {"nonce", "pNonce"} \subseteq Parameters[k]
  BY DEF Kinds, Parameters, Fields, TransferParameters, MetaParameters, BurnParameters, Shared
<1>2. o = [f \in Fields |-> o[f]]
  BY DEF Construct
<1>3. o.requestType = k
  BY <1>1 DEF Construct
<1>4. o.nonce = (IF given["nonce"] # Unset THEN given["nonce"] ELSE random)
  BY <1>1 DEF Construct
<1>5. o.pNonce = (IF given["pNonce"] # Unset THEN given["pNonce"] ELSE random)
  BY <1>1 DEF Construct
<1>6. random # Unset
  BY RequestsAssumption
<1> HIDE DEF o
<1> QED
  BY <1>2, <1>3, <1>4, <1>5, <1>6 DEF ObjectOK, o

LEMMA InitRequestsInv == RequestsInit => RequestsInv
<1> SUFFICES ASSUME NEW k \in Kinds, NEW given \in Given, RequestsStart(k, given)
             PROVE  RequestsInv
  BY DEF RequestsInit
<1>1. kind = k /\ object = Construct(k, given, "user's")
  BY DEF RequestsStart
<1>2. ObjectOK(object)
  BY <1>1, ConstructOK
<1> QED
  BY <1>1, <1>2 DEF RequestsStart, RequestsInv, AskedFor

\* Calls that change the object leave the frozen fields alone.
LEMMA ObjectMoves ==
    ASSUME RequestsInv, ObjectOK(object)', \A f \in Frozen : object'[f] = object[f],
           UNCHANGED <<kind, mint, gateway, static, published>>
    PROVE  RequestsInv'
<1>1. ASSUME NEW c
      PROVE  GatewayOf([object' EXCEPT !.contractAddress = c])
               = GatewayOf([object EXCEPT !.contractAddress = c])
  <2> DEFINE new == [object' EXCEPT !.contractAddress = c]
             old == [object EXCEPT !.contractAddress = c]
  <2>1. /\ object = [f \in Fields |-> object[f]]
        /\ object' = [f \in Fields |-> object'[f]]
    BY DEF RequestsInv, ObjectOK
  <2>2. new.contractAddress = c /\ old.contractAddress = c
    BY <2>1, FieldsOfClasses
  <2>3. \A f \in Frozen : new[f] = old[f]
    BY <2>1, FieldsOfClasses DEF Frozen
  <2> HIDE DEF new, old
  <2> QED
    BY <2>2, <2>3 DEF GatewayOf, getProvider, getVanillaProvider, Frozen
<1>2. ASSUME published # Unset
      PROVE  ObjectOK(published)' /\ \A f \in Frozen : published[f] = object'[f]
  BY <1>2 DEF RequestsInv, ObjectOK
<1> QED
  BY <1>1, <1>2 DEF RequestsInv, AskedFor

LEMMA RetargetKeeps ==
    ASSUME NEW o, ObjectOK(o), NEW contract, NEW chain
    PROVE  /\ ObjectOK(Retarget(o, contract, chain))
           /\ \A f \in Frozen : Retarget(o, contract, chain)[f] = o[f]
<1> DEFINE r == Retarget(o, contract, chain)
<1>1. /\ o = [f \in Fields |-> o[f]]
      /\ r = [o EXCEPT !.contractAddress = IF contract = Unset THEN @ ELSE contract,
                       !.chainId = chain]
  BY DEF ObjectOK, Retarget
<1>2. r = [f \in Fields |-> r[f]]
  BY <1>1
<1>3. \A f \in Frozen \union {"requestType"} : r[f] = o[f]
  BY <1>1, FieldsOfClasses DEF Frozen
<1> QED
  BY <1>2, <1>3 DEF ObjectOK, Frozen

\* sign leaves the object with a signature or without.
LEMMA SigningKeeps ==
    ASSUME RequestsInv, NEW o, ObjectOK(o), \A f \in Frozen : o[f] = object[f], Signing(o)
    PROVE  RequestsInv'
<1>1. /\ object' \in {o, [o EXCEPT !.signature = [by |-> User, data |-> TypedData(o)]]}
      /\ UNCHANGED <<kind, nonces, mint, gateway, static, published>>
  BY DEF Signing
<1>2. o = [f \in Fields |-> o[f]]
  BY DEF ObjectOK
<1>3. object' = [f \in Fields |-> object'[f]] /\ \A f \in Frozen \union {"requestType"} : object'[f] = o[f]
  BY <1>1, <1>2, FieldsOfClasses DEF Frozen
<1>4. ObjectOK(object)'
  BY <1>1, <1>3 DEF ObjectOK, Frozen
<1> QED
  BY <1>1, <1>3, <1>4, ObjectMoves

LEMMA StepRequestsInv == RequestsInv /\ [RequestsNext]_requestVars => RequestsInv'
<1> SUFFICES ASSUME RequestsInv, [RequestsNext]_requestVars PROVE RequestsInv'
  OBVIOUS
<1>0. ObjectOK(object)
  BY DEF RequestsInv
<1>1. CASE UNCHANGED <<kind, object, mint, gateway, static, published>>
  BY <1>1 DEF RequestsInv, ObjectOK, AskedFor
<1>2. ASSUME NEW chain, NEW contract,
             SignTransfer(chain, contract) \/ SignMeta(chain, contract)
      PROVE  RequestsInv'
  <2> DEFINE o == Retarget(object, contract, chain)
  <2>1. Signing(o)
    BY <1>2 DEF SignTransfer, SignMeta
  <2>2. ObjectOK(o) /\ \A f \in Frozen : o[f] = object[f]
    BY <1>0, RetargetKeeps
  <2> HIDE DEF o
  <2> QED
    BY <2>1, <2>2, SigningKeeps
<1>3. ASSUME NEW chain, NEW contract, SignBurn(chain, contract) PROVE RequestsInv'
  <2> DEFINE r == Retarget(object, contract, chain)
             o == [r EXCEPT !.tokenNonce = nonces]
  <2>1. Signing(o)
    BY <1>3 DEF SignBurn
  <2>2. ObjectOK(r) /\ \A f \in Frozen : r[f] = object[f]
    BY <1>0, RetargetKeeps
  <2> HIDE DEF r
  <2>3. o = [f \in Fields |-> o[f]] /\ \A f \in Frozen \union {"requestType"} : o[f] = r[f]
    BY <2>2, FieldsOfClasses DEF ObjectOK, Frozen
  <2>4. ObjectOK(o)
    BY <2>2, <2>3 DEF ObjectOK, Frozen
  <2> HIDE DEF o
  <2> QED
    BY <2>1, <2>2, <2>3, <2>4, SigningKeeps
<1>4. ASSUME NEW u, SetUnderwriter(u) PROVE RequestsInv'
  <2>1. /\ object' = [object EXCEPT !.underwriter = u]
        /\ UNCHANGED <<kind, mint, gateway, static, published>>
    BY <1>4 DEF SetUnderwriter
  <2>2. object' = [f \in Fields |-> object'[f]] /\ \A f \in Frozen \union {"requestType"} : object'[f] = object[f]
    BY <1>0, <2>1, FieldsOfClasses DEF ObjectOK, Frozen
  <2>3. ObjectOK(object)'
    BY <1>0, <2>1, <2>2 DEF ObjectOK, Frozen
  <2> QED
    BY <2>1, <2>2, <2>3, ObjectMoves
<1>5. CASE AskDestination
  <2>1. /\ object' = [object EXCEPT !.recovered =
                        IF Recover(object) = Unset THEN "nobody" ELSE Recover(object)]
        /\ UNCHANGED <<kind, mint, gateway, static, published>>
    BY <1>5 DEF AskDestination
  <2>2. object' = [f \in Fields |-> object'[f]] /\ \A f \in Frozen \union {"requestType"} : object'[f] = object[f]
    BY <1>0, <2>1, FieldsOfClasses DEF ObjectOK, Frozen
  <2>3. ObjectOK(object)'
    BY <1>0, <2>1, <2>2 DEF ObjectOK, Frozen
  <2> QED
    BY <2>1, <2>2, <2>3, ObjectMoves
<1>6. ASSUME kind = "transfer" PROVE AskedFor(GatewayOf(object))
  <2>1. GatewayOf(object).contract = object.contractAddress
    BY DEF GatewayOf
  <2>2. [object EXCEPT !.contractAddress = GatewayOf(object).contract] = object
    BY <1>0, <2>1, FieldsOfClasses DEF ObjectOK
  <2> QED
    BY <1>6, <2>2 DEF AskedFor
<1>7. ASSUME SubmitToRenVM \/ CallStaticRepay \/ GatewayAnswers PROVE RequestsInv'
  <2>1. UNCHANGED <<kind, object, published>>
    BY <1>7 DEF SubmitToRenVM, CallStaticRepay, GatewayAnswers
  <2>2. mint' \in {Unset, "asked", "ready", "failed"}
    BY <1>7 DEF SubmitToRenVM, CallStaticRepay, GatewayAnswers, RequestsInv
  <2>3. gateway' = gateway \/ (kind = "transfer" /\ gateway' = GatewayOf(object))
    BY <1>7 DEF SubmitToRenVM, CallStaticRepay, GatewayAnswers
  <2>4. static' \in {static, gateway} \/ (kind = "transfer" /\ static' = GatewayOf(object))
    BY <1>7 DEF SubmitToRenVM, CallStaticRepay, GatewayAnswers
  <2>5. AskedFor(gateway)' /\ AskedFor(static)'
    BY <1>6, <2>1, <2>3, <2>4 DEF RequestsInv, AskedFor
  <2> QED
    BY <2>1, <2>2, <2>5 DEF RequestsInv, ObjectOK
<1>8. CASE Publish
  BY <1>8 DEF Publish, RequestsInv, ObjectOK, AskedFor
<1>9. CASE BurnExecuted
  BY <1>1, <1>9 DEF BurnExecuted
<1>10. CASE UNCHANGED requestVars
  BY <1>1, <1>10 DEF requestVars
<1> QED
  BY <1>2, <1>3, <1>4, <1>5, <1>7, <1>8, <1>9, <1>10 DEF RequestsNext

-----------------------------------------------------------------------------
(* What the copies of a published object have in common with it.           *)

\* The calls and the signature of a class depend on these fields.
Used ==
    [transfer |-> {"module", "underwriter", "asset", "data", "nonce", "pNonce",
                   "contractAddress", "chainId", "signature", "to", "amount"},
     meta |-> {"module", "underwriter", "asset", "data", "pNonce",
               "contractAddress", "chainId", "signature", "addressFrom"},
     burn |-> {"underwriter", "asset", "data", "pNonce", "contractAddress", "chainId",
               "signature", "owner", "amount", "deadline", "destination"}]

LEMMA UsedAreFields == \A k \in Kinds : Used[k] \subseteq Fields
BY DEF Kinds, Used, Fields, TransferParameters, MetaParameters, BurnParameters, Shared

\* A constructor given some fields of an object takes them over.
LEMMA CopyAgrees ==
    ASSUME NEW k \in Kinds, k = kind, NEW o, ObjectOK(o), NEW fields,
           {"nonce", "pNonce"} \subseteq fields, "network" \notin fields,
           NEW random \in {"user's", "keeper's", "script's"}
    PROVE  /\ ObjectOK(Construct(k, Pick(o, fields), random))
           /\ Construct(k, Pick(o, fields), random).recovered = Unset
           /\ k = "transfer" => Construct(k, Pick(o, fields), random).network = "mainnet"
           /\ \A f \in (fields \intersect Parameters[k]) \ {"requestType"} :
                 Construct(k, Pick(o, fields), random)[f] = o[f]
<1> DEFINE given == Pick(o, fields)
           c == Construct(k, given, random)
<1>1. /\ {"recovered", "network"} \subseteq Fields
      /\ "recovered" \notin Parameters[k]
      /\ k = "transfer" => "network" \in Parameters[k]
      /\ Parameters[k] \subseteq Fields
  BY DEF Kinds, Parameters, Fields, TransferParameters, MetaParameters, BurnParameters, Shared
<1>2. /\ \A f \in Fields \intersect fields : given[f] = o[f]
      /\ given["network"] = Unset
  BY <1>1 DEF Pick
<1>3. o.nonce # Unset /\ o.pNonce # Unset
  BY DEF ObjectOK
<1>4. ObjectOK(c)
  BY ConstructOK
<1> HIDE DEF given
<1>5. c.recovered = Unset /\ (k = "transfer" => c.network = "mainnet")
  BY <1>1, <1>2 DEF Construct
<1>6. ASSUME NEW f \in (fields \intersect Parameters[k]) \ {"requestType"}
      PROVE  c[f] = o[f]
  <2>1. f \in Fields /\ given[f] = o[f] /\ f # "network"
    BY <1>1, <1>2
  <2>2. c[f] = IF given[f] # Unset THEN given[f]
               ELSE IF f \in {"nonce", "pNonce"} THEN random ELSE Unset
    BY <1>6, <2>1 DEF Construct
  <2> QED
    BY <1>3, <2>1, <2>2
<1> QED
  BY <1>4, <1>5, <1>6 DEF given

\* A keeper's copy agrees with what was published.
LEMMA ReceivedAgrees ==
    ASSUME RequestsInv, published # Unset
    PROVE  /\ ObjectOK(Received)
           /\ Received.recovered = Unset
           /\ kind = "transfer" => Received.network = "mainnet"
           /\ \A f \in Used[kind] : Received[f] = published[f]
<1>1. kind \in Kinds /\ ObjectOK(published)
  BY DEF RequestsInv
<1>2. /\ {"nonce", "pNonce"} \subseteq Template[kind] /\ "network" \notin Template[kind]
      /\ Used[kind] \subseteq (Template[kind] \intersect Parameters[kind]) \ {"requestType"}
  BY <1>1 DEF Kinds, Template, TransferTemplate, MetaTemplate, BurnTemplate, Shared, Used,
              Parameters, TransferParameters, MetaParameters, BurnParameters
<1> QED
  BY <1>1, <1>2, CopyAgrees DEF Received

\* And so does the script's, of a request that is not a burn.
LEMMA RestoredAgrees ==
    ASSUME RequestsInv, published # Unset, kind # "burn"
    PROVE  /\ ObjectOK(Restored)
           /\ Restored.recovered = Unset
           /\ \A f \in Used[kind] : Restored[f] = published[f]
<1>1. kind \in Kinds
  BY DEF RequestsInv
<1>2. /\ {"nonce", "pNonce"} \subseteq Plain /\ "network" \notin Plain
      /\ Used[kind] \subseteq (Plain \intersect Parameters[kind]) \ {"requestType"}
  BY <1>1 DEF Kinds, Plain, Shared, Used, Parameters, TransferParameters, MetaParameters
<1>3. ObjectOK(Received) /\ \A f \in Used[kind] : Received[f] = published[f]
  BY ReceivedAgrees
<1> QED
  BY <1>1, <1>2, <1>3, CopyAgrees DEF Restored

-----------------------------------------------------------------------------
(* Signatures.                                                             *)

\* Objects that agree carry the same signature of the same data.
LEMMA SameRecovery ==
    ASSUME kind \in Kinds, NEW a, NEW b, a.requestType = kind, b.requestType = kind,
           kind = "transfer", \A f \in Used[kind] : a[f] = b[f]
    PROVE  Recover(a) = Recover(b)
<1>1. SignedFields[kind] \subseteq Used[kind] /\ "signature" \in Used[kind]
  BY DEF SignedFields, SignedTransfer, Used
<1>2. TypedData(a) = TypedData(b)
  BY <1>1 DEF TypedData
<1> QED
  BY <1>1, <1>2 DEF Recover

LEMMA SameAcceptance ==
    ASSUME kind \in Kinds, NEW nonce, NEW a, NEW b, a.requestType = kind, b.requestType = kind,
           a.recovered = Unset, b.recovered = Unset, \A f \in Used[kind] : a[f] = b[f]
    PROVE  Accepted(a, nonce) <=> Accepted(b, nonce)
<1>1. /\ a.signature = b.signature /\ a.contractAddress = b.contractAddress
      /\ a.chainId = b.chainId /\ a.underwriter = b.underwriter
  BY DEF Kinds, Used
<1>2. CASE kind = "burn"
  <2>1. BurnCall(a) = BurnCall(b)
    BY <1>2 DEF BurnCall, Used
  <2> QED
    BY <1>1, <1>2, <2>1 DEF Accepted
<1>3. CASE kind = "meta"
  <2>1. MetaCall(a) = MetaCall(b)
    BY <1>3 DEF MetaCall, Used
  <2> QED
    BY <1>1, <1>3, <2>1 DEF Accepted
<1>4. CASE kind = "transfer"
  <2>1. LoanCall(a).to = LoanCall(b).to
    BY <1>4, SameRecovery DEF LoanCall, Destination
  <2> QED
    BY <1>1, <1>4, <2>1 DEF Accepted
<1> QED
  BY <1>2, <1>3, <1>4 DEF Kinds

LEMMA InvSignatureSurvives == RequestsInv => SignatureSurvives
<1> SUFFICES ASSUME RequestsInv, published # Unset, NEW nonce \in 0 .. MaxNonce
             PROVE  LET fresh == [published EXCEPT !.recovered = Unset] IN
                    /\ Accepted(Received, nonce) = Accepted(fresh, nonce)
                    /\ kind # "burn" => Accepted(Restored, nonce) = Accepted(fresh, nonce)
  BY DEF SignatureSurvives
<1> DEFINE fresh == [published EXCEPT !.recovered = Unset]
<1>1. kind \in Kinds /\ ObjectOK(published)
  BY DEF RequestsInv
<1>2. /\ fresh.recovered = Unset /\ fresh.requestType = kind
      /\ \A f \in Used[kind] : fresh[f] = published[f]
  <2>1. published = [f \in Fields |-> published[f]] /\ published.requestType = kind
    BY <1>1 DEF ObjectOK
  <2>2. "recovered" \notin Used[kind]
    BY <1>1 DEF Kinds, Used
  <2>3. fresh.recovered = Unset /\ fresh.requestType = published.requestType
    BY <2>1, FieldsOfClasses
  <2>4. \A f \in Used[kind] : fresh[f] = published[f]
    BY <2>1, <2>2, UsedAreFields, <1>1
  <2> QED
    BY <2>1, <2>3, <2>4
<1> HIDE DEF fresh
<1>3. Accepted(Received, nonce) <=> Accepted(fresh, nonce)
  BY <1>1, <1>2, ReceivedAgrees, SameAcceptance DEF ObjectOK
<1>4. ASSUME kind # "burn" PROVE Accepted(Restored, nonce) <=> Accepted(fresh, nonce)
  BY <1>1, <1>2, <1>4, RestoredAgrees, SameAcceptance DEF ObjectOK
<1>5. Accepted(Received, nonce) \in BOOLEAN /\ Accepted(Restored, nonce) \in BOOLEAN
      /\ Accepted(fresh, nonce) \in BOOLEAN
  BY DEF Accepted
<1> QED
  BY <1>3, <1>4, <1>5 DEF fresh

\* In whatever order an object was signed, retargeted and published, a
\* controller takes a keeper's copy of it, and the store's, exactly if it
\* takes the original (publish*Request, requestToPlain, destination).
THEOREM CopiesKeepSignatures == RequestsSpec => []SignatureSurvives
<1> QED
  BY InitRequestsInv, StepRequestsInv, InvSignatureSurvives, PTL DEF RequestsSpec

-----------------------------------------------------------------------------
(* Gateways and repayments.                                                *)

LEMMA ReceivedWaitsThere ==
    ASSUME RequestsInv, published # Unset, gateway # Unset,
           gateway.contract = published.contractAddress,
           gateway.network = "mainnet"
    PROVE  GatewayOf(Received) = gateway
<1> DEFINE shown == [object EXCEPT !.contractAddress = gateway.contract]
<1>1. /\ kind = "transfer" /\ gateway = GatewayOf(shown) /\ ObjectOK(object)
      /\ \A f \in Frozen : published[f] = object[f]
  BY DEF RequestsInv, AskedFor
<1>2. /\ shown.contractAddress = published.contractAddress
      /\ \A f \in Frozen : shown[f] = object[f]
  BY <1>1, FieldsOfClasses DEF ObjectOK, Frozen
<1> HIDE DEF shown
<1>3. shown.network = "mainnet"
  BY <1>1 DEF GatewayOf
<1>4. /\ Received.network = "mainnet"
      /\ Received.contractAddress = shown.contractAddress
      /\ \A f \in Frozen \ {"network"} : Received[f] = shown[f]
  BY <1>1, <1>2, ReceivedAgrees DEF Used, Frozen
<1> QED
  BY <1>1, <1>3, <1>4 DEF GatewayOf, getProvider, getVanillaProvider, Frozen

LEMMA InvSameGateway == RequestsInv => SameGateway
<1>1. ASSUME RequestsInv, gateway # Unset, static # Unset, static.contract = gateway.contract
      PROVE  static = gateway
  BY <1>1 DEF RequestsInv, AskedFor
<1> QED
  BY <1>1, ReceivedWaitsThere DEF SameGateway

\* The keeper, and a static call, wait for deposits to the address the user was
\* shown, unless the object was retargeted since or is for another network
\* (submitToRenVM, callStatic).
THEOREM KeeperWaitsThere == RequestsSpec => []SameGateway
<1> QED
  BY InitRequestsInv, StepRequestsInv, InvSameGateway, PTL DEF RequestsSpec

LEMMA InvRepayMatchesLoan == RequestsInv => RepayMatchesLoan
<1> SUFFICES ASSUME RequestsInv, published # Unset, kind = "transfer" PROVE RepayMatchesLoan
  BY DEF RepayMatchesLoan
<1>1. \A o \in {Received, Restored} : \A f \in Used[kind] : o[f] = published[f]
  BY ReceivedAgrees, RestoredAgrees
<1>2. \A f \in Frozen : published[f] = object[f]
  BY DEF RequestsInv
<1>3. {"asset", "amount", "module", "pNonce", "data", "underwriter", "to"} \subseteq Used[kind]
  BY DEF Used
<1>4. \A c \in {RepayCall(Received), RepayStaticCall(Received), RepayCall(Restored)} :
        LoanKey(c) = LoanKey(LoanCall(Received))
  BY <1>1, <1>3 DEF LoanKey, RepayCall, RepayStaticCall, LoanCall
<1>5. ASSUME object.underwriter = published.underwriter
      PROVE  LoanKey(FallbackMintCall(object)) = LoanKey(LoanCall(Received))
  BY <1>1, <1>2, <1>3, <1>5 DEF LoanKey, FallbackMintCall, RepayCall, LoanCall, Frozen
<1>6. ASSUME gateway # Unset, NEW o \in {Received, Restored, object}, o.to = Destination(o)
      PROVE  PHash(RepayCall(o)) = gateway.pHash
  <2>1. /\ gateway = GatewayOf([object EXCEPT !.contractAddress = gateway.contract])
        /\ object = [f \in Fields |-> object[f]]
    BY <1>6 DEF RequestsInv, AskedFor, ObjectOK
  <2> DEFINE shown == [object EXCEPT !.contractAddress = gateway.contract]
  <2>2. \A f \in Frozen : shown[f] = object[f]
    BY <2>1, FieldsOfClasses DEF Frozen
  <2> HIDE DEF shown
  <2>3. gateway.pHash = [to |-> object.to, nonce |-> object.pNonce, module |-> object.module,
                         data |-> object.data]
    BY <2>1, <2>2 DEF GatewayOf, Frozen, shown
  <2>4. o.to = object.to /\ o.pNonce = object.pNonce /\ o.module = object.module
        /\ o.data = object.data
    BY <1>1, <1>2, <1>3, <1>6 DEF Frozen
  <2> QED
    BY <1>6, <2>3, <2>4 DEF PHash, RepayCall
<1> QED
  BY <1>4, <1>5, <1>6 DEF RepayMatchesLoan

\* A repayment, by the keeper, by repay.js or with the object the user went on
\* to change, names the record the loan was entered under unless that object
\* has another underwriter, and mints what was paid to the address the user
\* was shown if it recovers the receiver the request names (setUnderwriter,
\* sign, destination, loan, repay, fallbackMint, toTypedDataHash).
THEOREM RepaymentsFindLoans == RequestsSpec => []RepayMatchesLoan
<1> QED
  BY InitRequestsInv, StepRequestsInv, InvRepayMatchesLoan, PTL DEF RequestsSpec

-----------------------------------------------------------------------------
(* Routes.  A route passes every exchange what the one before it answered. *)

Tokens == {"renBTC", "renZEC", "WBTC", "USDT", "USDC", "wETH", "WMATIC", "WAVAX", "av3CRV"}

Pools == {"Curve_Ren", "tricrypto", "aTricrypto", "crvUSD", "uniswap", "joe"}

SwapStep ==
    [do : {"swap"}, register : {"amount", "price", "none"},
     pool : Pools, from : Tokens, to : Tokens]

GasStep == [do |-> "gasPrice"]
FeesStep == [do |-> "renVmFees"]

ProgramStep == SwapStep \union {GasStep, FeesStep}

Route(s, from, to) ==
    /\ s \in Seq(SwapStep)
    /\ \A i \in 1 .. Len(s) : s[i].register = "amount"
    /\ IF s = <<>> THEN from = to ELSE s[1].from = from /\ s[Len(s)].to = to
    /\ \A i \in 1 .. Len(s) - 1 : s[i].to = s[i + 1].from

LEMMA EmptyRoute == \A token : Route(<<>>, token, token)
  BY EmptySeq DEF Route

LEMMA SwapType ==
    ASSUME NEW pool \in Pools, NEW from \in Tokens, NEW to \in Tokens
    PROVE  /\ Swap(pool, from, to) \in SwapStep
           /\ Swap(pool, from, to).register = "amount"
           /\ Swap(pool, from, to).from = from
           /\ Swap(pool, from, to).to = to
  BY DEF Swap, SwapStep

LEMMA SingleRoute ==
    ASSUME NEW pool \in Pools, NEW from \in Tokens, NEW to \in Tokens
    PROVE  Route(<<Swap(pool, from, to)>>, from, to)
<1> DEFINE step == Swap(pool, from, to)
           s == <<step>>
<1>1. step \in SwapStep /\ step.from = from /\ step.to = to /\ step.register = "amount"
  BY SwapType
<1> HIDE DEF step
<1>2. s \in Seq(SwapStep) /\ Len(s) = 1 /\ s[1] = step /\ s # <<>>
  BY <1>1
<1> HIDE DEF s
<1>3. Route(s, from, to)
  BY <1>1, <1>2 DEF Route
<1> QED BY <1>3 DEF s, step

\* One route after another is a route.
LEMMA RouteConcat ==
    ASSUME NEW x, NEW y, NEW z, NEW s, NEW t, Route(s, x, y), Route(t, y, z)
    PROVE  Route(s \o t, x, z)
<1>1. s \in Seq(SwapStep) /\ t \in Seq(SwapStep) /\ Len(s) \in Nat /\ Len(t) \in Nat
  BY DEF Route
<1>2. /\ s \o t \in Seq(SwapStep)
      /\ Len(s \o t) = Len(s) + Len(t)
      /\ \A i \in 1 .. Len(s) + Len(t) :
           (s \o t)[i] = IF i <= Len(s) THEN s[i] ELSE t[i - Len(s)]
  BY <1>1, ConcatProperties
<1>3. CASE s = <<>>
  BY <1>1, <1>3, ConcatEmptySeq DEF Route
<1>4. CASE t = <<>>
  BY <1>1, <1>4, ConcatEmptySeq DEF Route
<1>5. CASE s # <<>> /\ t # <<>>
  <2>1. Len(s) > 0 /\ Len(t) > 0 /\ s \o t # <<>>
    BY <1>1, <1>2, <1>5, EmptySeq
  <2>2. \A i \in 1 .. Len(s \o t) : (s \o t)[i].register = "amount"
    BY <1>1, <1>2 DEF Route
  <2>3. (s \o t)[1].from = x /\ (s \o t)[Len(s \o t)].to = z
    BY <1>1, <1>2, <1>5, <2>1 DEF Route
  <2>4. ASSUME NEW i \in 1 .. Len(s \o t) - 1
        PROVE  (s \o t)[i].to = (s \o t)[i + 1].from
    <3>1. CASE i < Len(s)
      BY <1>1, <1>2, <2>1, <3>1 DEF Route
    <3>2. CASE i = Len(s)
      BY <1>1, <1>2, <1>5, <2>1, <3>2 DEF Route
    <3>3. CASE i > Len(s)
      <4>1. i - Len(s) \in 1 .. Len(t) - 1
        BY <1>1, <1>2, <3>3
      <4>2. t[i - Len(s)].to = t[(i - Len(s)) + 1].from
        BY <4>1 DEF Route
      <4>3. (s \o t)[i] = t[i - Len(s)] /\ (s \o t)[i + 1] = t[(i - Len(s)) + 1]
        BY <1>1, <1>2, <3>3, <4>1
      <4> QED BY <4>2, <4>3
    <3> QED BY <1>1, <1>2, <3>1, <3>2, <3>3
  <2> QED BY <1>2, <2>1, <2>2, <2>3, <2>4 DEF Route
<1> QED BY <1>3, <1>4, <1>5

\* quoteExactInput visits the tokens of its path in order.
LEMMA PathRoute ==
    ASSUME NEW path \in Seq(Tokens), Len(path) >= 2
    PROVE  Route(quoteExactInput(path), path[1], path[Len(path)])
<1>0. Len(path) \in Nat /\ Len(path) - 1 \in Nat \ {0}
  <2>1. Len(path) \in Nat
    BY LenProperties
  <2>2. \A k \in Nat : k >= 2 => k - 1 \in Nat \ {0}
    OBVIOUS
  <2> QED BY <2>1, <2>2
<1> DEFINE n == Len(path) - 1
           s == [i \in 1 .. n |-> Swap("uniswap", path[i], path[i + 1])]
<1>1. n \in Nat \ {0}
  BY <1>0
<1>2. ASSUME NEW i \in 1 .. n
      PROVE  path[i] \in Tokens /\ path[i + 1] \in Tokens
  <2>1. i \in 1 .. Len(path) /\ i + 1 \in 1 .. Len(path)
    BY <1>0
  <2> QED BY <2>1, ElementOfSeq
<1>3. ASSUME NEW i \in 1 .. n
      PROVE  /\ s[i] \in SwapStep /\ s[i].register = "amount"
             /\ s[i].from = path[i] /\ s[i].to = path[i + 1]
  <2>1. s[i] = Swap("uniswap", path[i], path[i + 1])
    OBVIOUS
  <2>2. "uniswap" \in Pools
    BY DEF Pools
  <2>3. path[i] \in Tokens /\ path[i + 1] \in Tokens
    BY <1>2
  <2> HIDE DEF s
  <2> QED BY <2>1, <2>2, <2>3, SwapType
<1>4. s \in Seq(SwapStep) /\ Len(s) = n
  <2>1. s \in [1 .. n -> SwapStep]
    BY <1>3
  <2> HIDE DEF s
  <2> QED BY <1>1, <2>1, LenProperties
<1>5. s # <<>>
  BY <1>1, <1>4, EmptySeq
<1> HIDE DEF s
<1>6. Route(s, path[1], path[Len(path)])
  <2>1. 1 \in 1 .. n /\ n \in 1 .. n /\ n + 1 = Len(path) /\ 1 + 1 = 2
    BY <1>0, <1>1
  <2>2. s[1].from = path[1] /\ s[Len(s)].to = path[Len(path)]
    BY <1>3, <1>4, <2>1
  <2>3. \A i \in 1 .. Len(s) - 1 : s[i].to = s[i + 1].from
    <3>1. \A i \in 1 .. Len(s) - 1 : i \in 1 .. n /\ i + 1 \in 1 .. n
      BY <1>1, <1>4
    <3> HIDE DEF n
    <3> QED BY <1>3, <3>1
  <2>4. \A i \in 1 .. Len(s) : s[i].register = "amount"
    BY <1>3, <1>4
  <2> QED BY <1>4, <1>5, <2>2, <2>3, <2>4 DEF Route
<1> QED BY <1>6 DEF s, quoteExactInput

-----------------------------------------------------------------------------
(* What the quotes ask.                                                    *)

\* Three exchanges in turn.
LEMMA ThreeRoute ==
    ASSUME NEW a \in SwapStep, NEW b \in SwapStep, NEW c \in SwapStep,
           a.register = "amount", b.register = "amount", c.register = "amount",
           a.to = b.from, b.to = c.from
    PROVE  Route(<<a, b, c>>, a.from, c.to)
<1> DEFINE s == <<a, b, c>>
<1>1. s \in Seq(SwapStep) /\ Len(s) = 3 /\ s[1] = a /\ s[2] = b /\ s[3] = c /\ s # <<>>
  OBVIOUS
<1> HIDE DEF s
<1>2. Route(s, a.from, c.to)
  BY <1>1 DEF Route
<1> QED BY <1>2 DEF s

LEMMA CurveRoute ==
    ASSUME NEW chain \in returnChainDetails
    PROVE  /\ Route(getWbtcQuote(chain, TRUE), "renBTC", "WBTC")
           /\ Route(getWbtcQuote(chain, FALSE), "WBTC", "renBTC")
<1>1. /\ Coins("Curve_Ren", "ETHEREUM") = <<"renBTC", "WBTC">>
      /\ chain # "ETHEREUM" => Coins("Curve_Ren", chain) = <<"WBTC", "renBTC">>
  BY DEF Coins
<1>2. /\ getWbtcQuote(chain, TRUE) = <<Swap("Curve_Ren", "renBTC", "WBTC")>>
      /\ getWbtcQuote(chain, FALSE) = <<Swap("Curve_Ren", "WBTC", "renBTC")>>
  BY <1>1 DEF getWbtcQuote, get_dy
<1> QED BY <1>2, SingleRoute DEF Pools, Tokens

LEMMA UniswapRoute2 ==
    ASSUME NEW x \in Tokens, NEW y \in Tokens
    PROVE  Route(quoteExactInput(<<x, y>>), x, y)
<1> DEFINE path == <<x, y>>
<1>1. path \in Seq(Tokens) /\ Len(path) = 2 /\ path[1] = x /\ path[2] = y
  OBVIOUS
<1> HIDE DEF path
<1>2. Len(path) >= 2
  BY <1>1
<1>3. Route(quoteExactInput(path), path[1], path[Len(path)])
  BY <1>1, <1>2, PathRoute
<1>4. Route(quoteExactInput(path), x, y)
  BY <1>1, <1>3
<1> QED BY <1>4 DEF path

LEMMA UniswapRoute3 ==
    ASSUME NEW x \in Tokens, NEW y \in Tokens, NEW z \in Tokens
    PROVE  Route(quoteExactInput(<<x, y, z>>), x, z)
<1> DEFINE path == <<x, y, z>>
<1>1. path \in Seq(Tokens) /\ Len(path) = 3 /\ path[1] = x /\ path[3] = z
  OBVIOUS
<1> HIDE DEF path
<1>2. Len(path) >= 2
  BY <1>1
<1>3. Route(quoteExactInput(path), path[1], path[Len(path)])
  BY <1>1, <1>2, PathRoute
<1>4. Route(quoteExactInput(path), x, z)
  BY <1>1, <1>3
<1> QED BY <1>4 DEF path

LEMMA NativeToken ==
    ASSUME NEW chain \in returnChainDetails
    PROVE  wNative(chain) \in Tokens
  BY DEF wNative, Tokens, returnChainDetails

LEMMA SplicedRoute ==
    ASSUME NEW chain \in returnChainDetails
    PROVE  /\ Route(quoteExactInput(Spliced(<<wNative(chain), "wETH", "WBTC">>, chain)),
                    wNative(chain), "WBTC")
           /\ Route(quoteExactInput(Spliced(<<"WBTC", "wETH", wNative(chain)>>, chain)),
                    "WBTC", wNative(chain))
<1>1. wNative(chain) \in Tokens /\ "wETH" \in Tokens /\ "WBTC" \in Tokens
  BY NativeToken DEF Tokens
<1>2. CASE chain = "MATIC"
  BY <1>1, <1>2, UniswapRoute3 DEF Spliced
<1>3. CASE chain # "MATIC"
  <2>1. /\ Spliced(<<wNative(chain), "wETH", "WBTC">>, chain) = <<wNative(chain), "WBTC">>
        /\ Spliced(<<"WBTC", "wETH", wNative(chain)>>, chain) = <<"WBTC", wNative(chain)>>
    BY <1>3 DEF Spliced
  <2> QED BY <1>1, <2>1, UniswapRoute2
<1> QED BY <1>2, <1>3

LEMMA NativeRoutes ==
    ASSUME NEW chain \in returnChainDetails
    PROVE  /\ Route(ETHtoRenBTC(chain), wNative(chain), "renBTC")
           /\ Route(renBTCToETH(chain), "renBTC", wNative(chain))
<1>1. CASE chain = "AVALANCHE"
  <2>1. wNative(chain) = "WAVAX"
    BY <1>1 DEF wNative
  <2>2. /\ Route(<<Swap("joe", "WBTC", "WAVAX")>>, "WBTC", "WAVAX")
        /\ Route(<<Swap("joe", "WAVAX", "WBTC")>>, "WAVAX", "WBTC")
    BY SingleRoute DEF Pools, Tokens
  <2>3. /\ Route(getAVAXQuote(chain, TRUE), "renBTC", "WAVAX")
        /\ Route(getAVAXQuote(chain, FALSE), "WAVAX", "renBTC")
    BY <2>2, CurveRoute, RouteConcat DEF getAVAXQuote
  <2> QED BY <1>1, <2>1, <2>3 DEF ETHtoRenBTC, renBTCToETH
<1>2. CASE chain # "AVALANCHE"
  BY <1>2, SplicedRoute, CurveRoute, RouteConcat DEF ETHtoRenBTC, renBTCToETH
<1> QED BY <1>1, <1>2

LEMMA UsdcRoutes ==
    ASSUME NEW chain \in returnChainDetails
    PROVE  /\ Route(fromUSDC(chain), "USDC", "renBTC")
           /\ Route(toUSDC(chain), "renBTC", "USDC")
<1>1. CASE chain = "AVALANCHE"
  <2> DEFINE in1 == Swap("crvUSD", "USDC", "av3CRV")
             in2 == Swap("aTricrypto", "av3CRV", "WBTC")
             in3 == Swap("Curve_Ren", "WBTC", "renBTC")
             out1 == Swap("Curve_Ren", "renBTC", "WBTC")
             out2 == Swap("aTricrypto", "WBTC", "av3CRV")
             out3 == Swap("crvUSD", "av3CRV", "USDC")
  <2>1. /\ fromUSDC(chain) = <<in1, in2, in3>>
        /\ toUSDC(chain) = <<out1, out2, out3>>
    <3>1. /\ Coins("Curve_Ren", chain) = <<"WBTC", "renBTC">>
          /\ Coins("aTricrypto", chain) = <<"av3CRV", "WBTC", "wETH">>
      BY <1>1 DEF Coins
    <3> QED BY <1>1, <3>1 DEF fromUSDC, toUSDC, getUsdcQuoteAVAX, get_dy
  <2>2. /\ {in1, in2, in3, out1, out2, out3} \subseteq SwapStep
        /\ \A s \in {in1, in2, in3, out1, out2, out3} : s.register = "amount"
        /\ in1.from = "USDC" /\ in1.to = in2.from /\ in2.to = in3.from /\ in3.to = "renBTC"
        /\ out1.from = "renBTC" /\ out1.to = out2.from /\ out2.to = out3.from
        /\ out3.to = "USDC"
    BY DEF Swap, SwapStep, Pools, Tokens
  <2> HIDE DEF in1, in2, in3, out1, out2, out3
  <2>3. /\ Route(<<in1, in2, in3>>, "USDC", "renBTC")
        /\ Route(<<out1, out2, out3>>, "renBTC", "USDC")
    <3>1. Route(<<in1, in2, in3>>, in1.from, in3.to)
      BY <2>2, ThreeRoute
    <3>2. Route(<<out1, out2, out3>>, out1.from, out3.to)
      BY <2>2, ThreeRoute
    <3> QED BY <2>2, <3>1, <3>2
  <2> QED BY <2>1, <2>3
<1>2. CASE chain # "AVALANCHE"
  <2>1. /\ Route(quoteExactInput(<<"USDC", "wETH", "WBTC">>), "USDC", "WBTC")
        /\ Route(quoteExactInput(<<"WBTC", "wETH", "USDC">>), "WBTC", "USDC")
    BY UniswapRoute3 DEF Tokens
  <2> QED BY <1>2, <2>1, CurveRoute, RouteConcat DEF fromUSDC, toUSDC
<1> QED BY <1>1, <1>2

LEMMA UsdtRoute ==
    ASSUME NEW chain \in returnChainDetails
    PROVE  Route(getUSDTQuote(chain, FALSE), "USDT", "renBTC")
<1>1. Coins("tricrypto", chain) = <<"USDT", "WBTC", "wETH">>
  BY DEF Coins
<1>2. get_dy("tricrypto", chain, 0, 1) = Swap("tricrypto", "USDT", "WBTC")
  BY <1>1 DEF get_dy
<1>3. Route(<<Swap("tricrypto", "USDT", "WBTC")>>, "USDT", "WBTC")
  BY SingleRoute DEF Pools, Tokens
<1> QED BY <1>2, <1>3, CurveRoute, RouteConcat DEF getUSDTQuote

\* A transfer to USDT asks for WBTC aside, and then as if it had any.
LEMMA UsdtSteps ==
    ASSUME NEW chain \in returnChainDetails
    PROVE  \E x \in SwapStep, y \in SwapStep :
             /\ getUSDTQuote(chain, TRUE) = <<x, y>>
             /\ x.register = "none" /\ y.register = "amount" /\ y.to = "USDT"
<1> DEFINE s == getWbtcQuote(chain, TRUE)
           x == Aside(s[1])
           y == Swap("tricrypto", "WBTC", "USDT")
<1>1. Coins("tricrypto", chain) = <<"USDT", "WBTC", "wETH">>
  BY DEF Coins
<1>2. get_dy("tricrypto", chain, 1, 0) = y
  BY <1>1 DEF get_dy
<1>3. getUSDTQuote(chain, TRUE) = <<x, y>>
  BY <1>2 DEF getUSDTQuote
<1>4. s[1] \in SwapStep
  <2>1. \E pool \in Pools, from \in Tokens, to \in Tokens : s = <<Swap(pool, from, to)>>
    BY DEF getWbtcQuote, get_dy, Coins, Pools, Tokens
  <2>2. PICK pool \in Pools, from \in Tokens, to \in Tokens : s = <<Swap(pool, from, to)>>
    BY <2>1
  <2> HIDE DEF s
  <2>3. s[1] = Swap(pool, from, to)
    BY <2>2
  <2> QED BY <2>3, SwapType
<1>5. x \in SwapStep /\ x.register = "none"
  <2> HIDE DEF s
  <2> QED BY <1>4 DEF Aside, SwapStep
<1>6. y \in SwapStep /\ y.register = "amount" /\ y.to = "USDT"
  BY SwapType DEF Pools, Tokens
<1> HIDE DEF x, y
<1> QED BY <1>3, <1>5, <1>6

LEMMA RenZecRoutes ==
    /\ Route(getRenZECETHQuote(TRUE), "renZEC", "wETH")
    /\ Route(getRenZECETHQuote(FALSE), "wETH", "renZEC")
  BY UniswapRoute2 DEF getRenZECETHQuote, Tokens

-----------------------------------------------------------------------------
(* Programs.  What is held is followed call by call, from before a program *)
(* to after it.                                                            *)

\* By register, the token; and whether the price of gas is known.
Holding == [amount : Tokens, price : Tokens, asked : BOOLEAN]

\* The transfers that are left out of RoutesConnect.
Exempt(o) == o.asset = "USDT" /\ ~ o.burn

\* A call for what is held, and what is held after it.  A burn converts
\* before it asks for the price of gas.
Takes(o, step, h, k) ==
    \/ /\ step \in SwapStep /\ step.register = "amount"
       /\ Exempt(o) \/ h.amount = step.from
       /\ o.burn => ~ h.asked
       /\ k = [h EXCEPT !.amount = step.to]
    \/ /\ step \in SwapStep /\ step.register = "price"
       /\ h.asked
       /\ h.price = step.from
       /\ k = [h EXCEPT !.price = step.to]
    \/ step \in SwapStep /\ step.register = "none" /\ Exempt(o) /\ k = h
    \/ step = GasStep /\ ~ h.asked /\ k = [h EXCEPT !.asked = TRUE]
    \/ /\ step = FeesStep
       /\ h.asked
       /\ o.chain # "OPTIMISM" => h.price = RenToken(o.primaryToken)
       /\ k = h

\* The calls s lead from holding h to holding k.
Leads(o, s, h, k) ==
    /\ s \in Seq(ProgramStep)
    /\ \E via \in [1 .. Len(s) + 1 -> Holding] :
         /\ via[1] = h
         /\ via[Len(s) + 1] = k
         /\ \A i \in 1 .. Len(s) : Takes(o, s[i], via[i], via[i + 1])

LEMMA LeadsEmpty ==
    ASSUME NEW o, NEW h \in Holding
    PROVE  Leads(o, <<>>, h, h)
<1> DEFINE via == [i \in 1 .. 1 |-> h]
<1>1. via \in [1 .. 0 + 1 -> Holding] /\ via[1] = h
  OBVIOUS
<1>2. <<>> \in Seq(ProgramStep) /\ Len(<<>>) = 0
  OBVIOUS
<1> HIDE DEF via
<1> QED BY <1>1, <1>2 DEF Leads

LEMMA LeadsOne ==
    ASSUME NEW o, NEW step \in ProgramStep, NEW h \in Holding, NEW k \in Holding,
           Takes(o, step, h, k)
    PROVE  Leads(o, <<step>>, h, k)
<1> DEFINE via == [i \in 1 .. 2 |-> IF i = 1 THEN h ELSE k]
           s == <<step>>
<1>1. via \in [1 .. 2 -> Holding] /\ via[1] = h /\ via[2] = k
  OBVIOUS
<1>2. s \in Seq(ProgramStep) /\ Len(s) = 1 /\ s[1] = step
  OBVIOUS
<1> HIDE DEF via, s
<1>3. \A i \in 1 .. Len(s) : Takes(o, s[i], via[i], via[i + 1])
  <2>1. \A i \in 1 .. Len(s) : i = 1 /\ i + 1 = 2
    BY <1>2
  <2> QED BY <1>1, <1>2, <2>1
<1>4. Len(s) + 1 = 2
  BY <1>2
<1>5. Leads(o, s, h, k)
  BY <1>1, <1>2, <1>3, <1>4 DEF Leads
<1> QED BY <1>5 DEF s

LEMMA LeadsConcat ==
    ASSUME NEW o, NEW x, NEW y, NEW z, NEW s, NEW t, Leads(o, s, x, y), Leads(o, t, y, z)
    PROVE  Leads(o, s \o t, x, z)
<1>1. s \in Seq(ProgramStep) /\ t \in Seq(ProgramStep) /\ Len(s) \in Nat /\ Len(t) \in Nat
  BY DEF Leads
<1>2. PICK v \in [1 .. Len(s) + 1 -> Holding] :
         /\ v[1] = x /\ v[Len(s) + 1] = y
         /\ \A i \in 1 .. Len(s) : Takes(o, s[i], v[i], v[i + 1])
  BY DEF Leads
<1>3. PICK w \in [1 .. Len(t) + 1 -> Holding] :
         /\ w[1] = y /\ w[Len(t) + 1] = z
         /\ \A i \in 1 .. Len(t) : Takes(o, t[i], w[i], w[i + 1])
  BY DEF Leads
<1> DEFINE n == Len(s)
           m == Len(t)
           via == [i \in 1 .. (n + m) + 1 |-> IF i <= n + 1 THEN v[i] ELSE w[i - n]]
<1>4. /\ s \o t \in Seq(ProgramStep)
      /\ Len(s \o t) = n + m
      /\ \A i \in 1 .. n + m : (s \o t)[i] = IF i <= n THEN s[i] ELSE t[i - n]
  BY <1>1, ConcatProperties
<1>5. n \in Nat /\ m \in Nat
  BY <1>1
<1> HIDE DEF n, m
<1>6. via \in [1 .. (n + m) + 1 -> Holding]
  <2>1. \A i \in 1 .. (n + m) + 1 : /\ i <= n + 1 => i \in 1 .. Len(s) + 1
                                    /\ ~ (i <= n + 1) => i - n \in 1 .. Len(t) + 1
    BY <1>5 DEF n, m
  <2>2. \A i \in 1 .. (n + m) + 1 : (IF i <= n + 1 THEN v[i] ELSE w[i - n]) \in Holding
    BY <2>1
  <2> QED BY <2>2
<1>7. via[1] = x
  BY <1>2, <1>5
<1>8. \A i \in n + 1 .. (n + m) + 1 : via[i] = w[i - n]
  <2> SUFFICES ASSUME NEW i \in n + 1 .. (n + m) + 1 PROVE via[i] = w[i - n]
    OBVIOUS
  <2>1. CASE i = n + 1
    <3>1. i - n = 1 /\ v[n + 1] = w[1]
      BY <1>2, <1>3, <1>5, <2>1 DEF n
    <3> QED BY <1>5, <2>1, <3>1
  <2>2. CASE i # n + 1
    BY <1>5, <2>2
  <2> QED BY <2>1, <2>2
<1>9. via[(n + m) + 1] = z
  <2>1. ((n + m) + 1) - n = Len(t) + 1 /\ (n + m) + 1 \in n + 1 .. (n + m) + 1
    BY <1>5 DEF m
  <2>2. via[(n + m) + 1] = w[((n + m) + 1) - n]
    BY <1>8, <2>1
  <2> HIDE DEF via
  <2> QED BY <1>3, <2>1, <2>2
<1>10. ASSUME NEW i \in 1 .. n + m
       PROVE  Takes(o, (s \o t)[i], via[i], via[i + 1])
  <2>1. CASE i <= n
    <3>1. i \in 1 .. Len(s) /\ via[i] = v[i] /\ via[i + 1] = v[i + 1]
      BY <1>5, <2>1 DEF n
    <3> HIDE DEF via
    <3> QED BY <1>2, <1>4, <2>1, <3>1
  <2>2. CASE ~ (i <= n)
    <3>1. i - n \in 1 .. Len(t) /\ i \in n + 1 .. (n + m) + 1 /\ i + 1 \in n + 1 .. (n + m) + 1
      BY <1>5, <2>2 DEF m
    <3>2. (i + 1) - n = (i - n) + 1
      BY <1>5
    <3> HIDE DEF via
    <3>3. via[i] = w[i - n] /\ via[i + 1] = w[(i - n) + 1]
      BY <1>8, <3>1, <3>2
    <3> QED BY <1>3, <1>4, <2>2, <3>1, <3>3
  <2> QED BY <2>1, <2>2
<1> HIDE DEF via
<1> QED BY <1>4, <1>6, <1>7, <1>9, <1>10 DEF Leads

LEMMA LeadsTail ==
    ASSUME NEW o, NEW x, NEW z, NEW s, Leads(o, s, x, z), s # <<>>
    PROVE  /\ Head(s) \in ProgramStep
           /\ \E y \in Holding : Takes(o, Head(s), x, y) /\ Leads(o, Tail(s), y, z)
<1>1. s \in Seq(ProgramStep) /\ Len(s) \in Nat \ {0} /\ Head(s) = s[1]
  BY EmptySeq DEF Leads
<1>2. /\ Head(s) \in ProgramStep
      /\ Tail(s) \in Seq(ProgramStep)
      /\ Len(Tail(s)) = Len(s) - 1
      /\ \A i \in 1 .. Len(Tail(s)) : Tail(s)[i] = s[i + 1]
  BY <1>1, HeadTailProperties
<1>3. PICK v \in [1 .. Len(s) + 1 -> Holding] :
         /\ v[1] = x /\ v[Len(s) + 1] = z
         /\ \A i \in 1 .. Len(s) : Takes(o, s[i], v[i], v[i + 1])
  BY DEF Leads
<1> DEFINE n == Len(Tail(s))
           w == [i \in 1 .. n + 1 |-> v[i + 1]]
<1>4. n \in Nat /\ Len(s) = n + 1
  BY <1>1, <1>2
<1> HIDE DEF n
<1>5. w \in [1 .. n + 1 -> Holding] /\ w[1] = v[2] /\ w[n + 1] = z
  BY <1>3, <1>4
<1>6. ASSUME NEW i \in 1 .. n
      PROVE  Takes(o, Tail(s)[i], w[i], w[i + 1])
  <2>1. i + 1 \in 1 .. Len(s) /\ w[i] = v[i + 1] /\ w[i + 1] = v[(i + 1) + 1]
    BY <1>4
  <2> HIDE DEF w
  <2> QED BY <1>2, <1>3, <2>1 DEF n
<1> HIDE DEF w
<1>7. Leads(o, Tail(s), v[2], z)
  BY <1>2, <1>5, <1>6 DEF Leads, n
<1>8. v[2] \in Holding /\ Takes(o, Head(s), x, v[2])
  <2>1. 1 \in 1 .. Len(s) /\ 2 \in 1 .. Len(s) + 1 /\ 1 + 1 = 2
    BY <1>1
  <2> QED BY <1>1, <1>3, <2>1
<1> QED BY <1>2, <1>7, <1>8

LEMMA RouteLeads ==
    ASSUME NEW o, NEW h \in Holding, NEW s, NEW to \in Tokens, Route(s, h.amount, to),
           o.burn => ~ h.asked
    PROVE  Leads(o, s, h, [h EXCEPT !.amount = to])
<1>1. s \in Seq(SwapStep) /\ Len(s) \in Nat
  BY DEF Route
<1>2. \A i \in 1 .. Len(s) : s[i] \in SwapStep /\ s[i].to \in Tokens
  <2>1. \A i \in 1 .. Len(s) : s[i] \in SwapStep
    BY <1>1, ElementOfSeq
  <2>2. \A step \in SwapStep : step.to \in Tokens
    BY DEF SwapStep
  <2> QED BY <2>1, <2>2
<1>3. s \in Seq(ProgramStep)
  <2>1. s \in [1 .. Len(s) -> ProgramStep]
    BY <1>1, <1>2, LenProperties DEF ProgramStep
  <2> QED BY <1>1, <2>1, IsASeq
<1>4. CASE s = <<>>
  <2>1. [h EXCEPT !.amount = to] = h
    BY <1>4 DEF Route, Holding
  <2> QED BY <1>4, <2>1, LeadsEmpty
<1>5. CASE s # <<>>
  <2> DEFINE n == Len(s)
             via == [i \in 1 .. n + 1 |-> IF i = 1 THEN h ELSE [h EXCEPT !.amount = s[i - 1].to]]
  <2>1. n \in Nat \ {0}
    BY <1>1, <1>5, EmptySeq
  <2>2. \A i \in 1 .. n : s[i].register = "amount"
    BY DEF Route
  <2>3. s[1].from = h.amount /\ s[n].to = to
    BY <1>5 DEF Route
  <2>4. \A i \in 1 .. n - 1 : s[i].to = s[i + 1].from
    BY DEF Route
  <2>5. \A i \in 1 .. n : s[i] \in SwapStep /\ s[i].to \in Tokens
    BY <1>2
  <2> HIDE DEF n
  <2>6. via \in [1 .. n + 1 -> Holding]
    <3>1. \A i \in 1 .. n + 1 : i = 1 \/ i - 1 \in 1 .. n
      BY <2>1
    <3>2. \A token \in Tokens : [h EXCEPT !.amount = token] \in Holding
      BY DEF Holding
    <3> QED BY <2>5, <3>1, <3>2
  <2>7. via[1] = h /\ \A i \in 1 .. n : via[i + 1] = [h EXCEPT !.amount = s[i].to]
    <3>1. \A i \in 1 .. n : i + 1 \in 1 .. n + 1 /\ i + 1 # 1 /\ (i + 1) - 1 = i
      BY <2>1
    <3>2. 1 \in 1 .. n + 1
      BY <2>1
    <3> QED BY <3>1, <3>2
  <2> HIDE DEF via
  <2>8. via[n + 1] = [h EXCEPT !.amount = to]
    BY <2>1, <2>3, <2>7
  <2>9. ASSUME NEW i \in 1 .. n
        PROVE  Takes(o, s[i], via[i], via[i + 1])
    <3>1. via[i].amount = s[i].from /\ (o.burn => ~ via[i].asked)
          /\ via[i + 1] = [via[i] EXCEPT !.amount = s[i].to]
      <4>1. CASE i = 1
        BY <2>1, <2>3, <2>7, <4>1
      <4>2. CASE i # 1
        <5>1. i - 1 \in 1 .. n - 1 /\ i - 1 \in 1 .. n /\ (i - 1) + 1 = i
          BY <2>1, <4>2
        <5>2. via[i] = [h EXCEPT !.amount = s[i - 1].to] /\ s[i - 1].to = s[i].from
          BY <2>4, <2>7, <5>1
        <5>3. via[i].amount = s[i].from /\ via[i].asked = h.asked
          BY <5>2 DEF Holding
        <5>4. via[i + 1] = [via[i] EXCEPT !.amount = s[i].to]
          BY <2>7, <5>2 DEF Holding
        <5> QED BY <5>3, <5>4
      <4> QED BY <4>1, <4>2
    <3> QED BY <2>2, <2>5, <3>1 DEF Takes
  <2> QED BY <1>3, <2>6, <2>7, <2>8, <2>9 DEF Leads, n
<1> QED BY <1>4, <1>5

\* A route for the price of gas.
Priced(route) ==
    [i \in 1 .. Len(route) |->
      IF route[i].register = "amount" THEN [route[i] EXCEPT !.register = "price"] ELSE route[i]]

LEMMA PricedLeads ==
    ASSUME NEW o, NEW h \in Holding, NEW s, NEW to \in Tokens, Route(s, h.price, to), h.asked
    PROVE  Leads(o, Priced(s), h, [h EXCEPT !.price = to])
<1> DEFINE n == Len(s)
           t == [i \in 1 .. n |->
                  IF s[i].register = "amount" THEN [s[i] EXCEPT !.register = "price"] ELSE s[i]]
<1>1. s \in Seq(SwapStep) /\ n \in Nat /\ \A i \in 1 .. n : s[i].register = "amount"
  BY DEF Route
<1>2. \A i \in 1 .. n : s[i] \in SwapStep
  BY <1>1, ElementOfSeq
<1>3. s # <<>> => s[1].from = h.price /\ s[n].to = to
  BY DEF Route
<1>4. s = <<>> => h.price = to
  BY DEF Route
<1>5. n = 0 <=> s = <<>>
  BY <1>1, EmptySeq
<1>6. \A i \in 1 .. n - 1 : s[i].to = s[i + 1].from
  BY DEF Route
<1> HIDE DEF n
<1>7. \A i \in 1 .. n : /\ t[i] \in SwapStep /\ t[i].register = "price"
                        /\ t[i].from = s[i].from /\ t[i].to = s[i].to
                        /\ t[i].to \in Tokens
  BY <1>1, <1>2 DEF SwapStep
<1>8. t \in Seq(ProgramStep) /\ Len(t) = n
  <2>1. t \in [1 .. n -> ProgramStep]
    <3> HIDE DEF t
    <3>1. \A i \in 1 .. n : t[i] \in ProgramStep
      BY <1>7 DEF ProgramStep
    <3> QED BY <3>1 DEF t
  <2> HIDE DEF t
  <2> QED BY <1>1, <2>1, IsASeq, LenProperties
<1> HIDE DEF t
<1> DEFINE via == [i \in 1 .. n + 1 |-> IF i = 1 THEN h ELSE [h EXCEPT !.price = t[i - 1].to]]
<1>9. via \in [1 .. n + 1 -> Holding]
  <2>1. \A i \in 1 .. n + 1 : i = 1 \/ i - 1 \in 1 .. n
    BY <1>1
  <2>2. \A token \in Tokens : [h EXCEPT !.price = token] \in Holding
    BY DEF Holding
  <2> QED BY <1>7, <2>1, <2>2
<1>10. via[1] = h /\ \A i \in 1 .. n : via[i + 1] = [h EXCEPT !.price = t[i].to]
  <2>1. \A i \in 1 .. n : i + 1 \in 1 .. n + 1 /\ i + 1 # 1 /\ (i + 1) - 1 = i
    BY <1>1
  <2>2. 1 \in 1 .. n + 1
    BY <1>1
  <2> QED BY <2>1, <2>2
<1> HIDE DEF via
<1>11. via[n + 1] = [h EXCEPT !.price = to]
  <2>1. CASE n = 0
    BY <1>4, <1>5, <1>10, <2>1 DEF Holding
  <2>2. CASE n # 0
    <3>1. n \in 1 .. n
      BY <1>1, <2>2
    <3>2. t[n].to = to
      BY <1>3, <1>5, <1>7, <2>2, <3>1
    <3> QED BY <1>10, <3>1, <3>2
  <2> QED BY <2>1, <2>2
<1>12. ASSUME NEW i \in 1 .. n
       PROVE  Takes(o, t[i], via[i], via[i + 1])
  <2>1. via[i].price = t[i].from /\ via[i].asked
        /\ via[i + 1] = [via[i] EXCEPT !.price = t[i].to]
    <3>1. CASE i = 1
      <4>1. s[1].from = h.price
        BY <1>1, <1>3, <1>5
      <4> QED BY <1>7, <1>10, <3>1, <4>1
    <3>2. CASE i # 1
      <4>1. i - 1 \in 1 .. n - 1 /\ i - 1 \in 1 .. n /\ (i - 1) + 1 = i
        BY <1>1, <3>2
      <4>2. via[i] = [h EXCEPT !.price = t[i - 1].to] /\ t[i - 1].to = t[i].from
        <5>1. s[i - 1].to = s[i].from
          BY <1>6, <4>1
        <5>2. t[i - 1].to = s[i - 1].to /\ t[i].from = s[i].from
          BY <1>7, <4>1
        <5>3. via[(i - 1) + 1] = [h EXCEPT !.price = t[i - 1].to]
          BY <1>10, <4>1
        <5> QED BY <4>1, <5>1, <5>2, <5>3
      <4>3. via[i].price = t[i].from /\ via[i].asked
        BY <4>2 DEF Holding
      <4>4. via[i + 1] = [via[i] EXCEPT !.price = t[i].to]
        BY <1>10, <4>2 DEF Holding
      <4> QED BY <4>3, <4>4
    <3> QED BY <3>1, <3>2
  <2> QED BY <1>7, <2>1 DEF Takes
<1>13. Leads(o, t, h, [h EXCEPT !.price = to])
  BY <1>8, <1>9, <1>10, <1>11, <1>12 DEF Leads
<1> QED BY <1>13 DEF t, n, Priced

\* The token an order is to end with.
Target(o) == IF o.burn THEN RenToken(o.primaryToken) ELSE Token(o.asset, o.chain)

\* What is held when a quote is asked for, and when the fees are reached.
Before(o) ==
    [amount |-> IF o.burn THEN Token(o.asset, o.chain) ELSE RenToken(o.primaryToken),
     price |-> wNative(o.chain), asked |-> FALSE]

LEMMA OrderTokens ==
    ASSUME NEW o \in Orders
    PROVE  /\ o.chain \in returnChainDetails
           /\ wNative(o.chain) \in Tokens
           /\ RenToken(o.primaryToken) \in Tokens
           /\ Token(o.asset, o.chain) \in Tokens
           /\ o.primaryToken = "ZEC" => o.chain = "ETHEREUM"
<1>1. /\ o.chain \in returnChainDetails
      /\ o.asset \in {"USDC", "WBTC", "renBTC", "USDT", "native", "renZEC"}
      /\ o.primaryToken = "ZEC" => o.chain = "ETHEREUM"
  BY DEF Orders
<1>2. wNative(o.chain) \in Tokens
  BY <1>1, NativeToken
<1> QED BY <1>1, <1>2 DEF RenToken, Token, Tokens

LEMMA FeeLeads ==
    ASSUME NEW o \in Orders, NEW token \in Tokens
    PROVE  \E k \in Holding :
             /\ Leads(o, ApplyFee(o.chain, o.primaryToken),
                      [amount |-> token, price |-> wNative(o.chain), asked |-> FALSE], k)
             /\ k.amount = token
<1> DEFINE native == wNative(o.chain)
           ren == RenToken(o.primaryToken)
           route == PriceRoute(o.chain, o.primaryToken)
           start == [amount |-> token, price |-> native, asked |-> FALSE]
           known == [start EXCEPT !.asked = TRUE]
           end == IF o.chain = "OPTIMISM" THEN native ELSE ren
           done == [known EXCEPT !.price = end]
<1>1. native \in Tokens /\ ren \in Tokens /\ o.chain \in returnChainDetails
  BY OrderTokens
<1>2. Route(route, native, end)
  <2>1. CASE o.primaryToken = "ZEC"
    <3>1. native = "wETH" /\ end = "renZEC" /\ route = getRenZECETHQuote(FALSE)
      BY <2>1, OrderTokens DEF PriceRoute, wNative, RenToken
    <3> QED BY <3>1, RenZecRoutes
  <2>2. CASE o.primaryToken # "ZEC"
    <3>1. route = getRenBTCForOneETHPrice(o.chain) /\ ren = "renBTC"
      BY <2>2 DEF PriceRoute, RenToken
    <3>2. CASE o.chain = "OPTIMISM"
      <4>1. route = <<>> /\ end = native
        BY <3>1, <3>2 DEF getRenBTCForOneETHPrice
      <4> QED BY <4>1, EmptyRoute
    <3>3. CASE o.chain = "ETHEREUM"
      <4>1. route = <<Swap("uniswap", "wETH", "renBTC")>> /\ native = "wETH" /\ end = "renBTC"
        BY <3>1, <3>3 DEF getRenBTCForOneETHPrice, wNative
      <4>2. Route(<<Swap("uniswap", "wETH", "renBTC")>>, "wETH", "renBTC")
        BY SingleRoute DEF Pools, Tokens
      <4> QED BY <4>1, <4>2
    <3>4. CASE o.chain # "OPTIMISM" /\ o.chain # "ETHEREUM"
      <4>1. route = ETHtoRenBTC(o.chain) /\ end = "renBTC"
        BY <3>1, <3>4 DEF getRenBTCForOneETHPrice
      <4> QED BY <1>1, <4>1, NativeRoutes
    <3> QED BY <3>2, <3>3, <3>4
  <2> QED BY <2>1, <2>2
<1>3. ApplyFee(o.chain, o.primaryToken) = (<<GasStep>> \o Priced(route)) \o <<FeesStep>>
  BY DEF ApplyFee, Priced, GasStep, FeesStep
<1>4. start \in Holding /\ known \in Holding /\ done \in Holding /\ end \in Tokens
  BY <1>1 DEF Holding
<1>5. o.chain # "OPTIMISM" => end = ren
  OBVIOUS
<1> HIDE DEF native, ren, route, end
<1>6. known.price = native /\ known.asked /\ done.price = end /\ done.asked
      /\ known = [start EXCEPT !.asked = TRUE] /\ ~ start.asked /\ done.amount = token
  <2>1. known.price = native /\ known.asked = TRUE /\ start.asked = FALSE
    OBVIOUS
  <2>2. done.price = end /\ done.amount = token
    OBVIOUS
  <2>3. done.asked = TRUE
    OBVIOUS
  <2>4. known = [start EXCEPT !.asked = TRUE]
    OBVIOUS
  <2> QED BY <2>1, <2>2, <2>3, <2>4, Zenon
<1> HIDE DEF start, known
<1>7. GasStep \in ProgramStep /\ FeesStep \in ProgramStep
  BY DEF ProgramStep
<1>8. Leads(o, <<GasStep>>, start, known)
  <2>1. Takes(o, GasStep, start, known)
    BY <1>6 DEF Takes
  <2> QED BY <1>4, <1>7, <2>1, LeadsOne
<1>9. Leads(o, Priced(route), known, done)
  BY <1>2, <1>4, <1>6, PricedLeads
<1> HIDE DEF done
<1>10. Leads(o, <<FeesStep>>, done, done)
  <2>1. Takes(o, FeesStep, done, done)
    BY <1>5, <1>6 DEF Takes, ren
  <2> QED BY <1>4, <1>7, <2>1, LeadsOne
<1>11. Leads(o, (<<GasStep>> \o Priced(route)) \o <<FeesStep>>, start, done)
  BY <1>8, <1>9, <1>10, LeadsConcat
<1> QED BY <1>3, <1>4, <1>6, <1>11 DEF start, native

LEMMA PairConcat ==
    ASSUME NEW T, NEW x \in T, NEW y \in T
    PROVE  <<x>> \o <<y>> = <<x, y>>
<1> DEFINE s == <<x>>
           t == <<y>>
           p == <<x, y>>
<1>1. /\ s \in Seq(T) /\ Len(s) = 1 /\ s[1] = x
      /\ t \in Seq(T) /\ Len(t) = 1 /\ t[1] = y
      /\ p \in Seq(T) /\ Len(p) = 2 /\ p[1] = x /\ p[2] = y
  OBVIOUS
<1> HIDE DEF s, t, p
<1>2. /\ s \o t \in Seq(T)
      /\ Len(s \o t) = Len(s) + Len(t)
      /\ \A i \in 1 .. Len(s) + Len(t) :
           (s \o t)[i] = IF i <= Len(s) THEN s[i] ELSE t[i - Len(s)]
  BY <1>1, ConcatProperties
<1>3. Len(s \o t) = 2 /\ (s \o t)[1] = x /\ (s \o t)[2] = y
  BY <1>1, <1>2
<1>4. \A i \in 1 .. Len(p) : (s \o t)[i] = p[i]
  <2>1. \A i \in 1 .. Len(p) : i = 1 \/ i = 2
    BY <1>1
  <2> QED BY <1>1, <1>3, <2>1
<1>5. s \o t = p
  BY <1>1, <1>2, <1>3, <1>4, SeqEqual
<1> QED BY <1>5 DEF s, t, p

LEMMA UsdtLeads ==
    ASSUME NEW o \in Orders, Exempt(o), NEW h \in Holding
    PROVE  Leads(o, getUSDTQuote(o.chain, TRUE), h, [h EXCEPT !.amount = "USDT"])
<1>1. o.chain \in returnChainDetails /\ ~ o.burn
  BY OrderTokens DEF Exempt
<1>2. PICK x \in SwapStep, y \in SwapStep :
             /\ getUSDTQuote(o.chain, TRUE) = <<x, y>>
             /\ x.register = "none" /\ y.register = "amount" /\ y.to = "USDT"
  BY <1>1, UsdtSteps
<1> DEFINE k == [h EXCEPT !.amount = "USDT"]
<1>3. k \in Holding
  BY DEF Holding, Tokens
<1>4. Takes(o, x, h, h)
  BY <1>2 DEF Takes
<1>5. Takes(o, y, h, k)
  BY <1>1, <1>2 DEF Takes
<1>6. x \in ProgramStep /\ y \in ProgramStep
  BY DEF ProgramStep
<1> HIDE DEF k
<1>7. Leads(o, <<x>>, h, h) /\ Leads(o, <<y>>, h, k)
  BY <1>3, <1>4, <1>5, <1>6, LeadsOne
<1>8. <<x>> \o <<y>> = <<x, y>>
  BY PairConcat
<1>9. Leads(o, <<x>> \o <<y>>, h, k)
  BY <1>7, LeadsConcat
<1>10. Leads(o, <<x, y>>, h, k)
  BY <1>8, <1>9
<1> QED BY <1>2, <1>10 DEF k

\* Every program leads from what an order starts with to what it is to end
\* with.
LEMMA ProgramLeads ==
    ASSUME NEW o \in Orders
    PROVE  /\ Before(o) \in Holding
           /\ \E k \in Holding : Leads(o, Program(o), Before(o), k) /\ k.amount = Target(o)
<1> DEFINE native == wNative(o.chain)
           ren == RenToken(o.primaryToken)
           fee == ApplyFee(o.chain, o.primaryToken)
<1>1. /\ o.chain \in returnChainDetails /\ native \in Tokens /\ ren \in Tokens
      /\ Token(o.asset, o.chain) \in Tokens
  BY OrderTokens
<1>2. /\ o.asset \in {"USDC", "WBTC", "renBTC", "USDT", "native", "renZEC"}
      /\ o.primaryToken = "ZEC" => o.asset \in {"renZEC", "native"} /\ o.chain = "ETHEREUM"
      /\ o.primaryToken # "ZEC" => o.asset # "renZEC"
  BY DEF Orders
<1>3. Before(o) \in Holding
  BY <1>1 DEF Before, Holding
<1> SUFFICES \E k \in Holding : Leads(o, Program(o), Before(o), k) /\ k.amount = Target(o)
  BY <1>3
<1>4. \A token \in Tokens : \E k \in Holding :
         /\ Leads(o, fee, [amount |-> token, price |-> native, asked |-> FALSE], k)
         /\ k.amount = token
  BY FeeLeads
\* A route, then the fees.
<1>5. ASSUME NEW s, NEW to \in Tokens, Route(s, Before(o).amount, to), Program(o) = s \o fee,
             to = Target(o)
      PROVE  \E k \in Holding : Leads(o, Program(o), Before(o), k) /\ k.amount = Target(o)
  <2>1. Leads(o, s, Before(o), [Before(o) EXCEPT !.amount = to])
    <3>1. ~ Before(o).asked
      BY DEF Before
    <3> QED BY <1>3, <1>5, <3>1, RouteLeads
  <2>2. [Before(o) EXCEPT !.amount = to] = [amount |-> to, price |-> native, asked |-> FALSE]
    <3>1. Before(o).price = native /\ Before(o).asked = FALSE
      BY DEF Before
    <3>2. \A h \in Holding :
             [h EXCEPT !.amount = to] = [amount |-> to, price |-> h.price, asked |-> h.asked]
      BY DEF Holding
    <3> QED BY <1>3, <3>1, <3>2
  <2>3. PICK k \in Holding :
             /\ Leads(o, fee, [amount |-> to, price |-> native, asked |-> FALSE], k)
             /\ k.amount = to
    BY <1>4
  <2> HIDE DEF native, fee
  <2>4. Leads(o, s \o fee, Before(o), k)
    BY <2>1, <2>2, <2>3, LeadsConcat
  <2> QED BY <1>5, <2>3, <2>4
\* The fees, then a route.
<1>6. ASSUME NEW s, Route(s, ren, Target(o)), Program(o) = fee \o s, ~ o.burn
      PROVE  \E k \in Holding : Leads(o, Program(o), Before(o), k) /\ k.amount = Target(o)
  <2>1. Before(o) = [amount |-> ren, price |-> native, asked |-> FALSE]
    BY <1>6 DEF Before
  <2>2. PICK k \in Holding : Leads(o, fee, Before(o), k) /\ k.amount = ren
    BY <1>1, <1>4, <2>1
  <2>3. Target(o) \in Tokens
    BY <1>1, <1>6 DEF Target
  <2>4. Leads(o, s, k, [k EXCEPT !.amount = Target(o)])
    BY <1>6, <2>2, <2>3, RouteLeads
  <2>5. [k EXCEPT !.amount = Target(o)] \in Holding
        /\ [k EXCEPT !.amount = Target(o)].amount = Target(o)
    BY <2>3 DEF Holding
  <2> HIDE DEF fee
  <2>6. Leads(o, fee \o s, Before(o), [k EXCEPT !.amount = Target(o)])
    BY <2>2, <2>4, LeadsConcat
  <2> QED BY <1>6, <2>5, <2>6
\* The fees alone.
<1>7. ASSUME Program(o) = fee, ~ o.burn, Target(o) = ren
      PROVE  \E k \in Holding : Leads(o, Program(o), Before(o), k) /\ k.amount = Target(o)
  <2>1. Before(o) = [amount |-> ren, price |-> native, asked |-> FALSE]
    BY <1>7 DEF Before
  <2> QED BY <1>1, <1>4, <1>7, <2>1
<1>8. CASE o.burn
  <2> DEFINE s == getConvertedAmount(o.chain, o.primaryToken, o.asset)
  <2>1. Program(o) = s \o fee
    BY <1>8 DEF Program, computeOutputBTC
  <2>2. Route(s, Token(o.asset, o.chain), ren)
    <3>1. CASE o.primaryToken = "ZEC"
      <4>1. o.asset = "renZEC" => s = <<>> /\ Token(o.asset, o.chain) = "renZEC"
        BY <3>1 DEF getConvertedAmount, Token
      <4>2. o.asset = "native" => s = getRenZECETHQuote(FALSE) /\ Token(o.asset, o.chain) = "wETH"
        BY <1>2, <3>1 DEF getConvertedAmount, Token, wNative
      <4>3. ren = "renZEC"
        BY <3>1 DEF RenToken
      <4> HIDE DEF s, ren
      <4> QED BY <1>2, <3>1, <4>1, <4>2, <4>3, EmptyRoute, RenZecRoutes
    <3>2. CASE o.primaryToken # "ZEC"
      <4>1. ren = "renBTC"
        BY <3>2 DEF RenToken
      <4>2. /\ o.asset = "WBTC" => s = getWbtcQuote(o.chain, FALSE)
            /\ o.asset = "renBTC" => s = <<>>
            /\ o.asset = "USDC" => s = fromUSDC(o.chain)
            /\ o.asset = "USDT" => s = getUSDTQuote(o.chain, FALSE)
            /\ o.asset = "native" => s = ETHtoRenBTC(o.chain)
        BY <3>2 DEF getConvertedAmount
      <4>3. /\ o.asset # "native" => Token(o.asset, o.chain) = o.asset
            /\ o.asset = "native" => Token(o.asset, o.chain) = native
        BY DEF Token
      <4>4. /\ Route(getWbtcQuote(o.chain, FALSE), "WBTC", "renBTC")
            /\ Route(fromUSDC(o.chain), "USDC", "renBTC")
            /\ Route(getUSDTQuote(o.chain, FALSE), "USDT", "renBTC")
            /\ Route(ETHtoRenBTC(o.chain), native, "renBTC")
            /\ Route(<<>>, "renBTC", "renBTC")
        BY <1>1, CurveRoute, UsdcRoutes, UsdtRoute, NativeRoutes, EmptyRoute
      <4> HIDE DEF s, ren, native
      <4> QED BY <1>2, <3>2, <4>1, <4>2, <4>3, <4>4
    <3> QED BY <3>1, <3>2
  <2>3. Before(o).amount = Token(o.asset, o.chain) /\ Target(o) = ren
    BY <1>8 DEF Before, Target
  <2> HIDE DEF s, ren, fee
  <2> QED BY <1>1, <1>5, <2>1, <2>2, <2>3
<1>9. CASE ~ o.burn
  <2>1. Target(o) = Token(o.asset, o.chain) /\ Before(o).amount = ren
    BY <1>9 DEF Before, Target
  <2>2. Program(o) = computeTransferOutput(o.chain, o.primaryToken, o.asset)
    BY <1>9 DEF Program
  <2>3. CASE o.primaryToken = "ZEC"
    <3>1. ren = "renZEC"
      BY <2>3 DEF RenToken
    <3>2. CASE o.asset = "renZEC"
      <4>1. Program(o) = fee /\ Target(o) = ren
        BY <2>1, <2>2, <2>3, <3>1, <3>2 DEF computeTransferOutput, Token
      <4> QED BY <1>7, <1>9, <4>1
    <3>3. CASE o.asset = "native"
      <4>1. Program(o) = fee \o getRenZECETHQuote(TRUE) /\ Target(o) = "wETH"
        BY <1>2, <2>1, <2>2, <2>3, <3>3 DEF computeTransferOutput, Token, wNative
      <4> HIDE DEF fee, ren
      <4> QED BY <1>6, <1>9, <3>1, <4>1, RenZecRoutes
    <3> QED BY <1>2, <2>3, <3>2, <3>3
  <2>4. CASE o.primaryToken # "ZEC"
    <3>1. ren = "renBTC"
      BY <2>4 DEF RenToken
    <3>2. CASE o.asset = "USDC"
      <4>1. Program(o) = fee \o toUSDC(o.chain) /\ Target(o) = "USDC"
        BY <2>1, <2>2, <2>4, <3>2 DEF computeTransferOutput, Token
      <4>2. Route(toUSDC(o.chain), "renBTC", "USDC")
        BY <1>1, UsdcRoutes
      <4> HIDE DEF fee, ren
      <4> QED BY <1>6, <1>9, <3>1, <4>1, <4>2
    <3>3. CASE o.asset = "WBTC"
      <4>1. Program(o) = getWbtcQuote(o.chain, TRUE) \o fee /\ Target(o) = "WBTC"
        BY <2>1, <2>2, <2>4, <3>3 DEF computeTransferOutput, Token
      <4>2. Route(getWbtcQuote(o.chain, TRUE), "renBTC", "WBTC") /\ "WBTC" \in Tokens
        BY <1>1, CurveRoute DEF Tokens
      <4> HIDE DEF fee, ren
      <4> QED BY <1>5, <2>1, <3>1, <4>1, <4>2
    <3>4. CASE o.asset = "renBTC"
      <4>1. Program(o) = fee /\ Target(o) = ren
        BY <2>1, <2>2, <2>4, <3>1, <3>4 DEF computeTransferOutput, Token
      <4> QED BY <1>7, <1>9, <4>1
    <3>5. CASE o.asset = "native"
      <4>1. Program(o) = fee \o renBTCToETH(o.chain) /\ Target(o) = native
        BY <2>1, <2>2, <2>4, <3>5 DEF computeTransferOutput, Token
      <4>2. Route(renBTCToETH(o.chain), "renBTC", native)
        BY <1>1, NativeRoutes
      <4> HIDE DEF fee, ren, native
      <4> QED BY <1>6, <1>9, <3>1, <4>1, <4>2
    <3>6. CASE o.asset = "USDT"
      <4>1. Program(o) = fee \o getUSDTQuote(o.chain, TRUE) /\ Target(o) = "USDT"
        BY <2>1, <2>2, <2>4, <3>6 DEF computeTransferOutput, Token
      <4>2. Before(o) = [amount |-> ren, price |-> native, asked |-> FALSE]
        BY <1>9 DEF Before
      <4>3. PICK k \in Holding : Leads(o, fee, Before(o), k)
        BY <1>1, <1>4, <4>2
      <4>4. Leads(o, getUSDTQuote(o.chain, TRUE), k, [k EXCEPT !.amount = "USDT"])
        BY <1>9, <3>6, UsdtLeads DEF Exempt
      <4>5. [k EXCEPT !.amount = "USDT"] \in Holding /\ [k EXCEPT !.amount = "USDT"].amount = "USDT"
        BY DEF Holding, Tokens
      <4> HIDE DEF fee, ren
      <4>6. Leads(o, Program(o), Before(o), [k EXCEPT !.amount = "USDT"])
        BY <4>1, <4>3, <4>4, LeadsConcat
      <4> QED BY <4>1, <4>5, <4>6
    <3> QED BY <1>2, <2>4, <3>2, <3>3, <3>4, <3>5, <3>6
  <2> QED BY <2>3, <2>4
<1> QED BY <1>3, <1>8, <1>9

-----------------------------------------------------------------------------
(* The calls.                                                              *)

QuotesSpec == QuotesInit /\ [][QuotesNext]_quoteVars

Now == [amount |-> held.amount, price |-> held.price, asked |-> gasPrice \in Nat \ {0}]

\* The inductive invariant: what is left of the program leads from what is
\* held now to what the order asks for; until the price of gas is asked for,
\* the price register holds the chain's own token; and a quote is returned at
\* the end only.
QuotesInv ==
    /\ order \in Orders
    /\ held \in [amount : Tokens, price : Tokens, none : Tokens \union {Unanswered}]
    /\ sum \in [amount : Nat, price : Nat]
    /\ gasPrice \in Nat \ {0} \/ held.price = wNative(order.chain)
    /\ quote = Unanswered \/ quote = -1 \/ program = <<>>
    /\ \E k \in Holding : Leads(order, program, Now, k) /\ k.amount = Target(order)
    /\ FeesAddUp

LEMMA NowHolding ==
    ASSUME QuotesInv
    PROVE  Now \in Holding
  BY DEF QuotesInv, Now, Holding

LEMMA QuotesInvInit ==
    ASSUME QuotesInit
    PROVE  QuotesInv
<1>1. PICK o \in Orders : QuotesStart(o)
  BY DEF QuotesInit
<1>2. /\ order = o /\ program = Program(o) /\ gasPrice = Unanswered
      /\ sum = [amount |-> o.amount, price |-> 0]
      /\ held = [amount |-> IF o.burn THEN Token(o.asset, o.chain) ELSE RenToken(o.primaryToken),
                 price |-> wNative(o.chain), none |-> Unanswered]
      /\ quote = Unanswered /\ fees = Unanswered
  BY <1>1 DEF QuotesStart
<1>3. gasPrice \notin Nat
  BY <1>2, QuotesAssumption
<1>4. Now = Before(o)
  <2>1. (gasPrice \in Nat \ {0}) = FALSE
    BY <1>3
  <2> QED BY <1>2, <2>1 DEF Now, Before
<1>5. held \in [amount : Tokens, price : Tokens, none : Tokens \union {Unanswered}]
  BY <1>2, OrderTokens
<1>6. sum \in [amount : Nat, price : Nat]
  <2>1. o.amount \in Nat
    BY QuotesAssumption DEF Orders
  <2> QED BY <1>2, <2>1
<1>7. held.price = wNative(order.chain)
  BY <1>2
<1>8. FeesAddUp
  BY <1>2 DEF FeesAddUp
<1>9. \E k \in Holding : Leads(order, program, Now, k) /\ k.amount = Target(order)
  BY <1>2, <1>4, ProgramLeads
<1> QED BY <1>2, <1>5, <1>6, <1>7, <1>8, <1>9 DEF QuotesInv

\* The next call is one for what is held, and the rest leads on from there.
LEMMA NextCall ==
    ASSUME QuotesInv, program # <<>>
    PROVE  /\ Step \in ProgramStep
           /\ \E h \in Holding :
                /\ Takes(order, Step, Now, h)
                /\ \E k \in Holding : Leads(order, Tail(program), h, k) /\ k.amount = Target(order)
<1>1. PICK k \in Holding : Leads(order, program, Now, k) /\ k.amount = Target(order)
  BY DEF QuotesInv
<1>2. /\ Head(program) \in ProgramStep
      /\ \E h \in Holding : Takes(order, Head(program), Now, h) /\ Leads(order, Tail(program), h, k)
  BY <1>1, LeadsTail
<1> QED BY <1>1, <1>2 DEF Step

LEMMA StepKinds ==
    ASSUME NEW o, NEW step, NEW h, NEW k, Takes(o, step, h, k)
    PROVE  /\ step.do = "swap" =>
                /\ step \in SwapStep
                /\ step.register \in {"amount", "price", "none"}
                /\ step.to \in Tokens
                /\ step.register = "none" => Exempt(o) /\ k = h
                /\ step.register = "amount" =>
                     /\ Exempt(o) \/ h.amount = step.from
                     /\ o.burn => ~ h.asked
                     /\ k = [h EXCEPT !.amount = step.to]
                /\ step.register = "price" =>
                     /\ h.asked
                     /\ h.price = step.from
                     /\ k = [h EXCEPT !.price = step.to]
           /\ step.do = "gasPrice" => ~ h.asked /\ k = [h EXCEPT !.asked = TRUE]
           /\ step.do = "renVmFees" =>
                /\ h.asked
                /\ o.chain # "OPTIMISM" => h.price = RenToken(o.primaryToken)
                /\ k = h
<1>1. step \in SwapStep => /\ step.do = "swap"
                          /\ step.register \in {"amount", "price", "none"}
                          /\ step.to \in Tokens
  BY DEF SwapStep
<1>2. step = GasStep => step.do = "gasPrice"
  BY DEF GasStep
<1>3. step = FeesStep => step.do = "renVmFees"
  BY DEF FeesStep
<1> QED BY <1>1, <1>2, <1>3 DEF Takes

\* QuotesInv implies RoutesConnect.
LEMMA InvConnects ==
    ASSUME QuotesInv
    PROVE  RoutesConnect
<1> SUFFICES ASSUME ~ Exempt(order)
             PROVE  /\ program # <<>> /\ Step.do = "swap" =>
                         Step.register # "none" /\ held[Step.register] = Step.from
                    /\ quote # Unanswered /\ quote >= 0 => held.amount = Target(order)
                    /\ program # <<>> /\ Step.do = "renVmFees" /\ order.chain # "OPTIMISM" =>
                         held.price = RenToken(order.primaryToken)
  BY DEF RoutesConnect, Exempt, Target
<1>1. Now.amount = held.amount /\ Now.price = held.price
  BY DEF Now
<1>2. ASSUME program # <<>>
      PROVE  /\ Step.do = "swap" => Step.register # "none" /\ held[Step.register] = Step.from
             /\ Step.do = "renVmFees" /\ order.chain # "OPTIMISM" =>
                  held.price = RenToken(order.primaryToken)
  <2>1. PICK h \in Holding : Takes(order, Step, Now, h)
    BY <1>2, NextCall
  <2> QED BY <1>1, <2>1, StepKinds
<1>3. ASSUME quote # Unanswered, quote >= 0
      PROVE  held.amount = Target(order)
  <2>1. quote # -1
    BY <1>3
  <2>2. program = <<>>
    BY <1>3, <2>1 DEF QuotesInv
  <2>3. PICK k \in Holding : Leads(order, <<>>, Now, k) /\ k.amount = Target(order)
    BY <2>2 DEF QuotesInv
  <2>4. Len(<<>>) + 1 = 1
    BY EmptySeq
  <2>5. k = Now
    BY <2>3, <2>4 DEF Leads
  <2> QED BY <1>1, <2>3, <2>5
<1> QED BY <1>2, <1>3

\* The fees add up, whatever RenVM estimates.
LEMMA FeesOfAmount ==
    ASSUME QuotesInv, gasPrice \in Nat \ {0}, NEW amount \in Nat, NEW renOutput \in Int,
           NEW zeroFee \in Nat, NEW renVmFee \in Nat
    PROVE  LET f == applyFee(amount, renOutput, zeroFee, renVmFee)
               left == Deduct(f.amountIn, f)
               due == f.renOutput - f.zeroProtocolFeeAmt - f.gasFee
           IN /\ f.amountIn = amount
              /\ Deduct(amount, f) \in Nat
              /\ left = IF due > 0 THEN due ELSE 0
              /\ left >= 0
              /\ f.renOutput >= 0 => left <= f.renOutput
<1> DEFINE gas == computeGasFee(sum.price)
           zero == applyRatio(amount, zeroFee)
           renVm == applyRatio(amount, renVmFee)
           network == amount - renOutput - renVm
           f == applyFee(amount, renOutput, zeroFee, renVmFee)
<1>1. gas \in Nat
  <2>1. sum.price \in Nat /\ GasCost \in Nat /\ keeperReward \in Nat /\ OneEther \in Nat \ {0}
    BY QuotesAssumption DEF QuotesInv
  <2>2. \A a \in Nat, b \in Nat : a * b \in Nat /\ a + b \in Nat
    OBVIOUS
  <2>3. \A a \in Nat, b \in Nat \ {0} : a \div b \in Nat
    OBVIOUS
  <2>4. GasCost + (keeperReward \div gasPrice) \in Nat
    BY <2>1, <2>2, <2>3
  <2>5. (GasCost + (keeperReward \div gasPrice)) * gasPrice \in Nat
    BY <2>2, <2>4
  <2>6. ((GasCost + (keeperReward \div gasPrice)) * gasPrice) * sum.price \in Nat
    BY <2>1, <2>2, <2>5
  <2> QED BY <2>1, <2>3, <2>6 DEF computeGasFee
<1>2. zero \in Nat /\ renVm \in Nat
  <2>1. \A a \in Nat, b \in Nat : a * b \in Nat
    OBVIOUS
  <2>2. \A a \in Nat : a \div 1000 \in Nat
    OBVIOUS
  <2> QED BY <2>1, <2>2 DEF applyRatio
<1> HIDE DEF gas, zero, renVm
<1>3. /\ f.amountIn = amount /\ f.renOutput = renOutput /\ f.gasFee = gas
      /\ f.zeroProtocolFeeAmt = zero /\ f.totalFees = gas + zero + renVm + network
  BY DEF applyFee, gas, zero, renVm
<1> HIDE DEF f
<1>4. amount - f.totalFees = renOutput - zero - gas
  BY <1>1, <1>2, <1>3
<1>5. Deduct(amount, f) = IF renOutput - zero - gas > 0 THEN renOutput - zero - gas ELSE 0
  BY <1>1, <1>2, <1>4 DEF Deduct
<1>6. /\ Deduct(amount, f) \in Nat
      /\ Deduct(amount, f) >= 0
      /\ renOutput >= 0 => Deduct(amount, f) <= renOutput
  BY <1>1, <1>2, <1>5
<1> QED BY <1>3, <1>5, <1>6 DEF f

LEMMA SwapKeepsInv ==
    ASSUME QuotesInv, NEW answer \in Answers, SwapAnswered(answer)
    PROVE  QuotesInv'
<1>1. /\ quote = Unanswered /\ program # <<>> /\ Step.do = "swap"
      /\ held' = [held EXCEPT ![Step.register] = Step.to]
      /\ sum' = IF Step.register = "none" THEN sum ELSE [sum EXCEPT ![Step.register] = answer]
      /\ program' = Tail(program)
      /\ order' = order /\ gasPrice' = gasPrice /\ fees' = fees /\ quote' = quote
  BY DEF SwapAnswered, Awaited
<1>2. PICK h \in Holding :
        /\ Takes(order, Step, Now, h)
        /\ \E k \in Holding : Leads(order, Tail(program), h, k) /\ k.amount = Target(order)
  BY <1>1, NextCall
<1>3. /\ Step.register \in {"amount", "price", "none"}
      /\ Step.to \in Tokens
      /\ Step.register = "none" => h = Now
      /\ Step.register = "amount" => h = [Now EXCEPT !.amount = Step.to]
      /\ Step.register = "price" => Now.asked /\ h = [Now EXCEPT !.price = Step.to]
  BY <1>1, <1>2, StepKinds
<1>4. held \in [amount : Tokens, price : Tokens, none : Tokens \union {Unanswered}]
      /\ sum \in [amount : Nat, price : Nat] /\ answer \in Nat
  BY QuotesAssumption DEF QuotesInv
<1>5. held' \in [amount : Tokens, price : Tokens, none : Tokens \union {Unanswered}]
      /\ sum' \in [amount : Nat, price : Nat]
  BY <1>1, <1>3, <1>4
<1>6. Now' = h
  <2> DEFINE b == gasPrice \in Nat \ {0}
  <2>1. Now' = [amount |-> held'.amount, price |-> held'.price, asked |-> b]
    BY <1>1 DEF Now
  <2>2. Now = [amount |-> held.amount, price |-> held.price, asked |-> b]
    BY DEF Now
  <2> HIDE DEF b
  <2> QED BY <1>1, <1>3, <1>4, <2>1, <2>2
<1>7. gasPrice' \in Nat \ {0} \/ held'.price = wNative(order'.chain)
  <2>1. CASE Step.register = "price"
    <3>1. Now.asked
      BY <1>3, <2>1
    <3> QED BY <1>1, <3>1 DEF Now
  <2>2. CASE Step.register # "price"
    <3>1. held'.price = held.price
      BY <1>1, <1>3, <1>4, <2>2
    <3> QED BY <1>1, <3>1 DEF QuotesInv
  <2> QED BY <2>1, <2>2
<1> QED BY <1>1, <1>2, <1>5, <1>6, <1>7 DEF QuotesInv, FeesAddUp

LEMMA GasPriceKeepsInv ==
    ASSUME QuotesInv, NEW price \in GasPrices, GasPriceAnswered(price)
    PROVE  QuotesInv'
<1>1. /\ quote = Unanswered /\ program # <<>> /\ Step.do = "gasPrice"
      /\ gasPrice' = price
      /\ order' = order /\ held' = held /\ sum' = sum /\ fees' = fees
  BY DEF GasPriceAnswered, Awaited
<1>2. price \in Nat
  BY QuotesAssumption
<1>3. PICK h \in Holding :
        /\ Takes(order, Step, Now, h)
        /\ \E k \in Holding : Leads(order, Tail(program), h, k) /\ k.amount = Target(order)
  BY <1>1, NextCall
<1>4. ~ Now.asked /\ h = [Now EXCEPT !.asked = TRUE]
  BY <1>1, <1>3, StepKinds
<1>5. held.price = wNative(order.chain)
  <2>1. gasPrice \notin Nat \ {0}
    BY <1>4 DEF Now
  <2> QED BY <2>1 DEF QuotesInv
<1>6. CASE price = 0
  <2>1. quote' = -1 /\ program' = program
    BY <1>6 DEF GasPriceAnswered
  <2>2. Now' = Now
    <3>1. (gasPrice' \in Nat \ {0}) = FALSE /\ (gasPrice \in Nat \ {0}) = FALSE
      <4>1. ~ (gasPrice \in Nat \ {0})
        BY <1>4 DEF Now
      <4>2. ~ (gasPrice' \in Nat \ {0})
        BY <1>1, <1>6
      <4> QED BY <4>1, <4>2
    <3> QED BY <1>1, <3>1 DEF Now
  <2> QED BY <1>1, <1>5, <2>1, <2>2 DEF QuotesInv, FeesAddUp
<1>7. CASE price # 0
  <2>1. program' = Tail(program) /\ quote' = quote
    BY <1>7 DEF GasPriceAnswered
  <2>2. gasPrice' \in Nat \ {0}
    BY <1>1, <1>2, <1>7
  <2>3. Now' = h
    <3>1. (gasPrice' \in Nat \ {0}) = TRUE
      BY <2>2
    <3>2. Now' = [amount |-> held.amount, price |-> held.price, asked |-> TRUE]
      BY <1>1, <3>1 DEF Now
    <3>3. Now.amount = held.amount /\ Now.price = held.price /\ Now \in Holding
      BY NowHolding DEF Now
    <3>4. \A b : \A now \in Holding :
             [now EXCEPT !.asked = b] = [amount |-> now.amount, price |-> now.price, asked |-> b]
      BY DEF Holding
    <3> QED BY <1>4, <3>2, <3>3, <3>4
  <2> QED BY <1>1, <1>3, <2>1, <2>2, <2>3 DEF QuotesInv, FeesAddUp
<1> QED BY <1>6, <1>7

LEMMA FeesKeepInv ==
    ASSUME QuotesInv, NEW renOutput \in Estimates(sum.amount), RenVmFeesAnswered(renOutput)
    PROVE  QuotesInv'
<1> DEFINE f == IF order.burn THEN applyFee(sum.amount, renOutput, burnFee, renVmFeeBurn)
                ELSE applyFee(sum.amount, renOutput, mintFee, renVmFeeMint)
<1>1. /\ quote = Unanswered /\ program # <<>> /\ Step.do = "renVmFees"
      /\ fees' = f
      /\ sum' = [sum EXCEPT !.amount = Deduct(sum.amount, f)]
      /\ program' = Tail(program)
      /\ order' = order /\ held' = held /\ gasPrice' = gasPrice /\ quote' = quote
  BY DEF RenVmFeesAnswered, Awaited
<1>2. PICK h \in Holding :
        /\ Takes(order, Step, Now, h)
        /\ \E k \in Holding : Leads(order, Tail(program), h, k) /\ k.amount = Target(order)
  BY <1>1, NextCall
<1>3. Now.asked /\ h = Now
  BY <1>1, <1>2, StepKinds
<1>4. gasPrice \in Nat \ {0}
  BY <1>3 DEF Now
<1>5. sum \in [amount : Nat, price : Nat] /\ sum.amount \in Nat
  BY DEF QuotesInv
<1>6. renOutput \in Int
  <2>1. sum.amount \in Nat /\ Thousandth \in Nat
    BY <1>5, QuotesAssumption
  <2>2. \A a \in Nat, t \in Nat : {0, a \div 2, a, a - 4 * t} \subseteq Int
    OBVIOUS
  <2> QED BY <2>1, <2>2 DEF Estimates
<1>7. /\ Deduct(sum.amount, f) \in Nat
      /\ f.amountIn = sum.amount
      /\ LET left == Deduct(f.amountIn, f)
             due == f.renOutput - f.zeroProtocolFeeAmt - f.gasFee
         IN /\ left = IF due > 0 THEN due ELSE 0
            /\ left >= 0
            /\ f.renOutput >= 0 => left <= f.renOutput
  <2>1. burnFee \in Nat /\ renVmFeeBurn \in Nat /\ mintFee \in Nat /\ renVmFeeMint \in Nat
    BY DEF burnFee, renVmFeeBurn, mintFee, renVmFeeMint
  <2>2. PICK zeroFee \in Nat, renVmFee \in Nat : f = applyFee(sum.amount, renOutput, zeroFee, renVmFee)
    BY <2>1
  <2> DEFINE g == applyFee(sum.amount, renOutput, zeroFee, renVmFee)
  <2>3. /\ g.amountIn = sum.amount
        /\ Deduct(sum.amount, g) \in Nat
        /\ LET left == Deduct(g.amountIn, g)
               due == g.renOutput - g.zeroProtocolFeeAmt - g.gasFee
           IN /\ left = IF due > 0 THEN due ELSE 0
              /\ left >= 0
              /\ g.renOutput >= 0 => left <= g.renOutput
    BY <1>4, <1>5, <1>6, FeesOfAmount
  <2> HIDE DEF f, g
  <2>4. f = g
    BY <2>2 DEF g
  <2> QED BY <2>3, <2>4
<1> HIDE DEF f
<1>8. FeesAddUp'
  BY <1>1, <1>7 DEF FeesAddUp, Deduct
<1>9. sum' \in [amount : Nat, price : Nat]
  BY <1>1, <1>5, <1>7
<1>10. Now' = h
  BY <1>1, <1>3 DEF Now
<1> QED BY <1>1, <1>2, <1>4, <1>8, <1>9, <1>10 DEF QuotesInv

\* What a failed call leaves: the end of the quote, or a program that starts
\* over from a zero.
LEMMA FailureKeepsInv ==
    ASSUME QuotesInv, CallFails
    PROVE  QuotesInv'
<1>1. /\ quote = Unanswered /\ program # <<>>
      /\ order' = order /\ gasPrice' = gasPrice /\ fees' = fees
  BY DEF CallFails
<1>2. FeesAddUp'
  BY <1>1 DEF FeesAddUp, QuotesInv
<1>3. CASE ~ Caught
  <2>1. quote' = -1 /\ program' = program /\ held' = held /\ sum' = sum
    BY <1>3 DEF CallFails
  <2>2. Now' = Now
    BY <1>1, <2>1 DEF Now
  <2> QED BY <1>1, <1>2, <2>1, <2>2 DEF QuotesInv
<1>4. CASE Caught
  <2> DEFINE token == IF order.burn THEN "renBTC" ELSE "USDC"
  <2>1. /\ quote' = quote
        /\ sum' = [sum EXCEPT !.amount = 0]
        /\ held' = [held EXCEPT !.amount = token]
        /\ program' = IF order.burn THEN ApplyFee(order.chain, order.primaryToken) ELSE <<>>
    BY <1>4 DEF CallFails
  <2>2. order.asset = "USDC" /\ Step.do = "swap" /\ Step.register = "amount"
    BY <1>4 DEF Caught
  <2>3. order \in Orders /\ order.primaryToken # "ZEC"
    BY <2>2 DEF QuotesInv, Orders
  <2>4. token \in Tokens /\ Target(order) = token
    BY <2>2, <2>3 DEF Target, Token, RenToken, Tokens
  <2>5. /\ held' \in [amount : Tokens, price : Tokens, none : Tokens \union {Unanswered}]
        /\ held'.amount = token /\ held'.price = held.price
        /\ sum' \in [amount : Nat, price : Nat]
    BY <2>1, <2>4 DEF QuotesInv
  <2>6. gasPrice' \in Nat \ {0} \/ held'.price = wNative(order'.chain)
    BY <1>1, <2>5 DEF QuotesInv
  <2>7. Now' \in Holding /\ Now'.amount = token /\ Now'.price = held.price
        /\ Now' = [amount |-> token, price |-> held.price, asked |-> gasPrice \in Nat \ {0}]
    BY <1>1, <2>5 DEF Now, Holding
  <2> HIDE DEF token
  <2>8. \E k \in Holding : Leads(order, program', Now', k) /\ k.amount = Target(order)
    <3>1. CASE order.burn
      <4>1. PICK h \in Holding : Takes(order, Step, Now, h)
        BY <1>1, NextCall
      <4>2. ~ Now.asked
        BY <2>2, <3>1, <4>1, StepKinds
      <4>3. (gasPrice \in Nat \ {0}) = FALSE /\ held.price = wNative(order.chain)
        <5>1. ~ (gasPrice \in Nat \ {0})
          BY <4>2 DEF Now
        <5> QED BY <5>1 DEF QuotesInv
      <4>4. Now' = [amount |-> token, price |-> wNative(order.chain), asked |-> FALSE]
        BY <2>7, <4>3
      <4> QED BY <2>1, <2>3, <2>4, <3>1, <4>4, FeeLeads
    <3>2. CASE ~ order.burn
      <4>1. Leads(order, <<>>, Now', Now')
        BY <2>7, LeadsEmpty
      <4> QED BY <2>1, <2>4, <2>7, <3>2, <4>1
    <3> QED BY <3>1, <3>2
  <2> QED BY <1>1, <1>2, <2>1, <2>3, <2>5, <2>6, <2>8 DEF QuotesInv
<1> QED BY <1>3, <1>4

LEMMA ReturnKeepsInv ==
    ASSUME QuotesInv, Return
    PROVE  QuotesInv'
<1>1. /\ program = <<>> /\ program' = program
      /\ order' = order /\ held' = held /\ sum' = sum /\ gasPrice' = gasPrice /\ fees' = fees
  BY DEF Return
<1>2. Now' = Now
  BY <1>1 DEF Now
<1> QED BY <1>1, <1>2 DEF QuotesInv, FeesAddUp

LEMMA QuotesInvStep ==
    ASSUME QuotesInv, [QuotesNext]_quoteVars
    PROVE  QuotesInv'
<1>1. CASE \E answer \in Answers : SwapAnswered(answer)
  BY <1>1, SwapKeepsInv
<1>2. CASE \E price \in GasPrices : GasPriceAnswered(price)
  BY <1>2, GasPriceKeepsInv
<1>3. CASE \E renOutput \in Estimates(sum.amount) : RenVmFeesAnswered(renOutput)
  BY <1>3, FeesKeepInv
<1>4. CASE CallFails
  BY <1>4, FailureKeepsInv
<1>5. CASE Return
  BY <1>5, ReturnKeepsInv
<1>6. CASE UNCHANGED quoteVars
  <2>1. Now' = Now
    BY <1>6 DEF quoteVars, Now
  <2> QED BY <1>6, <2>1 DEF quoteVars, QuotesInv, FeesAddUp
<1> QED BY <1>1, <1>2, <1>3, <1>4, <1>5, <1>6 DEF QuotesNext

\* On every chain and in both directions, whatever exchanges fail, each one
\* is asked for the token at hand and the last one answers in the token asked
\* for, except for a transfer to USDT (getConvertedAmount,
\* computeTransferOutput and the quotes they call).
THEOREM QuotesConnect == QuotesSpec => []RoutesConnect
<1>1. QuotesSpec => []QuotesInv
  BY QuotesInvInit, QuotesInvStep, PTL DEF QuotesSpec
<1>2. QuotesInv => RoutesConnect
  BY InvConnects
<1> QED BY <1>1, <1>2, PTL

\* Whatever the answers, what is left of an amount is what RenVM puts out
\* less Zero's fee and the gas, never more than RenVM puts out and never
\* negative (applyFee, deductMintFee, deductBurnFee).
THEOREM QuotedFeesAddUp == QuotesSpec => []FeesAddUp
<1>1. QuotesSpec => []QuotesInv
  BY QuotesInvInit, QuotesInvStep, PTL DEF QuotesSpec
<1>2. QuotesInv => FeesAddUp
  BY DEF QuotesInv
<1> QED BY <1>1, <1>2, PTL
=============================================================================
