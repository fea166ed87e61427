------------------------------ MODULE Requests ------------------------------
(***************************************************************************)
(* The request objects of the client: TransferRequest, MetaRequest and     *)
(* BurnRequest with their Underwriter subclasses, from the constructor to  *)
(* the copies a keeper makes of what was published                         *)
(* (ZeroUser.publish*Request of lib/p2p/core.ts, the LevelDB entry).       *)
(*                                                                         *)
(* An object maps every field to a symbolic value or to Unset; hashes and  *)
(* signatures are the values they are taken of, so two of them are equal   *)
(* exactly if their inputs are.  A user calls the methods of one object in *)
(* any order.                                                              *)
(***************************************************************************)
EXTENDS Integers, FiniteSets

CONSTANTS
    Contracts,   \* addresses a request may name as its controller
    Deployments, \* those of CONTROLLER_DEPLOYMENTS, with their chains' names
    Chains,      \* chain ids
    Underwriters,
    Accounts,    \* the user and others who may be named as receivers
    User,
    MaxNonce,    \* bound on the permits of the owner a token takes
    Unset

ASSUME RequestsAssumption ==
    /\ User \in Accounts
    /\ DOMAIN Deployments \subseteq Contracts
    /\ MaxNonce \in Nat
    /\ Unset \notin Contracts \union Chains \union Underwriters \union Accounts
    /\ Unset \notin {"given", "user's", "keeper's", "script's", "asked", "ready", "failed"}

VARIABLES
    kind,        \* class of the object
    object,      \* its fields; recovered is its _destination
    nonces,      \* the owner's nonce in the token
    mint,        \* this._mint: Unset, "asked", "ready" or "failed"
    gateway,     \* what the gateway address shown to the user commits to
    static,      \* and what that of the copy last made by callStatic commits to
    published    \* the object as it was when it was last published

requestVars == <<kind, object, nonces, mint, gateway, static, published>>

-----------------------------------------------------------------------------
(* Constructors and serialisation.                                         *)

Kinds == {"transfer", "meta", "burn"}

\* Parameters the constructors read.
Shared == {"module", "underwriter", "asset", "data", "nonce", "pNonce",
           "contractAddress", "chainId", "signature"}

TransferParameters == Shared \union {"to", "amount", "network"}
MetaParameters == Shared \union {"addressFrom"}
BurnParameters == (Shared \ {"module"}) \union {"owner", "amount", "deadline", "destination"}

Parameters ==
    [transfer |-> TransferParameters, meta |-> MetaParameters, burn |-> BurnParameters]

Fields == TransferParameters \union MetaParameters \union BurnParameters
            \union {"tokenNonce", "requestType", "recovered"}

\* A constructor: missing nonces are drawn at random, network is mainnet.
Construct(k, given, random) ==
    [f \in Fields |->
        IF f = "requestType" THEN k
        ELSE IF f \notin Parameters[k] THEN Unset
        ELSE IF given[f] # Unset THEN given[f]
        ELSE IF f \in {"nonce", "pNonce"} THEN random
        ELSE IF f = "network" THEN "mainnet"
        ELSE Unset]

\* Bug variant: pNonce is taken for internal and not published.
TransferTemplateWithoutPNonce == (Shared \ {"pNonce"}) \union {"to", "amount", "requestType"}

\* Bug variant: nonce is taken for internal and not published.
TransferTemplateWithoutNonce == (Shared \ {"nonce"}) \union {"to", "amount", "requestType"}

\* The fields publishTransferRequest, publishMetaRequest and
\* publishBurnRequest send.
TransferTemplate == Shared \union {"to", "amount", "requestType"}
MetaTemplate == Shared \union {"addressFrom", "requestType"}
BurnTemplate == Shared \union {"owner", "amount", "deadline", "destination", "requestType"}

Template == [transfer |-> TransferTemplate, meta |-> MetaTemplate, burn |-> BurnTemplate]

\* The fields requestToPlain keeps in LevelDB.
Plain == Shared \union {"to", "amount", "addressFrom", "requestType"}

Pick(o, fields) == [f \in Fields |-> IF f \in fields THEN o[f] ELSE Unset]

-----------------------------------------------------------------------------
(* Signatures.                                                             *)

\* toEIP712: the typed message and its domain.  A permit commits to a burn by
\* the hash it has for its expiry.
SignedTransfer == {"module", "asset", "amount", "data", "underwriter", "pNonce",
                   "chainId", "contractAddress"}
SignedMeta == {"module", "asset", "data", "underwriter", "pNonce", "chainId",
               "contractAddress"}
Expiry == {"asset", "amount", "deadline", "tokenNonce", "data", "destination"}
SignedBurn == Expiry \union {"owner", "tokenNonce", "chainId", "contractAddress"}

SignedFields == [transfer |-> SignedTransfer, meta |-> SignedMeta, burn |-> SignedBurn]

TypedData(o) == [f \in SignedFields[o.requestType] |-> o[f]]

\* Its side effect on the object.
Retarget(o, contract, chain) ==
    [o EXCEPT !.contractAddress = IF contract = Unset THEN @ ELSE contract,
              !.chainId = chain]

\* Who a signature proves to have signed the object: a signature of anything
\* else recovers to an address nobody has.
Recover(o) ==
    IF o.signature # Unset /\ o.signature.data = TypedData(o) THEN o.signature.by ELSE Unset

\* What waitForSignature resolves to.
Signed == [amount |-> "actualAmount", nHash |-> "nHash", signature |-> "sig"]

\* destination(): recovered once, the first answer is kept.
Destination(o) == IF o.recovered # Unset THEN o.recovered ELSE Recover(o)

LoanCall(o) ==
    [underwriter |-> o.underwriter, to |-> Destination(o), asset |-> o.asset,
     amount |-> o.amount, nonce |-> o.pNonce, module |-> o.module, data |-> o.data]

\* Bug variant: repay passes the minted amount for the requested one.
RepayCallActual(o) ==
    [underwriter |-> o.underwriter, to |-> Destination(o), asset |-> o.asset,
     amount |-> Signed.amount, actualAmount |-> Signed.amount, nonce |-> o.pNonce,
     module |-> o.module, nHash |-> Signed.nHash, data |-> o.data,
     signature |-> Signed.signature]

RepayCall(o) ==
    [underwriter |-> o.underwriter, to |-> Destination(o), asset |-> o.asset,
     amount |-> o.amount, actualAmount |-> Signed.amount, nonce |-> o.pNonce,
     module |-> o.module, nHash |-> Signed.nHash, data |-> o.data,
     signature |-> Signed.signature]

\* repayStatic, and fallbackMint, which calls the controller itself, pass the
\* same arguments.
RepayStaticCall(o) == RepayCall(o)
FallbackMintCall(o) == RepayCall(o)

BurnCall(o) ==
    [to |-> o.owner, asset |-> o.asset, amount |-> o.amount, deadline |-> o.deadline,
     data |-> o.data, destination |-> o.destination, signature |-> o.signature]

MetaCall(o) ==
    [from |-> o.addressFrom, asset |-> o.asset, module |-> o.module, nonce |-> o.pNonce,
     data |-> o.data, signature |-> o.signature]

\* The key of the loan record, toTypedDataHash.
LoanKey(c) ==
    [asset |-> c.asset, amount |-> c.amount, underwriter |-> c.underwriter,
     module |-> c.module, nonce |-> c.nonce, data |-> c.data]

\* The hash of the payload a mint must match.
PHash(c) == [to |-> c.to, nonce |-> c.nonce, module |-> c.module, data |-> c.data]

\* What a controller hashes for a meta transaction.
MetaHash(c, underwriter, contract, chain) ==
    [f \in SignedMeta |->
        CASE f = "underwriter" -> underwriter
          [] f = "contractAddress" -> contract
          [] f = "chainId" -> chain
          [] f = "pNonce" -> c.nonce
          [] OTHER -> c[f]]

\* The permit a controller asks of the token, with the owner's nonce there.
PermitDigest(c, contract, chain, nonce) ==
    [f \in SignedBurn |->
        CASE f = "owner" -> c.to
          [] f = "contractAddress" -> contract
          [] f = "chainId" -> chain
          [] f = "tokenNonce" -> nonce
          [] OTHER -> c[f]]

\* Whether the controller a request names takes its signature.
Accepted(o, nonce) ==
    /\ o.signature # Unset
    /\ kind = "burn" =>
         /\ o.signature.data = PermitDigest(BurnCall(o), o.contractAddress, o.chainId, nonce)
         /\ o.signature.by = BurnCall(o).to
    /\ kind = "meta" =>
         /\ o.signature.data = MetaHash(MetaCall(o), o.underwriter, o.contractAddress, o.chainId)
         /\ o.signature.by = MetaCall(o).from
    /\ kind = "transfer" => o.signature.by = LoanCall(o).to

\* The chain a request's controller is on, of which there is none if it is not
\* deployed.
getVanillaProvider(o) == Deployments[o.contractAddress]

HasProvider(o) == o.contractAddress \in DOMAIN Deployments

\* RenVM's side of that chain.
getProvider(o) == [chain |-> getVanillaProvider(o), network |-> "mainnet"]

\* The chains and the asset of the gateway, and the parameters its address
\* commits to, which were captured by the constructor.
GatewayOf(o) ==
    [network |-> o.network, asset |-> o.asset, contract |-> o.contractAddress,
     to |-> getProvider(o),
     nonce |-> o.nonce,
     pHash |-> [to |-> o.to, nonce |-> o.pNonce, module |-> o.module, data |-> o.data]]

-----------------------------------------------------------------------------
(* A user and the object.                                                  *)

\* Everything the constructor needs is given, some of the rest.
Given ==
    {[f \in Fields |->
        CASE f = "contractAddress" -> c
          [] f = "underwriter" -> u
          [] f \in {"to", "owner", "addressFrom"} -> a
          [] f = "network" -> n
          [] f \in {"nonce", "pNonce"} -> v
          [] f \in {"signature", "tokenNonce", "requestType", "chainId", "recovered"} -> Unset
          [] OTHER -> f] :
        c \in Contracts \union {Unset}, u \in Underwriters, a \in Accounts,
        n \in {"testnet", Unset}, v \in {"given", Unset}}

RequestsStart(k, given) ==
    /\ kind = k
    /\ object = Construct(k, given, "user's")
    /\ nonces = 0
    /\ mint = Unset
    /\ gateway = Unset
    /\ static = Unset
    /\ published = Unset

RequestsInit == \E k \in Kinds, given \in Given : RequestsStart(k, given)

\* sign, with a wallet on some chain.  The object is retargeted even if the
\* wallet refuses both ways of signing.
Signing(o) ==
    /\ object' \in {o, [o EXCEPT !.signature = [by |-> User, data |-> TypedData(o)]]}
    /\ UNCHANGED <<kind, nonces, mint, gateway, static, published>>

SignTransfer(chain, contract) ==
    /\ kind = "transfer"
    /\ Signing(Retarget(object, contract, chain))

SignMeta(chain, contract) ==
    /\ kind = "meta"
    /\ Signing(Retarget(object, contract, chain))

\* The token is asked for the signer's nonce; a permit needs a spender.
SignBurn(chain, contract) ==
    LET o == [Retarget(object, contract, chain) EXCEPT !.tokenNonce = nonces] IN
    /\ kind = "burn"
    /\ o.contractAddress # Unset
    /\ Signing(o)

\* The first call of destination().
AskDestination ==
    /\ kind = "transfer"
    /\ object.signature # Unset
    /\ object.recovered = Unset
    /\ object' = [object EXCEPT !.recovered =
                    IF Recover(object) = Unset THEN "nobody" ELSE Recover(object)]
    /\ UNCHANGED <<kind, nonces, mint, gateway, static, published>>

SetUnderwriter(u) ==
    /\ object' = [object EXCEPT !.underwriter = u]
    /\ UNCHANGED <<kind, nonces, mint, gateway, static, published>>

\* submitToRenVM, toGatewayAddress, waitForSignature: the promise of the
\* gateway is kept, so later calls find it whether it has answered or not.
\* Without a deployed controller there is no provider and nothing is kept.
SubmitToRenVM ==
    /\ kind = "transfer"
    /\ mint = Unset
    /\ HasProvider(object)
    /\ mint' = "asked"
    /\ gateway' = GatewayOf(object)
    /\ UNCHANGED <<kind, object, nonces, static, published>>

\* callStatic.repay works on a copy of the object as it is.  A gateway that
\* was asked for is copied with it; if there is none the copy asks for its own,
\* of which the object learns nothing.
CallStaticRepay ==
    /\ kind = "transfer"
    /\ \/ mint # Unset /\ static' = gateway
       \/ mint = Unset /\ HasProvider(object) /\ static' = GatewayOf(object)
    /\ UNCHANGED <<kind, object, nonces, mint, gateway, published>>

GatewayAnswers ==
    /\ mint = "asked"
    /\ mint' \in {"ready", "failed"}
    /\ UNCHANGED <<kind, object, nonces, gateway, static, published>>

Publish ==
    /\ object.signature # Unset
    /\ published' = object
    /\ UNCHANGED <<kind, object, nonces, mint, gateway, static>>

\* The controller burns on a permit the token takes, or the user gives
\* somebody else one: either way the token's nonce for the owner moves on.
BurnExecuted ==
    /\ kind = "burn"
    /\ nonces < MaxNonce
    /\ nonces' = nonces + 1
    /\ UNCHANGED <<kind, object, mint, gateway, static, published>>

RequestsNext ==
    \/ \E chain \in Chains, contract \in Contracts \union {Unset} :
         SignTransfer(chain, contract) \/ SignMeta(chain, contract) \/ SignBurn(chain, contract)
    \/ \E u \in Underwriters : SetUnderwriter(u)
    \/ AskDestination
    \/ SubmitToRenVM
    \/ CallStaticRepay
    \/ GatewayAnswers
    \/ Publish
    \/ BurnExecuted

-----------------------------------------------------------------------------
(* Properties.                                                             *)

\* What handleTransferRequest or handleBurnRequest makes of the message.
Received == Construct(kind, Pick(published, Template[kind]), "keeper's")

\* What repay.js makes of the stored request.
Restored == Construct(kind, Pick(Received, Plain), "script's")

\* A controller takes the request a keeper received exactly if it would take
\* the one that was published, whatever the token's nonce is by then, in
\* whatever order the object was signed, retargeted and given another
\* underwriter; and so for what is read back from LevelDB, burns excepted, of
\* which it keeps no owner and no destination (publish*Request,
\* requestToPlain, destination, getExpiry).
SignatureSurvives ==
    published # Unset =>
        LET fresh == [published EXCEPT !.recovered = Unset] IN
        \A nonce \in 0 .. MaxNonce :
            /\ Accepted(Received, nonce) = Accepted(fresh, nonce)
            /\ kind # "burn" => Accepted(Restored, nonce) = Accepted(fresh, nonce)

\* The keeper waits for deposits to the address the user was shown, unless the
\* object was retargeted since or is not for the main network; and so does the
\* copy that callStatic makes, whichever of the two asks first (submitToRenVM
\* on both sides).
SameGateway ==
    gateway # Unset =>
        /\ published # Unset /\ gateway.contract = published.contractAddress
             /\ gateway.network = "mainnet"
             => GatewayOf(Received) = gateway
        /\ static # Unset /\ static.contract = gateway.contract => static = gateway

\* The user's own fallbackMint, whatever was done to the object since it was
\* published, names the record the keeper's loan was entered under, as the
\* repay of the keeper and of repay.js do; unless the object was given another
\* underwriter.  And each of the three mints what was paid to the address the
\* user was shown, if the receiver it recovers is the one the request names
\* (setUnderwriter, sign, destination, loan, repay, fallbackMint).
RepayMatchesLoan ==
    published # Unset /\ kind = "transfer" =>
        /\ \A c \in {RepayCall(Received), RepayStaticCall(Received), RepayCall(Restored)} :
             LoanKey(c) = LoanKey(LoanCall(Received))
        /\ object.underwriter = published.underwriter =>
             LoanKey(FallbackMintCall(object)) = LoanKey(LoanCall(Received))
        /\ gateway # Unset =>
             \A o \in {Received, Restored, object} :
                o.to = Destination(o) => PHash(RepayCall(o)) = gateway.pHash
=============================================================================
