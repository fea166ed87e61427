------------------------------ MODULE MCClient ------------------------------
(* Small instances of what an application calls in the client library.     *)
(* The parts share no state.  A behaviour is one of one part: the others   *)
(* stay in an initial state, so the run is the sum of the parts' and not   *)
(* their product.                                                          *)
EXTENDS Requests, BurnWatch, Quotes, Airdrop, Adapters, Mock, EndToEnd, TLC

CONSTANTS c1, c2, u1, u2, alice, bob

VARIABLE part

Parts == {"requests", "host", "remote", "quotes", "airdrop", "adapters", "mock", "script"}

\* One by itself and two that differ only in what the Map does not keep.
StoredInstance ==
    {[nonce |-> "n1", asset |-> "renBTC", requestType |-> "transfer"],
     [nonce |-> "n2", asset |-> "renBTC", requestType |-> "transfer"],
     [nonce |-> "n2", asset |-> "renZEC", requestType |-> "burn"]}

DeploymentsInstance == c1 :> "Arbitrum"

MockInstance ==
    {[signature |-> "s1", requestType |-> "TRANSFER"],
     [signature |-> "s2", requestType |-> "META"]}

Init ==
    /\ part \in Parts
    /\ IF part = "requests" THEN RequestsInit
       ELSE RequestsStart("transfer", CHOOSE given \in Given : TRUE)
    /\ IF part \in {"host", "remote"} THEN BurnWatchInit
       ELSE BurnWatchStart(CHOOSE requests \in [Burns -> BurnRequests] : TRUE)
    /\ IF part = "quotes" THEN QuotesInit ELSE QuotesStart(CHOOSE o \in Orders : TRUE)
    /\ IF part = "airdrop" THEN AirdropInit ELSE AirdropStart("numbers", <<>>)
    /\ AdaptersInit
    /\ part # "adapters" => adapter = "inMemory"
    /\ MockInit
    /\ ScriptInit

vars == <<part, requestVars, burnVars, quoteVars, airdropVars, adapterVars, mockVars, scriptVars>>

OnlyRequests == UNCHANGED <<burnVars, quoteVars, airdropVars, adapterVars, mockVars, scriptVars>>
OnlyBurns == UNCHANGED <<requestVars, quoteVars, airdropVars, adapterVars, mockVars, scriptVars>>
OnlyQuotes == UNCHANGED <<requestVars, burnVars, airdropVars, adapterVars, mockVars, scriptVars>>
OnlyAirdrop == UNCHANGED <<requestVars, burnVars, quoteVars, adapterVars, mockVars, scriptVars>>
OnlyAdapters == UNCHANGED <<requestVars, burnVars, quoteVars, airdropVars, mockVars, scriptVars>>
OnlyMock == UNCHANGED <<requestVars, burnVars, quoteVars, airdropVars, adapterVars, scriptVars>>
OnlyScript == UNCHANGED <<requestVars, burnVars, quoteVars, airdropVars, adapterVars, mockVars>>

Next ==
    /\ UNCHANGED part
    /\ \/ part = "requests" /\ RequestsNext /\ OnlyRequests
       \/ part = "host" /\ HostNext /\ OnlyBurns
       \/ part = "remote" /\ RemoteNext /\ OnlyBurns
       \/ part = "quotes" /\ QuotesNext /\ OnlyQuotes
       \/ part = "airdrop" /\ AirdropNext /\ OnlyAirdrop
       \/ part = "adapters" /\ AdaptersNext /\ OnlyAdapters
       \/ part = "mock" /\ MockNext /\ OnlyMock
       \/ part = "script" /\ ScriptNext /\ OnlyScript

Script(A) == part = "script" /\ A /\ OnlyScript /\ UNCHANGED part

\* A node delivers the events it has and answers what is asked or fails; an
\* announcement that is repeated gets through; main and handlePeer go on with
\* what they have.
FairSpec ==
    /\ Init
    /\ [][Next]_vars
    /\ WF_vars(part = "host" /\ Hearing /\ OnlyBurns /\ UNCHANGED part)
    /\ WF_vars(Script(MainStep)) /\ WF_vars(Script(PeerStep))
    /\ WF_vars(Script(advertiseAsKeeper))
=============================================================================
