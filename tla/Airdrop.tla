------------------------------- MODULE Airdrop -------------------------------
(***************************************************************************)
(* The airdrop: lib/merkle turns a list of balances into a Merkle tree and *)
(* a claim with a proof for every account, ZeroDistributor.sol pays a      *)
(* claim that proves to be in the tree, once.                              *)
(*                                                                         *)
(* A hash is the value it is taken of: a node of the tree is a leaf or the *)
(* unordered pair of its children, since both sides sort before hashing.   *)
(* The order of the leaves is that of their hashes, which is any order.    *)
(***************************************************************************)
EXTENDS Integers, Sequences, SequencesExt

CONSTANTS
    Addresses,   \* numbers, in the order of the addresses
    Earnings,    \* as written, in decimal
    MaxEntries,  \* bound on the length of a list
    MaxProof     \* bound on the length of a proof somebody tries

ASSUME AirdropAssumption ==
    /\ Addresses \subseteq Nat /\ IsFiniteSet(Addresses)
    /\ Earnings \subseteq 0 .. 99
    /\ MaxEntries \in Nat
    /\ MaxProof \in Nat

VARIABLES
    format,      \* how the amounts of the list are given
    list,        \* the list: address and earnings
    elements,    \* leaves in the order of their hashes
    claimedBitMap,
    received     \* by address, paid out of the treasury

airdropVars == <<format, list, elements, claimedBitMap, received>>

-----------------------------------------------------------------------------
(* Trees.                                                                  *)

Leaf(index, account, amount) ==
    [leaf |-> <<index, account, amount>>, children |-> {}]

\* toNode and claim hash the same encoding.
toNode(index, account, amount) == Leaf(index, account, amount)

combinedHash(first, second) == [leaf |-> <<>>, children |-> {first, second}]

\* A layer from the one below; a last element without a pair moves up.
getNextLayer(layer) ==
    [i \in 1 .. (Len(layer) + 1) \div 2 |->
        IF 2 * i <= Len(layer) THEN combinedHash(layer[2 * i - 1], layer[2 * i])
        ELSE layer[2 * i - 1]]

\* The layers.  Every one is shorter than the one below, until there is one
\* element, so as many as there are leaves are enough; above the root they
\* repeat it.
getLayers(leaves) ==
    LET layer[k \in 0 .. Len(leaves)] ==
          IF k = 0 THEN leaves ELSE getNextLayer(layer[k - 1])
    IN layer

getRoot(leaves) == getLayers(leaves)[Len(leaves)][1]

\* Bug variant: the pair is always the element to the right.
getPairElementRight(index, layer) ==
    IF index + 1 < Len(layer) THEN <<layer[index + 2]>> ELSE <<>>

\* The other element of a pair, if there is one; index counts from zero.
getPairElement(index, layer) ==
    LET pair == IF index % 2 = 0 THEN index + 1 ELSE index - 1
    IN IF pair < Len(layer) THEN <<layer[pair + 1]>> ELSE <<>>

\* From layer to layer: the place in it, and the proof collected below it.
getProof(leaves, el) ==
    LET layers == getLayers(leaves)
        walk[k \in 0 .. Len(leaves) + 1] ==
          IF k = 0 THEN [idx |-> (CHOOSE i \in DOMAIN leaves : leaves[i] = el) - 1, proof |-> <<>>]
          ELSE LET below == walk[k - 1] IN
               [idx |-> below.idx \div 2,
                proof |-> below.proof \o getPairElement(below.idx, layers[k - 1])]
    IN walk[Len(leaves) + 1].proof

\* What a proof leads to from a node.
computedHash(node, proof) ==
    LET hash[k \in 0 .. Len(proof)] ==
          IF k = 0 THEN node ELSE combinedHash(hash[k - 1], proof[k])
    IN hash[Len(proof)]

\* MerkleProof.verify of the contract and verifyProof of the library.
verifyProof(node, proof, root) == computedHash(node, proof) = root

-----------------------------------------------------------------------------
(* parseBalanceMap.                                                        *)

\* The generator has its amounts as strings.  It builds two trees of its own,
\* with the decimals of the token, and returns neither.
useMerkleGenerator == "strings"

\* A number is written in hexadecimal first, and what a list in the new format
\* says is taken as written; a string of the old format is taken for
\* hexadecimal, so its decimal digits are read as hexadecimal ones.
Parsed(earnings) ==
    IF format = useMerkleGenerator THEN 16 * (earnings \div 10) + (earnings % 10) ELSE earnings

\* A list it takes: no address twice, every amount positive.
Valid(entries) ==
    /\ \A i, j \in DOMAIN entries : entries[i][1] = entries[j][1] => i = j
    /\ \A i \in DOMAIN entries : Parsed(entries[i][2]) > 0

\* Its claims, one for each place in the order of the addresses.
Claims ==
    [i \in DOMAIN list |-> [index |-> i - 1, account |-> list[i][1],
                            amount |-> Parsed(list[i][2])]]

Leaves == {toNode(Claims[i].index, Claims[i].account, Claims[i].amount) : i \in DOMAIN list}

merkleRoot == getRoot(elements)

ProofOf(c) == getProof(elements, toNode(c.index, c.account, c.amount))

tokenTotal == SumFunction([i \in DOMAIN list |-> Claims[i].amount])

\* The elements are sorted by their hashes, which is any order.
AirdropStart(how, entries) ==
    /\ format = how
    /\ list = entries
    /\ IF Valid(list) THEN elements \in SetToSeqs(Leaves) ELSE elements = <<>>
    /\ claimedBitMap = {}
    /\ received = [a \in Addresses |-> 0]

\* The list comes in the order of its addresses, in which it is sorted.
AirdropInit ==
    \E how \in {"numbers", useMerkleGenerator, "new"}, n \in 1 .. MaxEntries :
      \E entries \in [1 .. n -> Addresses \X Earnings] :
        /\ \A i, j \in DOMAIN entries : i < j => entries[i][1] <= entries[j][1]
        /\ AirdropStart(how, entries)

-----------------------------------------------------------------------------
(* ZeroDistributor.                                                        *)

\* Nodes anybody can compute, and what may be passed for a proof.
Nodes ==
    LET layers == getLayers(elements) IN UNION {Range(layers[k]) : k \in DOMAIN layers}

ProofsOfAnybody == UNION {[1 .. n -> Nodes] : n \in 0 .. MaxProof}

\* claim, called by anybody with anything.
Claim(index, account, amount) ==
    /\ elements # <<>>
    /\ index \notin claimedBitMap
    /\ LET root == merkleRoot IN
       \E proof \in ProofsOfAnybody : verifyProof(toNode(index, account, amount), proof, root)
    /\ claimedBitMap' = claimedBitMap \union {index}
    /\ received' = [received EXCEPT ![account] = @ + amount]
    /\ UNCHANGED <<format, list, elements>>

AirdropNext ==
    \E index \in 0 .. MaxEntries, account \in Addresses,
       amount \in Earnings \union {Parsed(e) : e \in Earnings} :
        Claim(index, account, amount)

-----------------------------------------------------------------------------
(* Properties.                                                             *)

\* Every claim comes with a proof the contract takes, whatever the order of
\* the hashes and the number of accounts; and an account has been paid its
\* claim if its place was claimed and nothing else, whatever places, accounts
\* and proofs the contract was called with; so all of it is tokenTotal, and
\* the amounts are those of the list unless they were given as strings
\* (getProof, parseBalanceMap, claim).
AirdropExact ==
    elements # <<>> =>
        /\ \A i \in DOMAIN list :
             LET c == Claims[i] IN
             /\ verifyProof(toNode(c.index, c.account, c.amount), ProofOf(c), merkleRoot)
             /\ received[c.account] = IF c.index \in claimedBitMap THEN c.amount ELSE 0
             /\ format # useMerkleGenerator => c.amount = list[i][2]
        /\ \A a \in Addresses :
             (\A i \in DOMAIN list : list[i][1] # a) => received[a] = 0
        /\ claimedBitMap = {Claims[i].index : i \in DOMAIN list} =>
             SumFunction(received) = tokenTotal
=============================================================================
