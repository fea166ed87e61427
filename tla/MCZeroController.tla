-------------------------- MODULE MCZeroController --------------------------
(* Small instances of the loan desk for TLC.                               *)
EXTENDS ZeroController, TLC

CONSTANTS a, b,        \* users
          k1, k2,      \* underwriters
          conv, quick, \* a converting and a quick module
          n1, n2,      \* nonces
          h1, h2,      \* nHashes
          exe          \* a meta executor

R(to, amount, m, n) == [to |-> to, amount |-> amount, module |-> m, nonce |-> n]

\* Two amounts of one user on one nonce, the larger signed for two
\* underwriters in turn.
TwoAmounts == {R(a, 40, conv, n1), R(a, 30, conv, n1)}
TwoAmountsSigned == {<<R(a, 40, conv, n1), k1>>, <<R(a, 40, conv, n1), k2>>,
                     <<R(a, 30, conv, n1), k1>>}

\* Two users on one nonce of a converting and of a quick module.
SharedNonce == {R(a, 40, conv, n1), R(b, 30, conv, n1),
                R(b, 40, quick, n1), R(a, 30, quick, n1)}
SharedNonceByOne == SharedNonce \X {k1}

\* Two users on one nonce of a converting module, the second on that nonce of
\* a quick module, too.
Colliding == {R(a, 40, conv, n1), R(b, 30, conv, n1), R(b, 40, quick, n1)}
CollidingByOne == Colliding \X {k1}

\* Two converting requests of one user; the first was signed for two
\* underwriters in turn.
TwoOfOneUser == {R(a, 40, conv, n1), R(a, 40, conv, n2)}
TwoOfOneUserByOne == TwoOfOneUser \X {k1}
Retargeted == {<<R(a, 40, conv, n1), k1>>, <<R(a, 40, conv, n1), k2>>,
               <<R(a, 40, conv, n2), k1>>}

\* nHashes are only compared with one another.
SymmetricIds == Permutations(DepositIds)

\* Trades and estimates that lose.
Losing == {-1}

Timeouts == [m \in Modules |-> 1]
NoTimeouts == [m \in Modules |-> 0]
=============================================================================
