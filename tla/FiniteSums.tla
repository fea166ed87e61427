----------------------------- MODULE FiniteSums -----------------------------
(***************************************************************************)
(* What a sum over a finite set is worth when one of its terms changes:    *)
(* the facts the theorems about balances need of SumFunctionOnSet, the sum *)
(* of the values of a function over a set of indices.                      *)
(*                                                                         *)
(* The sum is defined by choosing one index after the other, so each fact  *)
(* is proved on a smallest set of indices that would break it, and so is   *)
(* what holds up to a number because each number passes it on.             *)
(***************************************************************************)
EXTENDS Integers, FiniteSetsExt, FiniteSetTheorems, TLAPS

Pick(s) == CHOOSE x \in s : TRUE

\* g holds the sum of f over every subset of S.
SumsOver(g, f, S) ==
    g = [s \in SUBSET S |-> IF s = {} THEN 0 ELSE f[Pick(s)] + g[s \ {Pick(s)}]]

\* Among the sets of indices that break something, one is smallest.
LEMMA Smallest ==
    ASSUME NEW S, IsFiniteSet(S), NEW Bad, Bad \subseteq SUBSET S, Bad # {}
    PROVE  \E T \in Bad : \A U \in SUBSET T : U # T => U \notin Bad
<1>1. IsWellFoundedOn(StrictSubsetOrdering(S), SUBSET S)
  BY FS_StrictSubsetOrderingWellFounded, FS_FiniteSubsetsOfFinite
<1>2. PICK T \in Bad : \A U \in Bad : ~ (<<U, T>> \in StrictSubsetOrdering(S))
  BY <1>1, WFMin
<1>3. ASSUME NEW U \in SUBSET T, U # T
      PROVE  U \notin Bad
  <2>1. <<U, T>> \in StrictSubsetOrdering(S)
    BY <1>3 DEF StrictSubsetOrdering
  <2> QED BY <1>2, <2>1
<1> QED BY <1>3

LEMMA PickIn ==
    ASSUME NEW s, s # {}
    PROVE  Pick(s) \in s
  BY DEF Pick

\* Two tables of sums of one function agree where both are defined.
LEMMA SumsAgree ==
    ASSUME NEW S, IsFiniteSet(S), NEW V \in SUBSET S, NEW f, NEW g, NEW h,
           SumsOver(g, f, S), SumsOver(h, f, V)
    PROVE  g[V] = h[V]
<1> DEFINE Bad == {W \in SUBSET V : g[W] # h[W]}
<1>1. SUFFICES ASSUME Bad # {} PROVE FALSE
  OBVIOUS
<1>2. IsFiniteSet(V)
  BY FS_Subset
<1>3. PICK T \in Bad : \A U \in SUBSET T : U # T => U \notin Bad
  <2>1. Bad \subseteq SUBSET V
    OBVIOUS
  <2> HIDE DEF Bad
  <2> QED BY <1>1, <1>2, <2>1, Smallest
<1>4. g[T] = IF T = {} THEN 0 ELSE f[Pick(T)] + g[T \ {Pick(T)}]
  BY DEF SumsOver
<1>5. h[T] = IF T = {} THEN 0 ELSE f[Pick(T)] + h[T \ {Pick(T)}]
  BY DEF SumsOver
<1>6. T # {}
  BY <1>4, <1>5
<1>7. T \ {Pick(T)} \in SUBSET T /\ T \ {Pick(T)} # T
  BY <1>6, PickIn
<1>8. g[T \ {Pick(T)}] = h[T \ {Pick(T)}]
  BY <1>3, <1>7
<1> QED BY <1>4, <1>5, <1>8

LEMMA SumChosen ==
    ASSUME NEW f, NEW S
    PROVE  SumFunctionOnSet(f, S) = (CHOOSE g : SumsOver(g, f, S))[S]
  BY DEF SumFunctionOnSet, FoldFunctionOnSet, MapThenFoldSet, SumsOver, Pick

\* A table of sums of a set and those of its parts agree with SumFunctionOnSet.
LEMMA SumRead ==
    ASSUME NEW S, IsFiniteSet(S), NEW V \in SUBSET S, NEW f, NEW g, SumsOver(g, f, S),
           \E h : SumsOver(h, f, V)
    PROVE  g[V] = SumFunctionOnSet(f, V)
<1>1. SumsOver(CHOOSE h : SumsOver(h, f, V), f, V)
  OBVIOUS
<1> QED BY <1>1, SumsAgree, SumChosen

\* Every finite set has a table of sums.
LEMMA SumsExist ==
    ASSUME NEW f, NEW S, IsFiniteSet(S)
    PROVE  \E g : SumsOver(g, f, S)
<1> DEFINE Bad == {T \in SUBSET S : ~ \E g : SumsOver(g, f, T)}
<1>1. SUFFICES ASSUME Bad # {} PROVE FALSE
  OBVIOUS
<1>2. PICK T \in Bad : \A U \in SUBSET T : U # T => U \notin Bad
  <2>1. Bad \subseteq SUBSET S
    OBVIOUS
  <2> HIDE DEF Bad
  <2> QED BY <1>1, <2>1, Smallest
<1>3. ASSUME NEW U \in SUBSET T, U # T
      PROVE  \E g : SumsOver(g, f, U)
  BY <1>2, <1>3
<1> DEFINE Next(s) == IF s = {} THEN 0 ELSE f[Pick(s)] + SumFunctionOnSet(f, s \ {Pick(s)})
           h == [s \in SUBSET T |-> Next(s)]
<1>4. ASSUME NEW U \in SUBSET T, U # T
      PROVE  h[U] = SumFunctionOnSet(f, U)
  <2>1. PICK g : SumsOver(g, f, U)
    BY <1>3, <1>4
  <2>2. IsFiniteSet(U)
    BY FS_Subset
  <2>3. g[U] = SumFunctionOnSet(f, U)
    BY <2>1, <2>2, SumRead
  <2>4. g[U] = IF U = {} THEN 0 ELSE f[Pick(U)] + g[U \ {Pick(U)}]
    BY <2>1 DEF SumsOver
  <2>5. CASE U = {}
    BY <2>3, <2>4, <2>5
  <2>6. CASE U # {}
    <3>1. U \ {Pick(U)} \in SUBSET U /\ U \ {Pick(U)} # T
      BY <2>6, PickIn
    <3>2. g[U \ {Pick(U)}] = SumFunctionOnSet(f, U \ {Pick(U)})
      BY <1>3, <2>1, <2>2, <3>1, SumRead
    <3> QED BY <2>3, <2>4, <2>6, <3>2
  <2> QED BY <2>5, <2>6
<1>5. ASSUME NEW s \in SUBSET T
      PROVE  Next(s) = IF s = {} THEN 0 ELSE f[Pick(s)] + h[s \ {Pick(s)}]
  <2>1. CASE s = {}
    BY <2>1
  <2>2. CASE s # {}
    <3>1. s \ {Pick(s)} \in SUBSET T /\ s \ {Pick(s)} # T
      BY <2>2, PickIn
    <3>2. h[s \ {Pick(s)}] = SumFunctionOnSet(f, s \ {Pick(s)})
      BY <1>4, <3>1
    <3> HIDE DEF h
    <3> QED BY <2>2, <3>2
  <2> QED BY <2>1, <2>2
<1>6. h = [s \in SUBSET T |-> IF s = {} THEN 0 ELSE f[Pick(s)] + h[s \ {Pick(s)}]]
  <2> DEFINE k == [s \in SUBSET T |-> IF s = {} THEN 0 ELSE f[Pick(s)] + h[s \ {Pick(s)}]]
  <2>1. \A s \in SUBSET T : h[s] = k[s]
    BY <1>5
  <2> QED BY <2>1
<1>7. SumsOver(h, f, T)
  <2> HIDE DEF h
  <2> QED BY <1>6 DEF SumsOver
<1> HIDE DEF h
<1> QED BY <1>7

-----------------------------------------------------------------------------
(* The facts other modules cite.                                           *)

\* The sum takes one index out and adds its value.
LEMMA SumUnfold ==
    ASSUME NEW f, NEW S, IsFiniteSet(S), S # {}
    PROVE  SumFunctionOnSet(f, S) = f[Pick(S)] + SumFunctionOnSet(f, S \ {Pick(S)})
<1>1. PICK g : SumsOver(g, f, S)
  BY SumsExist
<1>2. g[S] = SumFunctionOnSet(f, S)
  BY <1>1, SumRead
<1>3. S \ {Pick(S)} \in SUBSET S /\ IsFiniteSet(S \ {Pick(S)})
  BY FS_Subset
<1>4. g[S \ {Pick(S)}] = SumFunctionOnSet(f, S \ {Pick(S)})
  BY <1>1, <1>3, SumsExist, SumRead
<1> QED BY <1>1, <1>2, <1>4 DEF SumsOver

LEMMA SumEmpty ==
    ASSUME NEW f
    PROVE  SumFunctionOnSet(f, {}) = 0
<1>1. IsFiniteSet({})
  BY FS_EmptySet
<1>2. PICK g : SumsOver(g, f, {})
  BY <1>1, SumsExist
<1>3. g[{}] = SumFunctionOnSet(f, {})
  BY <1>1, <1>2, SumRead
<1> QED BY <1>2, <1>3 DEF SumsOver

LEMMA SumNat ==
    ASSUME NEW f, NEW S, IsFiniteSet(S), \A x \in S : f[x] \in Nat
    PROVE  SumFunctionOnSet(f, S) \in Nat
<1> DEFINE Bad == {T \in SUBSET S : SumFunctionOnSet(f, T) \notin Nat}
<1>1. SUFFICES ASSUME Bad # {} PROVE FALSE
  OBVIOUS
<1>2. PICK T \in Bad : \A U \in SUBSET T : U # T => U \notin Bad
  <2>1. Bad \subseteq SUBSET S
    OBVIOUS
  <2> HIDE DEF Bad
  <2> QED BY <1>1, <2>1, Smallest
<1>3. T # {}
  BY SumEmpty
<1>4. Pick(T) \in T /\ T \ {Pick(T)} \in SUBSET T /\ T \ {Pick(T)} # T
  BY <1>3, PickIn
<1>5. IsFiniteSet(T)
  BY FS_Subset
<1>6. SumFunctionOnSet(f, T) = f[Pick(T)] + SumFunctionOnSet(f, T \ {Pick(T)})
  BY <1>3, <1>5, SumUnfold
<1>7. SumFunctionOnSet(f, T \ {Pick(T)}) \in Nat
  BY <1>2, <1>4
<1> QED BY <1>4, <1>6, <1>7

\* Only the values on the set count.
LEMMA SumSame ==
    ASSUME NEW f, NEW g, NEW S, IsFiniteSet(S), \A x \in S : f[x] = g[x]
    PROVE  SumFunctionOnSet(f, S) = SumFunctionOnSet(g, S)
<1> DEFINE Bad == {T \in SUBSET S : SumFunctionOnSet(f, T) # SumFunctionOnSet(g, T)}
<1>1. SUFFICES ASSUME Bad # {} PROVE FALSE
  OBVIOUS
<1>2. PICK T \in Bad : \A U \in SUBSET T : U # T => U \notin Bad
  <2>1. Bad \subseteq SUBSET S
    OBVIOUS
  <2> HIDE DEF Bad
  <2> QED BY <1>1, <2>1, Smallest
<1>3. T # {}
  BY SumEmpty
<1>4. Pick(T) \in T /\ T \ {Pick(T)} \in SUBSET T /\ T \ {Pick(T)} # T
  BY <1>3, PickIn
<1>5. IsFiniteSet(T)
  BY FS_Subset
<1>6. /\ SumFunctionOnSet(f, T) = f[Pick(T)] + SumFunctionOnSet(f, T \ {Pick(T)})
      /\ SumFunctionOnSet(g, T) = g[Pick(T)] + SumFunctionOnSet(g, T \ {Pick(T)})
  BY <1>3, <1>5, SumUnfold
<1>7. SumFunctionOnSet(f, T \ {Pick(T)}) = SumFunctionOnSet(g, T \ {Pick(T)})
  BY <1>2, <1>4
<1> QED BY <1>4, <1>6, <1>7

\* Any index may be taken out, not only the one chosen.
LEMMA SumRemove ==
    ASSUME NEW f, NEW S, IsFiniteSet(S), \A y \in S : f[y] \in Nat, NEW x \in S
    PROVE  SumFunctionOnSet(f, S) = f[x] + SumFunctionOnSet(f, S \ {x})
<1> DEFINE Splits(T) ==
             \A y \in T : SumFunctionOnSet(f, T) = f[y] + SumFunctionOnSet(f, T \ {y})
           Bad == {T \in SUBSET S : ~ Splits(T)}
<1>1. SUFFICES ASSUME Bad # {} PROVE FALSE
  OBVIOUS
<1>2. PICK T \in Bad : \A U \in SUBSET T : U # T => U \notin Bad
  <2>1. Bad \subseteq SUBSET S
    OBVIOUS
  <2> HIDE DEF Bad
  <2> QED BY <1>1, <2>1, Smallest
<1>3. PICK y \in T : SumFunctionOnSet(f, T) # f[y] + SumFunctionOnSet(f, T \ {y})
  BY <1>2
<1> DEFINE c == Pick(T)
<1>4. c \in T
  BY <1>3, PickIn
<1>5. IsFiniteSet(T)
  BY FS_Subset
<1>6. SumFunctionOnSet(f, T) = f[c] + SumFunctionOnSet(f, T \ {c})
  BY <1>3, <1>5, SumUnfold
<1> HIDE DEF c
<1>7. y # c
  BY <1>3, <1>6
<1>8. SumFunctionOnSet(f, T \ {c}) = f[y] + SumFunctionOnSet(f, (T \ {c}) \ {y})
  BY <1>2, <1>3, <1>4, <1>7
<1>9. SumFunctionOnSet(f, T \ {y}) = f[c] + SumFunctionOnSet(f, (T \ {y}) \ {c})
  BY <1>2, <1>3, <1>4, <1>7
<1>10. (T \ {c}) \ {y} = (T \ {y}) \ {c} /\ (T \ {c}) \ {y} \in SUBSET S
  OBVIOUS
<1>11. SumFunctionOnSet(f, (T \ {c}) \ {y}) \in Nat
  <2>1. IsFiniteSet((T \ {c}) \ {y})
    BY <1>10, FS_Subset
  <2> QED BY <1>10, <2>1, SumNat
<1>12. f[c] \in Nat /\ f[y] \in Nat
  BY <1>3, <1>4
<1> QED BY <1>3, <1>6, <1>8, <1>9, <1>10, <1>11, <1>12

\* An index put in adds its value.
LEMMA SumAdd ==
    ASSUME NEW f, NEW S, IsFiniteSet(S), NEW x, x \notin S, \A y \in S \union {x} : f[y] \in Nat
    PROVE  SumFunctionOnSet(f, S \union {x}) = f[x] + SumFunctionOnSet(f, S)
<1>1. IsFiniteSet(S \union {x})
  BY FS_AddElement
<1>2. (S \union {x}) \ {x} = S
  OBVIOUS
<1> QED BY <1>1, <1>2, SumRemove

\* A value that changes moves the sum by as much.
LEMMA SumChange ==
    ASSUME NEW f, NEW g, NEW S, IsFiniteSet(S), NEW x \in S,
           \A y \in S : f[y] \in Nat /\ g[y] \in Nat,
           \A y \in S \ {x} : f[y] = g[y]
    PROVE  SumFunctionOnSet(g, S) + f[x] = SumFunctionOnSet(f, S) + g[x]
<1>1. IsFiniteSet(S \ {x})
  BY FS_Subset
<1>2. SumFunctionOnSet(f, S \ {x}) = SumFunctionOnSet(g, S \ {x})
  BY <1>1, SumSame
<1>3. SumFunctionOnSet(f, S \ {x}) \in Nat
  BY <1>1, SumNat
<1>4. /\ SumFunctionOnSet(f, S) = f[x] + SumFunctionOnSet(f, S \ {x})
      /\ SumFunctionOnSet(g, S) = g[x] + SumFunctionOnSet(g, S \ {x})
  BY SumRemove
<1>5. f[x] \in Nat /\ g[x] \in Nat
  OBVIOUS
<1> QED BY <1>2, <1>3, <1>4, <1>5

\* A sum of natural numbers is at least each of them.
LEMMA SumBound ==
    ASSUME NEW f, NEW S, IsFiniteSet(S), \A y \in S : f[y] \in Nat, NEW x \in S
    PROVE  f[x] <= SumFunctionOnSet(f, S)
<1>1. SumFunctionOnSet(f, S \ {x}) \in Nat
  <2>1. IsFiniteSet(S \ {x})
    BY FS_Subset
  <2> QED BY <2>1, SumNat
<1>2. SumFunctionOnSet(f, S) = f[x] + SumFunctionOnSet(f, S \ {x}) /\ f[x] \in Nat
  BY SumRemove
<1> QED BY <1>1, <1>2

\* A sum of zeros is zero.
LEMMA SumZero ==
    ASSUME NEW f, NEW S, IsFiniteSet(S), \A x \in S : f[x] = 0
    PROVE  SumFunctionOnSet(f, S) = 0
<1> DEFINE Bad == {T \in SUBSET S : SumFunctionOnSet(f, T) # 0}
<1>1. SUFFICES ASSUME Bad # {} PROVE FALSE
  OBVIOUS
<1>2. PICK T \in Bad : \A U \in SUBSET T : U # T => U \notin Bad
  <2>1. Bad \subseteq SUBSET S
    OBVIOUS
  <2> HIDE DEF Bad
  <2> QED BY <1>1, <2>1, Smallest
<1>3. T # {}
  BY SumEmpty
<1>4. Pick(T) \in T /\ T \ {Pick(T)} \in SUBSET T /\ T \ {Pick(T)} # T
  BY <1>3, PickIn
<1>5. IsFiniteSet(T)
  BY FS_Subset
<1>6. SumFunctionOnSet(f, T) = f[Pick(T)] + SumFunctionOnSet(f, T \ {Pick(T)})
  BY <1>3, <1>5, SumUnfold
<1> QED BY <1>2, <1>4, <1>6

-----------------------------------------------------------------------------
(* Induction, on sets: what holds of 0 and is passed on holds up to n.     *)

LEMMA UpTo ==
    ASSUME NEW n \in Nat, NEW Good, 0 \in Good,
           \A k \in 0 .. n - 1 : k \in Good => k + 1 \in Good
    PROVE  0 .. n \subseteq Good
<1> DEFINE Bad == {T \in SUBSET (0 .. n) : \E k \in (0 .. n) \ Good : T = 0 .. k}
<1>1. SUFFICES ASSUME NEW i \in 0 .. n, i \notin Good PROVE FALSE
  OBVIOUS
<1>2. IsFiniteSet(0 .. n) /\ Bad \subseteq SUBSET (0 .. n)
  BY FS_Interval
<1>3. Bad # {}
  <2>1. 0 .. i \in SUBSET (0 .. n) /\ i \in (0 .. n) \ Good
    BY <1>1
  <2> QED BY <2>1
<1>4. PICK T \in Bad : \A U \in SUBSET T : U # T => U \notin Bad
  <2> HIDE DEF Bad
  <2> QED BY <1>2, <1>3, Smallest
<1>5. PICK k \in (0 .. n) \ Good : T = 0 .. k
  BY <1>4
<1>6. k # 0 /\ k - 1 \in 0 .. n - 1 /\ (k - 1) + 1 = k
  BY <1>5
<1>7. k - 1 \notin Good
  BY <1>5, <1>6
<1>8. 0 .. k - 1 \in SUBSET T /\ 0 .. k - 1 # T
  <2>1. k \in 0 .. k /\ k \notin 0 .. k - 1
    BY <1>5
  <2> QED BY <1>5, <2>1
<1>9. 0 .. k - 1 \in Bad
  <2>1. k - 1 \in (0 .. n) \ Good /\ 0 .. k - 1 \in SUBSET (0 .. n)
    BY <1>5, <1>6, <1>7
  <2> QED BY <2>1
<1> QED BY <1>4, <1>8, <1>9

\* The first n values of f are those r has at the indices g gives, each of
\* which it gives once, and r has no other.
Reindexes(g, n, f, r, A) ==
    /\ \A i \in 1 .. n : g[i] \in A /\ f[i] = r[g[i]]
    /\ \A i, j \in 1 .. n : g[i] = g[j] => i = j
    /\ \A a \in A : r[a] \in Nat
    /\ \A a \in A : (\A i \in 1 .. n : g[i] # a) => r[a] = 0

\* They add up to the same.
LEMMA SumThrough ==
    ASSUME NEW A, IsFiniteSet(A), NEW n \in Nat, NEW g, NEW f, NEW r, Reindexes(g, n, f, r, A)
    PROVE  SumFunctionOnSet(r, A) = SumFunctionOnSet(f, 1 .. n)
<1>0. /\ \A i \in 1 .. n : g[i] \in A /\ f[i] = r[g[i]]
      /\ \A i, j \in 1 .. n : g[i] = g[j] => i = j
      /\ \A a \in A : r[a] \in Nat
      /\ \A a \in A : (\A i \in 1 .. n : g[i] # a) => r[a] = 0
  BY DEF Reindexes
<1> DEFINE Reached(a, k) == \E i \in 1 .. k : g[i] = a
           part(k) == [a \in A |-> IF Reached(a, k) THEN r[a] ELSE 0]
           Good == {k \in 0 .. n : SumFunctionOnSet(part(k), A) = SumFunctionOnSet(f, 1 .. k)}
<1>1. 0 \in Good
  <2>1. \A a \in A : part(0)[a] = 0
    OBVIOUS
  <2>2. 1 .. 0 = {} /\ 0 \in 0 .. n
    OBVIOUS
  <2> HIDE DEF part
  <2>3. SumFunctionOnSet(part(0), A) = 0
    BY <2>1, SumZero
  <2> QED BY <2>2, <2>3, SumEmpty
<1>2. ASSUME NEW k \in 0 .. n - 1, k \in Good
      PROVE  k + 1 \in Good
  <2> DEFINE x == g[k + 1]
  <2>1. k + 1 \in 1 .. n /\ k + 1 \in 0 .. n /\ k + 1 \notin 1 .. k /\ 1 .. k + 1 = (1 .. k) \union {k + 1}
    OBVIOUS
  <2>2. x \in A /\ f[k + 1] = r[x]
    BY <1>0, <2>1
  <2>3. ~ Reached(x, k) /\ Reached(x, k + 1)
    BY <1>0, <2>1
  <2>4. ASSUME NEW a \in A, a # x
        PROVE  Reached(a, k) <=> Reached(a, k + 1)
    BY <2>1, <2>4
  <2> HIDE DEF x, Reached
  <2>5. part(k)[x] = 0 /\ part(k + 1)[x] = r[x]
    BY <2>2, <2>3
  <2>6. \A a \in A \ {x} : part(k)[a] = part(k + 1)[a]
    BY <2>4
  <2>7. \A a \in A : part(k)[a] \in Nat /\ part(k + 1)[a] \in Nat
    BY <1>0
  <2> HIDE DEF part
  <2>8. SumFunctionOnSet(part(k + 1), A) + part(k)[x] = SumFunctionOnSet(part(k), A) + part(k + 1)[x]
    BY <2>2, <2>6, <2>7, SumChange
  <2>9. IsFiniteSet(1 .. k) /\ \A i \in (1 .. k) \union {k + 1} : f[i] \in Nat
    <3>1. \A i \in 1 .. n : f[i] \in Nat
      BY <1>0
    <3>2. (1 .. k) \union {k + 1} \subseteq 1 .. n
      OBVIOUS
    <3> QED BY <3>1, <3>2, FS_Interval
  <2>10. SumFunctionOnSet(f, (1 .. k) \union {k + 1}) = f[k + 1] + SumFunctionOnSet(f, 1 .. k)
    BY <2>1, <2>9, SumAdd
  <2>11. SumFunctionOnSet(part(k), A) = SumFunctionOnSet(f, 1 .. k)
    BY <1>2
  <2>12. SumFunctionOnSet(part(k), A) \in Nat /\ SumFunctionOnSet(part(k + 1), A) \in Nat
    BY <2>7, SumNat
  <2>13. r[x] \in Nat
    BY <1>0, <2>2
  <2>14. SumFunctionOnSet(f, 1 .. k + 1) = f[k + 1] + SumFunctionOnSet(f, 1 .. k)
    BY <2>1, <2>10
  <2>15. SumFunctionOnSet(part(k + 1), A) = SumFunctionOnSet(f, 1 .. k + 1)
    BY <2>2, <2>5, <2>8, <2>11, <2>12, <2>13, <2>14
  <2> QED BY <2>1, <2>15
<1>3. n \in Good
  <2> HIDE DEF Good
  <2>1. 0 .. n \subseteq Good
    BY <1>1, <1>2, UpTo
  <2> QED BY <2>1
<1>4. \A a \in A : part(n)[a] = r[a]
  BY <1>0
<1>5. SumFunctionOnSet(part(n), A) = SumFunctionOnSet(f, 1 .. n)
  BY <1>3
<1> HIDE DEF part
<1>6. SumFunctionOnSet(part(n), A) = SumFunctionOnSet(r, A)
  BY <1>4, SumSame
<1> QED BY <1>5, <1>6
=============================================================================
