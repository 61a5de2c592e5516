----------------------------- MODULE NatLemmas -----------------------------
(***************************************************************************)
(* Facts about natural numbers and finite sets that all the proofs rest on: *)
(* least elements, induction over sets of numbers and over subsets,        *)
(* recursive functions, powers of two, sums over finite sets, ascending     *)
(* orders, and the counting of elements, pairs and runs.                   *)
(***************************************************************************)
EXTENDS Powers, TLAPS, WellFoundedInduction, FiniteSetTheorems

\* A nonempty set of natural numbers has a least element.
LEMMA NatLeast ==
    ASSUME NEW T \in SUBSET Nat, T # {}
    PROVE  \E x \in T : \A y \in T : x <= y
<1>1. OpToRel(<, Nat) = {ss \in Nat \X Nat : ss[1] < ss[2]}
    BY Zenon DEF OpToRel
<1>2. IsWellFoundedOn(OpToRel(<, Nat), Nat)
    BY NatLessThanWellFounded
<1>3. PICK x \in T : \A y \in T : ~(<<y, x>> \in OpToRel(<, Nat))
    BY <1>2, WFMin
<1>4. \A y \in T : ~(<<y, x>> \in {ss \in Nat \X Nat : ss[1] < ss[2]})
    BY <1>1, <1>3
<1>5. ASSUME NEW y \in T PROVE x <= y
    <2>1. x \in Nat /\ y \in Nat
        OBVIOUS
    <2>2. y < x => <<y, x>> \in {ss \in Nat \X Nat : ss[1] < ss[2]}
        BY <2>1
    <2> QED BY <2>1, <2>2, <1>4
<1> QED BY <1>5

\* Induction, with the induction hypothesis as a set.
LEMMA SetInduction ==
    ASSUME NEW T \in SUBSET Nat, 0 \in T, \A n \in T : n + 1 \in T
    PROVE  T = Nat
<1>1. SUFFICES ASSUME Nat \ T # {} PROVE FALSE
    OBVIOUS
<1>2. PICK x \in Nat \ T : \A y \in Nat \ T : x <= y
    BY <1>1, NatLeast
<1>3. x # 0 /\ x - 1 \in Nat
    BY <1>2
<1>4. x - 1 \in T
    BY <1>2, <1>3
<1> QED BY <1>2, <1>3, <1>4

\* The same up to a bound.
LEMMA BoundedInduction ==
    ASSUME NEW n \in Nat, NEW T, 0 \in T, \A i \in 0..(n - 1) : i \in T => i + 1 \in T
    PROVE  \A i \in 0..n : i \in T
<1> DEFINE U == {i \in Nat : i <= n => i \in T}
<1>1. 0 \in U
    OBVIOUS
<1>2. \A i \in U : i + 1 \in U
    OBVIOUS
<1>3. U = Nat
    BY <1>1, <1>2, SetInduction
<1> QED BY <1>3

-----------------------------------------------------------------------------

LEMMA DivMod ==
    ASSUME NEW a \in Nat, NEW b \in Nat \ {0}
    PROVE  /\ a \div b \in Nat
           /\ a % b \in 0..(b - 1)
           /\ a = (b * (a \div b)) + (a % b)
OBVIOUS

LEMMA TimesMonotone ==
    ASSUME NEW a \in Nat, NEW b \in Nat, NEW c \in Nat, a <= b
    PROVE  a * c <= b * c /\ c * a <= c * b
OBVIOUS

\* Quotient and remainder are the only ones.
LEMMA DivModUnique ==
    ASSUME NEW m \in Nat, NEW b \in Nat \ {0}, NEW r \in 0..(b - 1)
    PROVE  (m * b + r) \div b = m /\ (m * b + r) % b = r
<1> DEFINE q == (m * b + r) \div b
           s == (m * b + r) % b
<1>1. m * b + r \in Nat /\ m * b \in Nat
    OBVIOUS
<1>2. q \in Nat /\ s \in 0..(b - 1) /\ m * b + r = b * q + s
    BY <1>1, DivMod
<1> HIDE DEF q, s
<1>3. q * b \in Nat /\ b * q = q * b /\ (m + 1) * b = m * b + b
      /\ (q + 1) * b = q * b + b
    BY <1>2
<1>4. ~(q > m)
    <2>1. SUFFICES ASSUME q >= m + 1 PROVE FALSE
        BY <1>2
    <2>2. (m + 1) * b <= q * b
        BY <2>1, <1>2, TimesMonotone
    <2> QED BY <2>2, <1>2, <1>3
<1>5. ~(q < m)
    <2>1. SUFFICES ASSUME q + 1 <= m PROVE FALSE
        BY <1>2
    <2>2. (q + 1) * b <= m * b
        BY <2>1, <1>2, TimesMonotone
    <2> QED BY <2>2, <1>2, <1>3, <1>1
<1>6. q = m
    BY <1>2, <1>4, <1>5
<1>7. s = r
    BY <1>1, <1>2, <1>3, <1>6
<1> QED BY <1>6, <1>7 DEF q, s

-----------------------------------------------------------------------------

\* A prefix of the sequence that starts with a and steps by S.
Follows(g, n, a, S) == g[0] = a /\ \A i \in 0..(n - 1) : g[i + 1] = S[i][g[i]]

LEMMA PrefixExists ==
    ASSUME NEW V, NEW a \in V, NEW S \in [Nat -> [V -> V]]
    PROVE  \A n \in Nat : \E g \in [0..n -> V] : Follows(g, n, a, S)
<1> DEFINE T == {n \in Nat : \E g \in [0..n -> V] : Follows(g, n, a, S)}
<1>1. 0 \in T
    <2> DEFINE g == [i \in 0..0 |-> a]
    <2>1. g \in [0..0 -> V] /\ Follows(g, 0, a, S)
        BY DEF Follows
    <2> HIDE DEF g
    <2> QED BY <2>1
<1>2. ASSUME NEW n \in T PROVE n + 1 \in T
    <2>1. PICK g \in [0..n -> V] : Follows(g, n, a, S)
        OBVIOUS
    <2> DEFINE h == [i \in 0..(n + 1) |-> IF i = n + 1 THEN S[n][g[n]] ELSE g[i]]
    <2>2. h \in [0..(n + 1) -> V]
        OBVIOUS
    <2>3. h[0] = a
        BY <2>1 DEF Follows
    <2>4. ASSUME NEW i \in 0..n PROVE h[i + 1] = S[i][h[i]]
        BY <2>1 DEF Follows
    <2> HIDE DEF h
    <2>5. Follows(h, n + 1, a, S)
        <3>1. 0..((n + 1) - 1) = 0..n
            OBVIOUS
        <3> QED BY <2>3, <2>4, <3>1 DEF Follows
    <2> QED BY <2>2, <2>5
<1> HIDE DEF T
<1>3. T = Nat
    BY <1>1, <1>2, SetInduction DEF T
<1> QED BY <1>3 DEF T

LEMMA PrefixUnique ==
    ASSUME NEW a, NEW S, NEW m \in Nat, NEW n \in Nat, m <= n, NEW g, NEW h,
           Follows(g, m, a, S), Follows(h, n, a, S)
    PROVE  \A i \in 0..m : g[i] = h[i]
<1> DEFINE T == {i \in 0..m : g[i] = h[i]}
<1>1. 0 \in T
    BY DEF Follows
<1>2. \A i \in 0..(m - 1) : i \in T => i + 1 \in T
    BY DEF Follows
<1> HIDE DEF T
<1>3. \A i \in 0..m : i \in T
    BY <1>1, <1>2, BoundedInduction
<1> QED BY <1>3 DEF T

FollowsAll(f, a, S) == f[0] = a /\ \A n \in Nat : f[n + 1] = S[n][f[n]]

\* Definition by recursion: the sequence exists.
LEMMA RecursionExists ==
    ASSUME NEW V, NEW a \in V, NEW S \in [Nat -> [V -> V]]
    PROVE  \E f \in [Nat -> V] : FollowsAll(f, a, S)
<1> DEFINE G(n) == CHOOSE g \in [0..n -> V] : Follows(g, n, a, S)
           f == [n \in Nat |-> G(n)[n]]
<1>1. ASSUME NEW n \in Nat PROVE G(n) \in [0..n -> V] /\ Follows(G(n), n, a, S)
    BY PrefixExists
<1>2. f \in [Nat -> V]
    BY <1>1
<1>3. f[0] = a
    BY <1>1 DEF Follows
<1>4. ASSUME NEW n \in Nat PROVE f[n + 1] = S[n][f[n]]
    <2>1. G(n + 1)[n] = G(n)[n]
        <3> HIDE DEF G
        <3> QED BY <1>1, PrefixUnique
    <2>2. G(n + 1)[n + 1] = S[n][G(n + 1)[n]]
        <3> HIDE DEF G
        <3>1. Follows(G(n + 1), n + 1, a, S)
            BY <1>1
        <3> QED BY <3>1 DEF Follows
    <2> QED BY <2>1, <2>2
<1> HIDE DEF f
<1>5. FollowsAll(f, a, S)
    BY <1>3, <1>4 DEF FollowsAll
<1> QED BY <1>2, <1>5
-----------------------------------------------------------------------------
\* Powers of two.

LEMMA Pow2Equation ==
    /\ Pow2 \in [Nat -> Nat]
    /\ Pow2[0] = 1
    /\ \A n \in Nat : Pow2[n + 1] = 2 * Pow2[n]
<1> DEFINE Twice == [n \in Nat |-> [v \in Nat |-> 2 * v]]
           Eqn(f) == f = [n \in Nat |-> IF n = 0 THEN 1 ELSE 2 * f[n - 1]]
<1>1. PICK f \in [Nat -> Nat] :
          f[0] = 1 /\ \A n \in Nat : f[n + 1] = Twice[n][f[n]]
    <2> DEFINE V == Nat
    <2>1. Twice \in [Nat -> [V -> V]] /\ 1 \in V
        OBVIOUS
    <2> HIDE DEF V, Twice
    <2>2. \E f \in [Nat -> V] : FollowsAll(f, 1, Twice)
        BY <2>1, RecursionExists
    <2> QED BY <2>2 DEF V, FollowsAll
<1>2. \A n \in Nat : f[n] = IF n = 0 THEN 1 ELSE 2 * f[n - 1]
    <2> SUFFICES ASSUME NEW n \in Nat, n # 0 PROVE f[n] = 2 * f[n - 1]
        BY <1>1
    <2>1. n - 1 \in Nat /\ (n - 1) + 1 = n
        OBVIOUS
    <2> QED BY <2>1, <1>1
<1>3. f = [n \in Nat |-> f[n]]
    OBVIOUS
<1>4. Eqn(f)
    BY <1>2, <1>3
<1>5. Eqn(CHOOSE g : Eqn(g))
    <2> HIDE DEF Eqn
    <2> QED BY <1>4
<1>6. Pow2 = CHOOSE g : Eqn(g)
    BY DEF Pow2
<1>7. Pow2 = [n \in Nat |-> IF n = 0 THEN 1 ELSE 2 * Pow2[n - 1]]
    BY <1>5, <1>6
<1>8. Pow2[0] = 1
    BY <1>7
<1>9. ASSUME NEW n \in Nat PROVE Pow2[n + 1] = 2 * Pow2[n]
    BY <1>7
<1>10. ASSUME NEW n \in Nat PROVE Pow2[n] \in Nat
    <2> DEFINE T == {m \in Nat : Pow2[m] \in Nat}
    <2>1. 0 \in T
        BY <1>8
    <2>2. \A m \in T : m + 1 \in T
        BY <1>9
    <2> HIDE DEF T
    <2>3. T = Nat
        BY <2>1, <2>2, SetInduction DEF T
    <2> QED BY <2>3 DEF T
<1>11. DOMAIN Pow2 = Nat /\ Pow2 = [n \in DOMAIN Pow2 |-> Pow2[n]]
    BY <1>7
<1> QED BY <1>8, <1>9, <1>10, <1>11

LEMMA Pow2Positive ==
    ASSUME NEW n \in Nat
    PROVE  Pow2[n] \in Nat \ {0} /\ n < Pow2[n]
<1> DEFINE T == {m \in Nat : Pow2[m] \in Nat \ {0} /\ m < Pow2[m]}
<1>1. 0 \in T
    BY Pow2Equation
<1>2. \A m \in T : m + 1 \in T
    BY Pow2Equation
<1> HIDE DEF T
<1>3. T = Nat
    BY <1>1, <1>2, SetInduction DEF T
<1> QED BY <1>3 DEF T

LEMMA Pow2Sum ==
    ASSUME NEW m \in Nat, NEW n \in Nat
    PROVE  Pow2[m + n] = Pow2[m] * Pow2[n]
<1> DEFINE T == {k \in Nat : Pow2[m + k] = Pow2[m] * Pow2[k]}
<1>1. 0 \in T
    BY Pow2Equation
<1>2. ASSUME NEW k \in T PROVE k + 1 \in T
    <2>1. k \in Nat /\ Pow2[m] \in Nat /\ Pow2[k] \in Nat
        BY Pow2Equation
    <2>2. Pow2[m + (k + 1)] = 2 * Pow2[m + k] /\ Pow2[k + 1] = 2 * Pow2[k]
        <3>1. m + k \in Nat /\ m + (k + 1) = (m + k) + 1
            BY <2>1
        <3> QED BY <2>1, <3>1, Pow2Equation
    <2>3. Pow2[m + k] = Pow2[m] * Pow2[k]
        OBVIOUS
    <2>4. 2 * (Pow2[m] * Pow2[k]) = Pow2[m] * (2 * Pow2[k])
        BY <2>1
    <2> QED BY <2>1, <2>2, <2>3, <2>4
<1> HIDE DEF T
<1>3. T = Nat
    BY <1>1, <1>2, SetInduction DEF T
<1> QED BY <1>3 DEF T

LEMMA Pow2Monotone ==
    ASSUME NEW m \in Nat, NEW n \in Nat, m <= n
    PROVE  Pow2[m] <= Pow2[n] /\ (m < n => 2 * Pow2[m] <= Pow2[n])
<1> DEFINE T == {k \in Nat : /\ Pow2[m] <= Pow2[m + k]
                             /\ k > 0 => 2 * Pow2[m] <= Pow2[m + k]}
<1>1. 0 \in T
    BY Pow2Equation
<1>2. ASSUME NEW k \in T PROVE k + 1 \in T
    <2>1. k \in Nat /\ m + k \in Nat /\ m + (k + 1) = (m + k) + 1
        OBVIOUS
    <2>2. Pow2[m + (k + 1)] = 2 * Pow2[m + k]
        BY <2>1, Pow2Equation
    <2>3. Pow2[m] \in Nat /\ Pow2[m + k] \in Nat
        BY <2>1, Pow2Equation
    <2> QED BY <2>1, <2>2, <2>3
<1> HIDE DEF T
<1>3. T = Nat
    BY <1>1, <1>2, SetInduction DEF T
<1>4. PICK k \in Nat : m + k = n
    <2>1. n - m \in Nat /\ m + (n - m) = n
        OBVIOUS
    <2> QED BY <2>1
<1>5. k \in T
    BY <1>3
<1> QED BY <1>4, <1>5 DEF T
-----------------------------------------------------------------------------
(* Sums over finite sets, as the folds of the community modules compute them *)

\* The elements one by one, each time some element of what is left.
Sums(it, g, S) ==
    it = [s \in SUBSET S |->
             IF s = {} THEN 0
             ELSE g[CHOOSE x \in s : TRUE] + it[s \ {CHOOSE x \in s : TRUE}]]

\* Induction on the number of elements of a subset.
LEMMA SubsetInduction ==
    ASSUME NEW S, IsFiniteSet(S), NEW T \in SUBSET (SUBSET S), {} \in T,
           \A s \in SUBSET S :
               s # {} /\ (\A x \in s : s \ {x} \in T) => s \in T
    PROVE  \A s \in SUBSET S : s \in T
<1> DEFINE N == {n \in Nat : \A s \in SUBSET S : Cardinality(s) = n => s \in T}
<1>0. \A s \in SUBSET S : IsFiniteSet(s) /\ Cardinality(s) \in Nat
    BY FS_Subset, FS_CardinalityType
<1>1. 0 \in N
    BY <1>0, FS_EmptySet
<1>2. ASSUME NEW n \in N PROVE n + 1 \in N
    <2>1. SUFFICES ASSUME NEW s \in SUBSET S, Cardinality(s) = n + 1
                   PROVE  s \in T
        OBVIOUS
    <2>2. s # {}
        BY <2>1, FS_EmptySet
    <2>3. ASSUME NEW x \in s PROVE s \ {x} \in T
        <3>1. Cardinality(s \ {x}) = n
            BY <1>0, <2>1, FS_RemoveElement
        <3> QED BY <3>1
    <2> QED BY <2>2, <2>3
<1> HIDE DEF N
<1>3. N = Nat
    BY <1>1, <1>2, SetInduction DEF N
<1> QED BY <1>0, <1>3 DEF N

LEMMA SumExists ==
    ASSUME NEW S, IsFiniteSet(S), NEW g, \A x \in S : g[x] \in Nat
    PROVE  \E it : Sums(it, g, S)
<1> DEFINE Pick(s) == CHOOSE x \in s : TRUE
           V == [SUBSET S -> Nat]
           Turn(f) == [s \in SUBSET S |->
                          IF s = {} THEN 0 ELSE g[Pick(s)] + f[s \ {Pick(s)}]]
           Turns == [n \in Nat |-> [f \in V |-> Turn(f)]]
           none == [s \in SUBSET S |-> 0]
<1>0. \A s \in SUBSET S : s # {} => Pick(s) \in s
    OBVIOUS
<1> HIDE DEF Pick
<1>1. none \in V /\ Turns \in [Nat -> [V -> V]]
    BY <1>0
<1> HIDE DEF V, none, Turns
<1>2. PICK f \in [Nat -> V] : FollowsAll(f, none, Turns)
    BY <1>1, RecursionExists
<1>3. f[0] = none /\ \A n \in Nat : f[n + 1] = Turn(f[n])
    BY <1>2 DEF FollowsAll, Turns
<1> DEFINE Settled(s) ==
               \A n \in Nat : Cardinality(s) <= n => f[n + 1][s] = f[n][s]
           T == {s \in SUBSET S : Settled(s)}
<1>4. \A s \in SUBSET S : IsFiniteSet(s) /\ Cardinality(s) \in Nat
    BY FS_Subset, FS_CardinalityType
<1>5. {} \in T
    <2>1. \A n \in Nat : f[n + 1][{}] = 0
        BY <1>3
    <2>2. f[0][{}] = 0
        BY <1>3 DEF none
    <2>3. \A n \in Nat : f[n][{}] = 0
        <3> SUFFICES ASSUME NEW n \in Nat, n # 0 PROVE f[n][{}] = 0
            BY <2>2
        <3>1. n - 1 \in Nat /\ n = (n - 1) + 1
            OBVIOUS
        <3> HIDE DEF Turn
        <3> QED BY <2>1, <3>1
    <2> QED BY <2>1, <2>3
<1>6. ASSUME NEW s \in SUBSET S, s # {}, \A x \in s : s \ {x} \in T
      PROVE  s \in T
    <2> SUFFICES ASSUME NEW n \in Nat, Cardinality(s) <= n
                 PROVE  f[n + 1][s] = f[n][s]
        OBVIOUS
    <2> DEFINE x == Pick(s)
               r == s \ {x}
    <2>1. x \in s
        BY <1>0, <1>6
    <2>2. r \in SUBSET S /\ Cardinality(r) = Cardinality(s) - 1
        BY <2>1, <1>4, FS_RemoveElement
    <2>3. n - 1 \in Nat /\ (n - 1) + 1 = n /\ Cardinality(r) <= n - 1
        BY <2>2, <1>4
    <2>4. Settled(r)
        BY <1>6, <2>1
    <2> HIDE DEF r, Settled
    <2>5. f[n][r] = f[n - 1][r]
        BY <2>3, <2>4 DEF Settled
    <2>6. f[n + 1][s] = g[x] + f[n][r]
        BY <1>3, <1>6 DEF r
    <2>7. f[n][s] = g[x] + f[n - 1][r]
        <3>1. \A m \in Nat : f[m + 1][s] = g[x] + f[m][r]
            BY <1>3, <1>6 DEF r
        <3>2. f[(n - 1) + 1][s] = g[x] + f[n - 1][r]
            BY <3>1, <2>3
        <3> QED BY <3>2, <2>3
    <2> QED BY <2>5, <2>6, <2>7
<1> HIDE DEF Settled
<1>7. \A s \in SUBSET S : s \in T
    <2> HIDE DEF T
    <2>1. T \in SUBSET (SUBSET S)
        BY DEF T
    <2> QED BY <1>5, <1>6, <2>1, SubsetInduction
<1> DEFINE N == Cardinality(S)
           it == f[N]
<1>8. N \in Nat
    BY <1>4
<1>9. \A s \in SUBSET S : f[N + 1][s] = f[N][s]
    BY <1>7, <1>4, FS_Subset DEF Settled
<1>10. f[N + 1] \in V /\ f[N] \in V
    BY <1>2, <1>8
<1>11. f[N + 1] = f[N]
    BY <1>9, <1>10 DEF V
<1>12. f[N] = Turn(f[N])
    BY <1>3, <1>8, <1>11
<1>13. Sums(f[N], g, S)
    BY <1>12 DEF Sums, Pick
<1> QED BY <1>13

\* What a sum is does not depend on the order of its terms.
LEMMA SumSplits ==
    ASSUME NEW S, IsFiniteSet(S), NEW g, \A x \in S : g[x] \in Nat,
           NEW it, Sums(it, g, S)
    PROVE  /\ it[{}] = 0
           /\ \A s \in SUBSET S : it[s] \in Nat
           /\ \A s \in SUBSET S : \A y \in s : it[s] = g[y] + it[s \ {y}]
<1> DEFINE Pick(s) == CHOOSE x \in s : TRUE
<1>0. \A s \in SUBSET S : s # {} => Pick(s) \in s
    OBVIOUS
<1>1. \A s \in SUBSET S :
          it[s] = IF s = {} THEN 0 ELSE g[Pick(s)] + it[s \ {Pick(s)}]
    BY DEF Sums
<1> HIDE DEF Pick
<1>2. it[{}] = 0
    BY <1>1
<1>3. \A s \in SUBSET S : it[s] \in Nat
    <2> DEFINE T == {s \in SUBSET S : it[s] \in Nat}
    <2>1. {} \in T
        BY <1>2
    <2>2. ASSUME NEW s \in SUBSET S, s # {}, \A x \in s : s \ {x} \in T
          PROVE  s \in T
        <3>1. Pick(s) \in s /\ g[Pick(s)] \in Nat /\ it[s \ {Pick(s)}] \in Nat
            BY <1>0, <2>2
        <3> QED BY <1>1, <2>2, <3>1
    <2> HIDE DEF T
    <2>3. T \in SUBSET (SUBSET S)
        BY DEF T
    <2>4. \A s \in SUBSET S : s \in T
        BY <2>1, <2>2, <2>3, SubsetInduction
    <2> QED BY <2>4 DEF T
<1>4. \A s \in SUBSET S : \A y \in s : it[s] = g[y] + it[s \ {y}]
    <2> DEFINE T == {s \in SUBSET S : \A y \in s : it[s] = g[y] + it[s \ {y}]}
    <2>1. {} \in T
        OBVIOUS
    <2>2. ASSUME NEW s \in SUBSET S, s # {}, \A x \in s : s \ {x} \in T
          PROVE  s \in T
        <3> SUFFICES ASSUME NEW y \in s PROVE it[s] = g[y] + it[s \ {y}]
            OBVIOUS
        <3> DEFINE x == Pick(s)
        <3>1. x \in s /\ it[s] = g[x] + it[s \ {x}]
            BY <1>0, <1>1, <2>2
        <3>2. CASE y = x
            BY <3>1, <3>2
        <3>3. CASE y # x
            <4>1. it[s \ {x}] = g[y] + it[(s \ {x}) \ {y}]
                BY <2>2, <3>1, <3>3
            <4>2. it[s \ {y}] = g[x] + it[(s \ {y}) \ {x}]
                BY <2>2, <3>1, <3>3
            <4>3. (s \ {x}) \ {y} = (s \ {y}) \ {x}
                OBVIOUS
            <4>4. /\ g[x] \in Nat /\ g[y] \in Nat
                  /\ it[(s \ {y}) \ {x}] \in Nat
                BY <1>3, <3>1
            <4> HIDE DEF x
            <4> QED BY <3>1, <4>1, <4>2, <4>3, <4>4
        <3> QED BY <3>2, <3>3
    <2> HIDE DEF T
    <2>3. T \in SUBSET (SUBSET S)
        BY DEF T
    <2>4. \A s \in SUBSET S : s \in T
        BY <2>1, <2>2, <2>3, SubsetInduction
    <2> QED BY <2>4 DEF T
<1> QED BY <1>2, <1>3, <1>4

\* Two sums of equal terms are equal.
LEMMA SumsAgree ==
    ASSUME NEW S, IsFiniteSet(S), NEW R, IsFiniteSet(R),
           NEW g, \A x \in S : g[x] \in Nat, NEW h, \A x \in R : h[x] \in Nat,
           NEW a, Sums(a, g, S), NEW b, Sums(b, h, R),
           NEW U \in SUBSET (S \cap R), \A x \in U : g[x] = h[x]
    PROVE  a[U] = b[U]
<1> DEFINE T == {s \in SUBSET U : a[s] = b[s]}
<1>0. IsFiniteSet(U)
    BY FS_Subset
<1>1. {} \in T
    BY SumSplits
<1>2. ASSUME NEW s \in SUBSET U, s # {}, \A x \in s : s \ {x} \in T
      PROVE  s \in T
    <2>1. PICK y \in s : TRUE
        BY <1>2
    <2>2. a[s] = g[y] + a[s \ {y}] /\ b[s] = h[y] + b[s \ {y}]
        <3>1. s \in SUBSET S /\ s \in SUBSET R
            OBVIOUS
        <3> QED BY <3>1, <2>1, SumSplits
    <2> QED BY <1>2, <2>1, <2>2
<1> HIDE DEF T
<1>3. T \in SUBSET (SUBSET U)
    BY DEF T
<1>4. \A s \in SUBSET U : s \in T
    BY <1>0, <1>1, <1>2, <1>3, SubsetInduction
<1> QED BY <1>4 DEF T

Total(g, S) == (CHOOSE it : Sums(it, g, S))[S]

LEMMA TotalIs ==
    ASSUME NEW S, IsFiniteSet(S), NEW g, \A x \in S : g[x] \in Nat,
           NEW it, Sums(it, g, S)
    PROVE  Total(g, S) = it[S]
<1>1. Sums(CHOOSE a : Sums(a, g, S), g, S)
    BY Zenon
<1> QED
    BY <1>1, SumsAgree DEF Total

LEMMA TotalEmpty == \A g : Total(g, {}) = 0
<1> SUFFICES ASSUME NEW g PROVE Total(g, {}) = 0
    OBVIOUS
<1>1. IsFiniteSet({})
    BY FS_EmptySet
<1>2. PICK it : Sums(it, g, {})
    BY <1>1, SumExists
<1> QED
    BY <1>1, <1>2, TotalIs, SumSplits

\* Terms that are equal make equal totals.
LEMMA TotalAgrees ==
    ASSUME NEW S, IsFiniteSet(S), NEW g, \A x \in S : g[x] \in Nat,
           NEW h, \A x \in S : h[x] = g[x]
    PROVE  Total(h, S) = Total(g, S)
<1>1. PICK a : Sums(a, g, S)
    BY SumExists
<1>2. PICK b : Sums(b, h, S)
    BY SumExists
<1> QED
    BY <1>1, <1>2, TotalIs, SumsAgree

\* A term is taken out of a total.
LEMMA TotalSplits ==
    ASSUME NEW S, IsFiniteSet(S), NEW g, \A x \in S : g[x] \in Nat
    PROVE  /\ Total(g, S) \in Nat
           /\ \A y \in S : Total(g, S) = g[y] + Total(g, S \ {y})
<1>1. PICK a : Sums(a, g, S)
    BY SumExists
<1>2. Total(g, S) = a[S] /\ a[S] \in Nat
    BY <1>1, TotalIs, SumSplits
<1>3. ASSUME NEW y \in S PROVE Total(g, S) = g[y] + Total(g, S \ {y})
    <2> DEFINE R == S \ {y}
    <2>0. IsFiniteSet(R) /\ R \subseteq S
        BY FS_Subset
    <2> HIDE DEF R
    <2>1. PICK b : Sums(b, g, R)
        BY <2>0, SumExists
    <2>2. b[R] = a[R] /\ Total(g, R) = b[R]
        BY <2>0, <2>1, <1>1, TotalIs, SumsAgree
    <2>3. a[S] = g[y] + a[S \ {y}]
        <3>1. S \in SUBSET S
            OBVIOUS
        <3> QED BY <1>1, <3>1, SumSplits
    <2> QED
        BY <1>2, <2>2, <2>3 DEF R
<1> QED
    BY <1>2, <1>3

\* One term changes.
LEMMA TotalChanges ==
    ASSUME NEW S, IsFiniteSet(S), NEW g, \A x \in S : g[x] \in Nat,
           NEW h, NEW y \in S, h[y] \in Nat, \A x \in S \ {y} : h[x] = g[x]
    PROVE  Total(h, S) + g[y] = Total(g, S) + h[y]
<1>1. /\ Total(g, S) = g[y] + Total(g, S \ {y})
      /\ Total(h, S) = h[y] + Total(h, S \ {y})
    BY TotalSplits
<1>2. IsFiniteSet(S \ {y})
    BY FS_Subset
<1>3. Total(h, S \ {y}) = Total(g, S \ {y}) /\ Total(g, S \ {y}) \in Nat
    BY <1>2, TotalAgrees, TotalSplits
<1> QED
    BY <1>1, <1>3

-----------------------------------------------------------------------------
(* Elements in ascending order *)

\* A relation that compares any two elements of X; different ones may be equivalent.
Compares(L, X) ==
    /\ \A x, y \in X : <<x, y>> \in L \/ <<y, x>> \in L
    /\ \A x, y, z \in X : <<x, y>> \in L /\ <<y, z>> \in L => <<x, z>> \in L

GreatestAt(k, s, n, L) == \A j \in 1..(n + 1) : <<s[j], s[k]>> \in L

\* Elements in a row have a greatest one.
LEMMA GreatestExists ==
    ASSUME NEW X, NEW L, Compares(L, X)
    PROVE  \A n \in Nat : \A s \in [1..(n + 1) -> X] :
               \E k \in 1..(n + 1) : GreatestAt(k, s, n, L)
<1> USE DEF Compares
<1> DEFINE T == {n \in Nat : \A s \in [1..(n + 1) -> X] :
                    \E k \in 1..(n + 1) : GreatestAt(k, s, n, L)}
<1>1. 0 \in T
    BY DEF GreatestAt
<1>2. ASSUME NEW n \in T PROVE n + 1 \in T
    <2>0. n \in Nat
        OBVIOUS
    <2> DEFINE m == n + 1
    <2>1. SUFFICES ASSUME NEW s \in [1..(m + 1) -> X]
                   PROVE  \E k \in 1..(m + 1) : GreatestAt(k, s, m, L)
        OBVIOUS
    <2> DEFINE r == [j \in 1..m |-> s[j]]
    <2>2. \A j \in 1..m : j \in 1..(m + 1)
        BY <2>0
    <2>3. r \in [1..(n + 1) -> X]
        BY <2>2
    <2>4. PICK k \in 1..(n + 1) : GreatestAt(k, r, n, L)
        BY <2>3
    <2> HIDE DEF T
    <2>5. \A j \in 1..m : <<s[j], s[k]>> \in L /\ s[j] \in X
        BY <2>2, <2>4 DEF GreatestAt
    <2>6. s[m + 1] \in X /\ s[k] \in X /\ k \in 1..(m + 1) /\ m + 1 \in 1..(m + 1)
        BY <2>0, <2>2, <2>4
    <2>7. \A j \in 1..(m + 1) : j = m + 1 \/ j \in 1..m
        BY <2>0
    <2>8. CASE <<s[m + 1], s[k]>> \in L
        BY <2>5, <2>6, <2>7, <2>8 DEF GreatestAt
    <2>9. CASE ~(<<s[m + 1], s[k]>> \in L)
        <3>1. \A j \in 1..(m + 1) : <<s[j], s[m + 1]>> \in L
            BY <2>5, <2>6, <2>7, <2>9
        <3> QED BY <2>6, <3>1 DEF GreatestAt
    <2> QED BY <2>8, <2>9
<1> HIDE DEF T
<1>3. T = Nat
    <2>1. T \in SUBSET Nat
        BY DEF T
    <2> QED BY <1>1, <1>2, <2>1, SetInduction
<1> QED BY <1>3 DEF T

Orders(p, s, n, L) ==
    /\ p \in Surjection(1..n, 1..n)
    /\ \A a, b \in 1..n : a < b => <<s[p[a]], s[p[b]]>> \in L

\* Elements in a row can be put in ascending order.
LEMMA OrderExists ==
    ASSUME NEW X, NEW L, Compares(L, X)
    PROVE  \A n \in Nat : \A s \in [1..n -> X] : \E p : Orders(p, s, n, L)
<1> DEFINE T == {n \in Nat : \A s \in [1..n -> X] : \E p : Orders(p, s, n, L)}
<1>1. 0 \in T
    <2> SUFFICES ASSUME NEW s \in [1..0 -> X] PROVE \E p : Orders(p, s, 0, L)
        OBVIOUS
    <2>1. Orders([a \in 1..0 |-> a], s, 0, L)
        BY DEF Orders, Surjection
    <2> QED BY <2>1
<1>2. ASSUME NEW n \in T PROVE n + 1 \in T
    <2> SUFFICES ASSUME NEW s \in [1..(n + 1) -> X]
                 PROVE  \E p : Orders(p, s, n + 1, L)
        OBVIOUS
    <2>0. n \in Nat
        OBVIOUS
    <2>1. PICK k \in 1..(n + 1) : \A j \in 1..(n + 1) : <<s[j], s[k]>> \in L
        BY <2>0, GreatestExists DEF GreatestAt
    <2> DEFINE r == [j \in 1..n |-> IF j = k THEN s[n + 1] ELSE s[j]]
    <2>2. r \in [1..n -> X]
        OBVIOUS
    <2>3. PICK o : Orders(o, r, n, L)
        BY <2>2
    <2> HIDE DEF T
    <2> DEFINE p == [a \in 1..(n + 1) |-> IF a = n + 1 THEN k
                        ELSE IF o[a] = k THEN n + 1 ELSE o[a]]
    <2>4. o \in [1..n -> 1..n] /\ \A w \in 1..n : \E v \in 1..n : o[v] = w
        BY <2>3 DEF Orders, Surjection
    <2>5. /\ p \in [1..(n + 1) -> 1..(n + 1)]
          /\ p[n + 1] = k
          /\ \A a \in 1..n : p[a] = IF o[a] = k THEN n + 1 ELSE o[a]
        <3>1. \A a \in 1..(n + 1) : a # n + 1 => a \in 1..n
            BY <2>0
        <3> HIDE DEF r, p
        <3>5. \A a \in 1..n : a # n + 1 /\ a \in 1..(n + 1)
            BY <2>0
        <3>2. \A a \in 1..n : a # n + 1 /\ a \in 1..(n + 1) /\ o[a] \in 1..(n + 1)
            BY <2>4, <3>5
        <3> USE DEF p
        <3>3. n + 1 \in 1..(n + 1)
            BY <2>0
        <3>4. \A a \in 1..(n + 1) : p[a] \in 1..(n + 1)
            BY <3>1, <3>2, <3>3
        <3> QED BY <3>2, <3>3, <3>4
    <2>6. \A a \in 1..n : s[p[a]] = r[o[a]]
        <3>1. \A a \in 1..n : r[o[a]] = IF o[a] = k THEN s[n + 1] ELSE s[o[a]]
            BY <2>4
        <3> HIDE DEF r, p
        <3> QED BY <2>5, <3>1
    <2> HIDE DEF p, r
    <2>7. \A w \in 1..(n + 1) : \E v \in 1..(n + 1) : p[v] = w
        <3> SUFFICES ASSUME NEW w \in 1..(n + 1)
                     PROVE  \E v \in 1..(n + 1) : p[v] = w
            OBVIOUS
        <3>0. \A v \in 1..n : v \in 1..(n + 1)
            BY <2>0
        <3>1. CASE w = k
            BY <2>0, <2>5, <3>1
        <3>2. CASE w = n + 1 /\ w # k
            <4>1. k \in 1..n
                BY <2>0, <3>2
            <4>2. PICK v \in 1..n : o[v] = k
                BY <2>4, <4>1
            <4> QED BY <2>5, <3>0, <3>2, <4>2
        <3>3. CASE w # n + 1 /\ w # k
            <4>1. w \in 1..n
                BY <2>0, <3>3
            <4>2. PICK v \in 1..n : o[v] = w
                BY <2>4, <4>1
            <4> QED BY <2>5, <3>0, <3>3, <4>2
        <3> QED BY <3>1, <3>2, <3>3
    <2>8. \A a, b \in 1..(n + 1) : a < b => <<s[p[a]], s[p[b]]>> \in L
        <3> SUFFICES ASSUME NEW a \in 1..(n + 1), NEW b \in 1..(n + 1), a < b
                     PROVE  <<s[p[a]], s[p[b]]>> \in L
            OBVIOUS
        <3>1. CASE b = n + 1
            BY <2>1, <2>5, <3>1
        <3>2. CASE b # n + 1
            <4>1. a \in 1..n /\ b \in 1..n
                BY <2>0, <3>2
            <4>2. <<r[o[a]], r[o[b]]>> \in L
                BY <2>3, <4>1 DEF Orders
            <4> QED BY <2>6, <4>1, <4>2
        <3> QED BY <3>1, <3>2
    <2> QED
        <3>1. p \in Surjection(1..(n + 1), 1..(n + 1))
            BY <2>5, <2>7 DEF Surjection
        <3> QED BY <2>8, <3>1 DEF Orders
<1> HIDE DEF T
<1>3. T = Nat
    <2>1. T \in SUBSET Nat
        BY DEF T
    <2> QED BY <1>1, <1>2, <2>1, SetInduction
<1> QED BY <1>3 DEF T

-----------------------------------------------------------------------------
(* Counting *)

LEMMA DisjointUnion ==
    ASSUME NEW S, IsFiniteSet(S), NEW T, IsFiniteSet(T), S \cap T = {}
    PROVE  /\ IsFiniteSet(S \cup T)
           /\ Cardinality(S) \in Nat /\ Cardinality(T) \in Nat
           /\ Cardinality(S \cup T) = Cardinality(S) + Cardinality(T)
<1>1. Cardinality(S) \in Nat /\ Cardinality(T) \in Nat
    BY FS_CardinalityType
<1>2. /\ IsFiniteSet(S \cup T)
      /\ Cardinality(S \cup T) = Cardinality(S) + Cardinality(T)
                                     - Cardinality(S \cap T)
    BY FS_Union
<1>3. Cardinality(S \cap T) = 0
    BY FS_EmptySet
<1> QED BY <1>1, <1>2, <1>3

LEMMA SameCount ==
    ASSUME NEW S, IsFiniteSet(S), NEW T, NEW f \in [S -> T],
           \A a, b \in S : f[a] = f[b] => a = b,
           \A t \in T : \E a \in S : f[a] = t
    PROVE  IsFiniteSet(T) /\ Cardinality(T) = Cardinality(S)
<1>1. f \in Bijection(S, T)
    BY DEF Bijection, Injection, Surjection, IsInjective
<1> QED
    BY <1>1, FS_Bijection DEF ExistsBijection

LEMMA BijectionFacts ==
    ASSUME NEW A, NEW D, NEW p \in Bijection(A, D)
    PROVE  /\ p \in [A -> D]
           /\ \A a, b \in A : p[a] = p[b] => a = b
           /\ \A d \in D : \E a \in A : p[a] = d
BY DEF Bijection, Injection, Surjection, IsInjective

LEMMA PermutationFacts ==
    ASSUME NEW n, NEW p \in Bijection(1..n, 1..n)
    PROVE  /\ p \in [1..n -> 1..n]
           /\ \A a, b \in 1..n : p[a] = p[b] => a = b
           /\ \A d \in 1..n : \E a \in 1..n : p[a] = d
<1> DEFINE N == 1..n
<1> HIDE DEF N
<1>1. \A f \in Bijection(N, N) : /\ f \in [N -> N]
                                 /\ \A a, b \in N : f[a] = f[b] => a = b
                                 /\ \A d \in N : \E a \in N : f[a] = d
    BY BijectionFacts
<1> QED BY <1>1 DEF N

Carried(A, p, S) == {a \in A : p[a] \in S}

\* As many places hold what is in a set as the set has elements.
LEMMA CountCarried ==
    ASSUME NEW A, IsFiniteSet(A), NEW D, NEW p \in Bijection(A, D),
           NEW S \in SUBSET D
    PROVE  /\ IsFiniteSet(S)
           /\ Cardinality(Carried(A, p, S)) = Cardinality(S)
<1> DEFINE B == {a \in A : p[a] \in S}
           f == [a \in B |-> p[a]]
<1>1. IsFiniteSet(B)
    BY FS_Subset
<1>2. \A a \in B : f[a] = p[a] /\ p[a] \in S /\ a \in A
    OBVIOUS
<1>3. f \in [B -> S]
    OBVIOUS
<1>4. \A t \in S : \E a \in B : f[a] = t
    <2> SUFFICES ASSUME NEW t \in S PROVE \E a \in B : f[a] = t
        OBVIOUS
    <2>1. PICK a \in A : p[a] = t
        BY BijectionFacts
    <2> QED BY <2>1
<1>5. \A a, b \in B : f[a] = f[b] => a = b
    BY <1>2, BijectionFacts
<1> HIDE DEF B, f
<1>6. IsFiniteSet(S) /\ Cardinality(S) = Cardinality(B)
    BY <1>1, <1>3, <1>4, <1>5, SameCount
<1> QED BY <1>6 DEF B, Carried

Ascending(A) == {e \in A \X A : e[1] < e[2]}

PairsCarrying(A, p, R) == {e \in Ascending(A) : <<p[e[1]], p[e[2]]>> \in R}
PairsOf(D, R) == {e \in Ascending(D) : e \in R}

\* And as many pairs of places, for a relation that does not tell the two apart.
LEMMA PairsCarried ==
    ASSUME NEW A \in SUBSET Nat, IsFiniteSet(A), NEW D \in SUBSET Nat,
           NEW p \in Bijection(A, D),
           NEW R, \A x, y \in D : <<x, y>> \in R => <<y, x>> \in R
    PROVE  Cardinality(PairsCarrying(A, p, R)) = Cardinality(PairsOf(D, R))
<1> DEFINE B == {e \in Ascending(A) : <<p[e[1]], p[e[2]]>> \in R}
           S == {e \in Ascending(D) : e \in R}
           In(e) == IF p[e[1]] < p[e[2]] THEN <<p[e[1]], p[e[2]]>>
                    ELSE <<p[e[2]], p[e[1]]>>
           f == [e \in B |-> In(e)]
<1>1. IsFiniteSet(B)
    <2>1. IsFiniteSet(A \X A)
        BY FS_Product
    <2> QED BY <2>1, FS_Subset DEF Ascending
<1>2. /\ p \in [A -> D] /\ \A a, b \in A : p[a] = p[b] => a = b
      /\ \A d \in D : \E a \in A : p[a] = d
    <2>1. p \in [A -> D]
        BY BijectionFacts
    <2>2. \A a, b \in A : p[a] = p[b] => a = b
        BY BijectionFacts
    <2>3. \A d \in D : \E a \in A : p[a] = d
        BY Zenon DEF Bijection, Surjection
    <2> QED BY <2>1, <2>2, <2>3
<1>3. \A a, b \in A : a < b => /\ p[a] \in D /\ p[b] \in D /\ p[a] # p[b]
                               /\ p[a] < p[b] \/ p[b] < p[a]
                               /\ ~(p[a] < p[b] /\ p[b] < p[a])
    <2> SUFFICES ASSUME NEW a \in A, NEW b \in A, a < b
                 PROVE  /\ p[a] \in D /\ p[b] \in D /\ p[a] # p[b]
                        /\ p[a] < p[b] \/ p[b] < p[a]
                        /\ ~(p[a] < p[b] /\ p[b] < p[a])
        OBVIOUS
    <2>0. p[a] \in D /\ p[b] \in D
        BY <1>2
    <2>1. /\ p[a] \in D /\ p[b] \in D /\ p[a] \in Nat /\ p[b] \in Nat
          /\ p[a] # p[b]
        <3>1. a # b
            BY SMT
        <3>2. p[a] # p[b]
            BY <1>2, <3>1
        <3> QED BY <2>0, <3>2
    <2> QED BY <2>1
<1>4. ASSUME NEW e \in B
      PROVE  /\ e[1] \in A /\ e[2] \in A /\ e[1] < e[2] /\ e = <<e[1], e[2]>>
             /\ <<p[e[1]], p[e[2]]>> \in R
    BY DEF Ascending
<1> HIDE DEF B
<1>5. ASSUME NEW e \in B PROVE In(e) \in S
    BY <1>3, <1>4 DEF Ascending
<1> DEFINE Pr == [e \in B |-> {p[e[1]], p[e[2]]}]
<1>6. ASSUME NEW d \in B, NEW e \in B, In(d) = In(e) PROVE d = e
    <2>1. \/ p[d[1]] = p[e[1]] /\ p[d[2]] = p[e[2]]
          \/ p[d[1]] = p[e[2]] /\ p[d[2]] = p[e[1]]
        BY <1>6
    <2>2. \/ d[1] = e[1] /\ d[2] = e[2]
          \/ d[1] = e[2] /\ d[2] = e[1]
        BY <1>2, <1>4, <2>1
    <2>3. d[1] = e[1] /\ d[2] = e[2]
        <3>1. /\ d[1] \in Nat /\ d[2] \in Nat /\ e[1] \in Nat /\ e[2] \in Nat
              /\ d[1] < d[2] /\ e[1] < e[2]
            BY <1>4
        <3> QED BY <2>2, <3>1
    <2> QED BY <1>4, <2>3
<1>7. ASSUME NEW t \in S PROVE \E e \in B : In(e) = t
    <2>1. t[1] \in D /\ t[2] \in D /\ t[1] < t[2] /\ t = <<t[1], t[2]>> /\ t \in R
        BY DEF Ascending
    <2>2. PICK a \in A, b \in A : p[a] = t[1] /\ p[b] = t[2]
        BY <1>2, <2>1
    <2>3. a \in Nat /\ b \in Nat /\ t[1] \in Nat /\ t[2] \in Nat
        BY <2>1
    <2>4. a < b \/ b < a
        BY <2>1, <2>2, <2>3
    <2>5. CASE a < b
        <3>1. <<a, b>> \in B
            BY <2>1, <2>2, <2>5 DEF B, Ascending
        <3>2. In(<<a, b>>) = t
            BY <2>1, <2>2
        <3> QED BY <3>1, <3>2
    <2>6. CASE b < a
        <3>1. <<b, a>> \in B
            BY <2>1, <2>2, <2>6 DEF B, Ascending
        <3>2. In(<<b, a>>) = t
            BY <2>1, <2>2, <2>3
        <3> QED BY <3>1, <3>2
    <2> QED BY <2>4, <2>5, <2>6
<1> HIDE DEF S, In, Pr
<1>8. /\ f \in [B -> S]
      /\ \A d, e \in B : f[d] = f[e] => d = e
      /\ \A t \in S : \E e \in B : f[e] = t
    BY <1>5, <1>6, <1>7
<1> HIDE DEF f
<1>9. Cardinality(S) = Cardinality(B)
    BY <1>1, <1>8, SameCount
<1> QED BY <1>9 DEF B, S, PairsCarrying, PairsOf

Together(C, K) == UNION {C[k] : k \in K}

\* The sizes of sets that have no element in common.
LEMMA SumOfSizes ==
    ASSUME NEW K, IsFiniteSet(K), NEW C, \A k \in K : IsFiniteSet(C[k]),
           \A k, l \in K : k # l => C[k] \cap C[l] = {},
           NEW g, \A k \in K : g[k] = Cardinality(C[k])
    PROVE  /\ IsFiniteSet(Together(C, K))
           /\ Total(g, K) = Cardinality(Together(C, K))
<1> DEFINE U(J) == UNION {C[k] : k \in J}
           T == {J \in SUBSET K : /\ IsFiniteSet(U(J))
                                  /\ Total(g, J) = Cardinality(U(J))}
<1>0. \A k \in K : Cardinality(C[k]) \in Nat /\ g[k] \in Nat
    BY FS_CardinalityType
<1>1. {} \in T
    <2>1. U({}) = {}
        OBVIOUS
    <2> QED BY <2>1, FS_EmptySet, TotalEmpty
<1>2. ASSUME NEW J \in SUBSET K, J # {}, \A k \in J : J \ {k} \in T
      PROVE  J \in T
    <2>1. PICK k \in J : TRUE
        BY <1>2
    <2> DEFINE I == J \ {k}
    <2>2. IsFiniteSet(U(I)) /\ Total(g, I) = Cardinality(U(I))
        BY <1>2
    <2>3. U(J) = U(I) \cup C[k]
        <3>1. \A x : x \in U(J) <=> \E l \in J : x \in C[l]
            OBVIOUS
        <3>2. \A x : x \in U(I) <=> \E l \in J : l # k /\ x \in C[l]
            OBVIOUS
        <3> QED BY <3>1, <3>2
    <2>4. U(I) \cap C[k] = {}
        <3>1. \A l \in I : C[l] \cap C[k] = {}
            OBVIOUS
        <3>2. \A x \in U(I) : \E l \in I : x \in C[l]
            OBVIOUS
        <3> QED BY <3>1, <3>2
    <2> HIDE DEF U, I
    <2>5. IsFiniteSet(J) /\ IsFiniteSet(C[k]) /\ k \in K
        BY FS_Subset
    <2>6. /\ IsFiniteSet(U(J))
          /\ Cardinality(U(J)) = Cardinality(U(I)) + Cardinality(C[k])
        <3> DEFINE old == U(I)
                   new == C[k]
        <3>1. IsFiniteSet(old) /\ IsFiniteSet(new) /\ old \cap new = {}
            BY <2>2, <2>4, <2>5
        <3> HIDE DEF old, new
        <3>2. /\ IsFiniteSet(old \cup new)
              /\ Cardinality(old \cup new) = Cardinality(old) + Cardinality(new)
            BY <3>1, DisjointUnion
        <3> QED BY <2>3, <3>2 DEF old, new
    <2>7. Total(g, J) = g[k] + Total(g, I)
        <3>1. \A x \in J : g[x] \in Nat
            BY <1>0
        <3> QED BY <2>5, <3>1, TotalSplits DEF I
    <2>8. Total(g, J) = Cardinality(U(J))
        BY <1>0, <2>2, <2>5, <2>6, <2>7, FS_CardinalityType
    <2> QED BY <2>6, <2>8
<1> HIDE DEF T
<1>3. T \in SUBSET (SUBSET K)
    BY DEF T
<1>4. \A J \in SUBSET K : J \in T
    BY <1>1, <1>2, <1>3, SubsetInduction
<1>5. Together(C, K) = U(K)
    BY DEF Together
<1> QED BY <1>4, <1>5 DEF T

\* The pairs among n numbers.
LEMMA PairsOfSet ==
    ASSUME NEW A \in SUBSET Nat, IsFiniteSet(A)
    PROVE  /\ IsFiniteSet(Ascending(A))
           /\ Cardinality(A) \in Nat
           /\ Cardinality(Ascending(A))
                  = (Cardinality(A) * (Cardinality(A) - 1)) \div 2
<1> DEFINE T == {s \in SUBSET A : /\ IsFiniteSet(Ascending(s))
                                  /\ 2 * Cardinality(Ascending(s))
                                         = Cardinality(s) * (Cardinality(s) - 1)}
<1>0. \A s \in SUBSET A : IsFiniteSet(s) /\ Cardinality(s) \in Nat
    BY FS_Subset, FS_CardinalityType
<1>1. {} \in T
    <2>1. Ascending({}) = {}
        BY DEF Ascending
    <2> QED BY <2>1, FS_EmptySet
<1>2. ASSUME NEW s \in SUBSET A, s # {}, \A x \in s : s \ {x} \in T
      PROVE  s \in T
    <2>1. PICK x \in s : \A y \in s : x <= y
        BY <1>2, NatLeast
    <2> DEFINE r == s \ {x}
               new == {x} \X r
               f == [y \in r |-> <<x, y>>]
               m == Cardinality(r)
    <2>2. Ascending(s) = Ascending(r) \cup new
        <3>1. \A y \in r : y \in Nat /\ x < y
            BY <2>1
        <3>2. \A y \in s : y = x \/ y \in r
            OBVIOUS
        <3>3. x \in Nat /\ ~(x < x) /\ r \subseteq s
            OBVIOUS
        <3>4. \A y \in r : ~(y < x)
            BY <3>1, <3>3
        <3> HIDE DEF r
        <3>5. \A a, b : <<a, b>> \in Ascending(s) <=> <<a, b>> \in Ascending(r) \cup new
            BY <3>1, <3>2, <3>3, <3>4, <2>1 DEF Ascending
        <3>6. \A e \in Ascending(s) \cup Ascending(r) \cup new : e = <<e[1], e[2]>>
            BY DEF Ascending
        <3> HIDE DEF new
        <3> QED BY <3>5, <3>6
    <2>3. Ascending(r) \cap new = {}
        BY DEF Ascending
    <2>4. IsFiniteSet(r) /\ m \in Nat /\ Cardinality(s) = m + 1
        BY <1>0, FS_RemoveElement
    <2>5. /\ IsFiniteSet(Ascending(r))
          /\ 2 * Cardinality(Ascending(r)) = m * (m - 1)
        BY <1>2
    <2>6. IsFiniteSet(new) /\ Cardinality(new) = m
        <3>1. f \in [r -> new]
            OBVIOUS
        <3>2. \A a, b \in r : f[a] = f[b] => a = b
            OBVIOUS
        <3>3. ASSUME NEW t \in new PROVE \E a \in r : f[a] = t
            <4>1. t[2] \in r /\ t = <<x, t[2]>>
                OBVIOUS
            <4> QED BY <4>1
        <3> HIDE DEF f, new, r
        <3> QED BY <2>4, <3>1, <3>2, <3>3, SameCount
    <2> HIDE DEF new, r, m, T
    <2>7. /\ IsFiniteSet(Ascending(s))
          /\ Cardinality(Ascending(s)) = Cardinality(Ascending(r)) + m
          /\ Cardinality(Ascending(r)) \in Nat
        BY <2>2, <2>3, <2>5, <2>6, DisjointUnion
    <2>8. 2 * (Cardinality(Ascending(r)) + m) = (m + 1) * ((m + 1) - 1)
        <3> DEFINE c == Cardinality(Ascending(r))
        <3>1. c \in Nat /\ 2 * c = m * (m - 1)
            BY <2>5, <2>7
        <3>2. m * (m - 1) = (m * m) - m /\ (m + 1) * ((m + 1) - 1) = (m * m) + m
            BY <2>4
        <3>3. m * m \in Nat
            BY <2>4
        <3> HIDE DEF c
        <3>4. 2 * (c + m) = (m * m) + m
            BY <2>4, <3>1, <3>2, <3>3
        <3> QED BY <3>2, <3>4 DEF c
    <2> QED BY <2>4, <2>7, <2>8 DEF T
<1> HIDE DEF T
<1>3. T \in SUBSET (SUBSET A)
    BY DEF T
<1>4. \A s \in SUBSET A : s \in T
    BY <1>1, <1>2, <1>3, SubsetInduction
<1> DEFINE c == Cardinality(Ascending(A))
           n == Cardinality(A)
<1>5. /\ IsFiniteSet(Ascending(A)) /\ c \in Nat /\ n \in Nat
      /\ 2 * c = n * (n - 1)
    BY <1>0, <1>4, FS_CardinalityType DEF T
<1> HIDE DEF c, n
<1>6. (2 * c) \div 2 = c
    BY <1>5
<1> QED BY <1>5, <1>6 DEF c, n

-----------------------------------------------------------------------------
(* Runs of equal elements *)

\* Equal elements are neighbours.
Grouped(q, n) ==
    \A a, b, c \in 1..n : a <= b /\ b <= c /\ q[a] = q[c] => q[b] = q[a]

Firsts(q, n) == {i \in 1..n : i = 1 \/ q[i - 1] # q[i]}

Run(q, n, s) == {i \in s..n : \A j \in s..i : q[j] = q[s]}

Like(q, n, v) == {i \in 1..n : q[i] = v}

\* Every element is in a run, and its run has all its likes.
LEMMA RunOfElement ==
    ASSUME NEW n \in Nat, NEW q, NEW a \in 1..n
    PROVE  \E s \in Firsts(q, n) : s <= a /\ q[s] = q[a]
<1> DEFINE T == {i \in 1..n : q[i] = q[a]}
<1>1. T \in SUBSET Nat /\ a \in T
    OBVIOUS
<1>2. PICK s \in T : \A i \in T : s <= i
    BY <1>1, NatLeast
<1>3. s \in 1..n /\ q[s] = q[a] /\ s <= a
    BY <1>2
<1>4. s # 1 => s - 1 \in 1..n /\ ~(s <= s - 1)
    BY <1>3
<1>5. s # 1 => q[s - 1] # q[s]
    BY <1>2, <1>3, <1>4
<1> QED BY <1>3, <1>5 DEF Firsts

LEMMA RunIsLike ==
    ASSUME NEW n \in Nat, NEW q, Grouped(q, n), NEW s \in Firsts(q, n)
    PROVE  Run(q, n, s) = Like(q, n, q[s])
<1>1. s \in 1..n /\ (s = 1 \/ q[s - 1] # q[s])
    BY DEF Firsts
<1>2. ASSUME NEW i \in 1..n, q[i] = q[s] PROVE s <= i
    <2> SUFFICES ASSUME i < s PROVE FALSE
        BY <1>1
    <2>1. s - 1 \in 1..n /\ i <= s - 1 /\ s - 1 <= s /\ s # 1
        BY <1>1
    <2>2. q[s - 1] = q[i]
        BY <1>1, <1>2, <2>1 DEF Grouped
    <2> QED BY <1>1, <1>2, <2>1, <2>2
<1>3. ASSUME NEW i \in 1..n, q[i] = q[s], NEW j \in s..i PROVE q[j] = q[s]
    <2>1. j \in 1..n /\ s <= j /\ j <= i
        BY <1>1
    <2> QED BY <1>1, <1>3, <2>1 DEF Grouped
<1>4. ASSUME NEW i \in s..n, \A j \in s..i : q[j] = q[s] PROVE i \in 1..n /\ q[i] = q[s]
    <2>1. i \in 1..n /\ i \in s..i
        BY <1>1
    <2> QED BY <1>4, <2>1
<1>5. \A i \in 1..n : s <= i => i \in s..n
    BY <1>1
<1> QED BY <1>2, <1>3, <1>4, <1>5 DEF Run, Like

LEMMA RunsDiffer ==
    ASSUME NEW n \in Nat, NEW q, Grouped(q, n),
           NEW s \in Firsts(q, n), NEW t \in Firsts(q, n), q[s] = q[t]
    PROVE  s = t
<1>1. /\ s \in 1..n /\ (s = 1 \/ q[s - 1] # q[s])
      /\ t \in 1..n /\ (t = 1 \/ q[t - 1] # q[t])
    BY DEF Firsts
<1>2. ASSUME s < t PROVE FALSE
    <2>1. t - 1 \in 1..n /\ s <= t - 1 /\ t - 1 <= t /\ t # 1
        BY <1>1, <1>2
    <2>2. q[t - 1] = q[s]
        BY <1>1, <2>1 DEF Grouped
    <2> QED BY <1>1, <2>1, <2>2
<1>3. ASSUME t < s PROVE FALSE
    <2>1. s - 1 \in 1..n /\ t <= s - 1 /\ s - 1 <= s /\ s # 1
        BY <1>1, <1>3
    <2>2. q[s - 1] = q[t]
        BY <1>1, <2>1 DEF Grouped
    <2> QED BY <1>1, <2>1, <2>2
<1> QED BY <1>1, <1>2, <1>3

LikePairs(q, n) == {e \in Ascending(1..n) : q[e[1]] = q[e[2]]}

\* The pairs of likes, run by run.
LEMMA PairsInRuns ==
    ASSUME NEW n \in Nat, NEW q, Grouped(q, n),
           NEW g, \A s \in Firsts(q, n) :
               LET size == Cardinality(Like(q, n, q[s])) IN
               g[s] = (size * (size - 1)) \div 2
    PROVE  Total(g, Firsts(q, n))
               = Cardinality(LikePairs(q, n))
<1> DEFINE K == Firsts(q, n)
           C == [s \in K |-> Ascending(Like(q, n, q[s]))]
<1>1. IsFiniteSet(1..n)
    BY FS_Interval
<1>2. IsFiniteSet(K)
    BY <1>1, FS_Subset DEF Firsts
<1>3. ASSUME NEW s \in K
      PROVE  IsFiniteSet(C[s]) /\ g[s] = Cardinality(C[s])
    <2>1. /\ Like(q, n, q[s]) \in SUBSET (1..n)
          /\ Like(q, n, q[s]) \in SUBSET Nat
        BY DEF Like
    <2> DEFINE L == Like(q, n, q[s])
    <2>2. IsFiniteSet(L) /\ L \in SUBSET Nat
        BY <1>1, <2>1, FS_Subset
    <2>3. g[s] = (Cardinality(L) * (Cardinality(L) - 1)) \div 2
        OBVIOUS
    <2>4. C[s] = Ascending(L)
        OBVIOUS
    <2> HIDE DEF L, K, C
    <2> QED BY <2>2, <2>3, <2>4, PairsOfSet
<1>4. ASSUME NEW s \in K, NEW t \in K, s # t PROVE C[s] \cap C[t] = {}
    <2>1. q[s] # q[t]
        BY <1>4, RunsDiffer
    <2>2. Like(q, n, q[s]) \cap Like(q, n, q[t]) = {}
        BY <2>1 DEF Like
    <2> QED BY <2>2 DEF Ascending
<1>5. Together(C, K) = {e \in Ascending(1..n) : q[e[1]] = q[e[2]]}
    <2>1. ASSUME NEW s \in K, NEW e \in C[s]
          PROVE  e \in Ascending(1..n) /\ q[e[1]] = q[e[2]]
        BY DEF Ascending, Like
    <2>2. ASSUME NEW e \in Ascending(1..n), q[e[1]] = q[e[2]]
          PROVE  \E s \in K : e \in C[s]
        <3>1. e[1] \in 1..n /\ e[2] \in 1..n
            BY DEF Ascending
        <3>2. PICK s \in K : q[s] = q[e[1]]
            BY <3>1, RunOfElement
        <3>3. e \in C[s]
            BY <2>2, <3>2 DEF Ascending, Like
        <3> QED BY <3>3
    <2> HIDE DEF C, K
    <2> QED BY <2>1, <2>2 DEF Together
<1> HIDE DEF C, K
<1>6. Total(g, K) = Cardinality(Together(C, K))
    <2>1. \A s \in K : IsFiniteSet(C[s])
        BY <1>3
    <2>3. \A s \in K : g[s] = Cardinality(C[s])
        BY <1>3
    <2>2. \A s, t \in K : s # t => C[s] \cap C[t] = {}
        BY <1>4
    <2> QED BY <1>2, <2>1, <2>2, <2>3, SumOfSizes
<1> QED BY <1>5, <1>6 DEF K, LikePairs
=============================================================================
