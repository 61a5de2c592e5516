-------------------------- MODULE MixRoundsProofs --------------------------
(***************************************************************************)
(* The rounds of mix.c are undone by their inverses, for every word width,  *)
(* every exclusive or that satisfies its two laws, and every window.        *)
(***************************************************************************)
EXTENDS MixRounds, NatLemmas

-----------------------------------------------------------------------------
\* Words.

Modulus == Pow2[WordBits]

LEMMA ModulusPositive == Modulus \in Nat \ {0}
BY WordAssumption, Pow2Positive DEF Modulus

LEMMA WordRange == Word = 0..(Modulus - 1)
BY DEF Word, Modulus

LEMMA IntDivMod ==
    ASSUME NEW a \in Int, NEW b \in Nat \ {0}
    PROVE  /\ a \div b \in Int
           /\ a % b \in 0..(b - 1)
           /\ a = (b * (a \div b)) + (a % b)
OBVIOUS

\* The only remainder of an integer.
LEMMA ModUnique ==
    ASSUME NEW b \in Nat \ {0}, NEW r \in 0..(b - 1), NEW s \in 0..(b - 1),
           NEW p \in Int, NEW q \in Int, b * p + r = b * q + s
    PROVE  r = s
<1>1. b * (p - q) = s - r
    <2>1. b * (p - q) = b * p - b * q
        OBVIOUS
    <2>2. b * p \in Int /\ b * q \in Int
        OBVIOUS
    <2> QED BY <2>1, <2>2
<1>2. ~(p - q >= 1)
    <2>1. SUFFICES ASSUME p - q >= 1 PROVE FALSE
        OBVIOUS
    <2>2. p - q \in Nat /\ 1 <= p - q
        BY <2>1
    <2>3. b * 1 <= b * (p - q)
        BY <2>2, TimesMonotone
    <2> QED BY <1>1, <2>3
<1>3. ~(q - p >= 1)
    <2>1. SUFFICES ASSUME q - p >= 1 PROVE FALSE
        OBVIOUS
    <2>2. q - p \in Nat /\ 1 <= q - p
        BY <2>1
    <2>3. b * 1 <= b * (q - p)
        BY <2>2, TimesMonotone
    <2>4. b * (q - p) = r - s
        <3>1. b * (q - p) = -(b * (p - q))
            OBVIOUS
        <3> QED BY <3>1, <1>1
    <2> QED BY <2>3, <2>4
<1>4. p = q
    BY <1>2, <1>3
<1> QED BY <1>1, <1>4

LEMMA WrapIsWord ==
    ASSUME NEW x \in Int
    PROVE  Wrap(x) \in Word
BY ModulusPositive, WordRange, IntDivMod DEF Wrap, Modulus

\* A sum modulo the word is undone by the difference.
LEMMA WrapUndone ==
    ASSUME NEW x \in Word, NEW k \in Int
    PROVE  Wrap(Wrap(x + k) - k) = x
<1> DEFINE M == Modulus
<1>0. M \in Nat \ {0} /\ x \in 0..(M - 1) /\ x \in Int
    BY ModulusPositive, WordRange
<1> HIDE DEF M
<1> DEFINE q == (x + k) \div M
           r == (x + k) % M
           p == (r - k) \div M
           s == (r - k) % M
<1>1. q \in Int /\ r \in 0..(M - 1) /\ x + k = M * q + r
    <2>1. x + k \in Int
        BY <1>0
    <2> QED BY <2>1, <1>0, IntDivMod
<1>2. p \in Int /\ s \in 0..(M - 1) /\ r - k = M * p + s
    <2>1. r - k \in Int
        BY <1>0, <1>1
    <2> HIDE DEF r
    <2> QED BY <2>1, <1>0, IntDivMod
<1>7. Wrap(Wrap(x + k) - k) = s
    BY DEF Wrap, M, Modulus
<1> HIDE DEF p, q, r, s
<1>3. M * q \in Int /\ M * p \in Int
    BY <1>0, <1>1, <1>2
<1>4. x = M * (p + q) + s
    <2>1. M * (p + q) = M * p + M * q
        BY <1>0, <1>1, <1>2
    <2> QED BY <2>1, <1>0, <1>1, <1>2, <1>3
<1>5. x = M * 0 + x
    BY <1>0
<1>6. s = x
    <2>1. M * (p + q) + s = M * 0 + x /\ p + q \in Int
        BY <1>1, <1>2, <1>4, <1>5
    <2> QED BY <2>1, <1>0, <1>2, ModUnique
<1> QED
    BY <1>6, <1>7

\* A rotation to the right is undone by the one to the left.
LEMMA RotationUndone ==
    ASSUME NEW x \in Word, NEW n \in 0..(WordBits - 1)
    PROVE  /\ Rotr(x, n) \in Word
           /\ Rotl(Rotr(x, n), n) = x
<1> DEFINE A == Pow2[n]
           B == Pow2[WordBits - n]
           M == Modulus
<1>0. WordBits \in Nat /\ WordBits - n \in Nat /\ n \in Nat
    BY WordAssumption
<1>1. n % WordBits = n
    <2>1. WordBits \in Nat \ {0} /\ 0 * WordBits + n = n /\ 0 \in Nat
        BY WordAssumption
    <2> QED BY <2>1, DivModUnique
<1>2. CASE n = 0
    <2>1. WordBits % WordBits = 0
        <3>1. 1 * WordBits + 0 = WordBits /\ WordBits \in Nat \ {0} /\ 0 \in 0..(WordBits - 1)
            BY WordAssumption
        <3> QED BY <3>1, DivModUnique
    <2> QED BY <1>0, <1>1, <1>2, <2>1 DEF Rotr, Rotl
<1>3. CASE n # 0
    <2>1. WordBits - n \in 1..(WordBits - 1) /\ (WordBits - n) % WordBits = WordBits - n
        <3>1. WordBits - n \in 0..(WordBits - 1) /\ WordBits - n # 0
            BY <1>0, <1>3
        <3>2. 0 * WordBits + (WordBits - n) = WordBits - n /\ WordBits \in Nat \ {0}
            BY <1>0, WordAssumption
        <3>3. (WordBits - n) % WordBits = WordBits - n
            BY <3>1, <3>2, DivModUnique
        <3> QED BY <3>1, <3>3, <1>0
    <2>2. A \in Nat \ {0} /\ B \in Nat \ {0} /\ A * B = M /\ M \in Nat \ {0}
        <3>1. n + (WordBits - n) = WordBits
            BY <1>0
        <3> QED BY <1>0, <3>1, Pow2Sum, Pow2Positive DEF Modulus
    <2>3. Rotr(x, n) = ((x * B) % M) + (x \div A)
        <3>1. Rotr(x, n) = Rotl(x, WordBits - n)
            BY <1>1 DEF Rotr
        <3>2. WordBits - (WordBits - n) = n
            BY <1>0
        <3> QED BY <2>1, <3>1, <3>2, <1>0 DEF Rotl, Wrap, Modulus
    <2>4. ASSUME NEW y \in Word
          PROVE  Rotl(y, n) = ((y * A) % M) + (y \div B)
        BY <1>1, <1>3 DEF Rotl, Wrap, Modulus
    <2> HIDE DEF A, B, M
    <2> DEFINE q == x \div A
               t == x % A
    <2>5. q \in Nat /\ t \in 0..(A - 1) /\ x = (q * A) + t /\ (x \div A) = q
        <3>1. x \in Nat
            BY WordRange, ModulusPositive
        <3>2. q \in Nat /\ t \in 0..(A - 1) /\ x = (A * q) + t
            BY <3>1, <2>2, DivMod
        <3>3. A * q = q * A
            BY <3>2, <2>2
        <3> QED BY <3>2, <3>3
    <2> HIDE DEF q, t
    <2>6. q \in 0..(B - 1)
        <3>1. x < M
            BY WordRange, ModulusPositive DEF M
        <3>2. SUFFICES ASSUME B <= q PROVE FALSE
            BY <2>2, <2>5
        <3>3. B * A <= q * A /\ B * A = A * B /\ q * A \in Nat
            BY <2>2, <2>5, <3>2, TimesMonotone
        <3> QED BY <2>2, <2>5, <3>1, <3>3
    <2>7. t * B + q \in 0..(M - 1) /\ t * B \in 0..(M - 1)
        <3>1. (t + 1) * B <= A * B
            BY <2>2, <2>5, TimesMonotone
        <3>2. (t + 1) * B = t * B + B /\ t * B \in Nat
            BY <2>2, <2>5
        <3> QED BY <2>2, <2>6, <3>1, <3>2
    <2>8. (x * B) % M = t * B
        <3>1. x * B = q * M + t * B
            <4>1. ((q * A) + t) * B = (q * A) * B + t * B
                BY <2>2, <2>5
            <4>2. (q * A) * B = q * (A * B)
                BY <2>2, <2>5
            <4> QED BY <2>2, <2>5, <4>1, <4>2
        <3>2. (q * M + t * B) % M = t * B
            <4>1. q \in Nat /\ M \in Nat \ {0} /\ t * B \in 0..(M - 1)
                BY <2>2, <2>5, <2>7
            <4> QED BY <4>1, DivModUnique
        <3> QED BY <3>1, <3>2
    <2>9. Rotr(x, n) = t * B + q
        BY <2>3, <2>5, <2>8
    <2>10. Rotr(x, n) \in Word
        BY <2>7, <2>9, WordRange DEF M
    <2>11. (t * B + q) * A = t * M + q * A /\ q * A \in 0..(M - 1)
        <3>1. (t * B + q) * A = (t * B) * A + q * A
            BY <2>2, <2>5
        <3>2. (t * B) * A = t * (A * B)
            BY <2>2, <2>5
        <3>3. q * A \in Nat
            BY <2>2, <2>5
        <3>4. q * A <= x
            BY <2>2, <2>5, <3>3
        <3>5. x < M
            BY WordRange, ModulusPositive DEF M
        <3>6. (t * B) * A = t * M
            BY <2>2, <3>2
        <3>7. q * A \in 0..(M - 1)
            BY <2>2, <3>3, <3>4, <3>5, WordRange
        <3> QED BY <3>1, <3>6, <3>7
    <2>12. ((t * B + q) * A) % M = q * A
        <3>1. t \in Nat
            BY <2>5, <2>2
        <3>2. (t * M + q * A) % M = q * A
            <4>1. M \in Nat \ {0} /\ q * A \in 0..(M - 1)
                BY <2>2, <2>11
            <4> QED BY <3>1, <4>1, DivModUnique
        <3> QED BY <2>11, <3>2
    <2>13. ((t * B + q) \div B) = t
        <3>1. t \in Nat
            BY <2>5, <2>2
        <3> QED BY <2>2, <2>6, <3>1, DivModUnique
    <2>14. Rotl(Rotr(x, n), n) = x
        <3>1. Rotl(Rotr(x, n), n)
              = (((t * B + q) * A) % M) + ((t * B + q) \div B)
            BY <2>4, <2>9, <2>10
        <3> QED BY <2>5, <2>12, <2>13, <3>1
    <2> QED BY <2>10, <2>14
<1> QED BY <1>2, <1>3
LEMMA RotlIsWord ==
    ASSUME NEW x \in Word, NEW n \in 0..(WordBits - 1)
    PROVE  Rotl(x, n) \in Word
<1>1. CASE n = 0
    <2>1. 0 % WordBits = 0
        <3>1. WordBits \in Nat \ {0} /\ 0 \in 0..(WordBits - 1) /\ 0 * WordBits + 0 = 0
            BY WordAssumption
        <3> QED BY <3>1, DivModUnique
    <2> QED BY <1>1, <2>1 DEF Rotl
<1>2. CASE n # 0
    <2>1. WordBits - n \in 0..(WordBits - 1) /\ WordBits - (WordBits - n) = n
        BY <1>2, WordAssumption
    <2>2. (WordBits - n) % WordBits = WordBits - n
        <3>1. WordBits \in Nat \ {0} /\ 0 * WordBits + (WordBits - n) = WordBits - n
            BY WordAssumption
        <3> QED BY <2>1, <3>1, DivModUnique
    <2>3. Rotr(x, WordBits - n) = Rotl(x, n)
        BY <2>1, <2>2 DEF Rotr
    <2> QED BY <2>1, <2>3, RotationUndone
<1> QED BY <1>1, <1>2

-----------------------------------------------------------------------------
\* The G function.

\* Four different words.
FourOf(q) ==
    /\ q[1] \in Indices /\ q[2] \in Indices /\ q[3] \in Indices /\ q[4] \in Indices
    /\ q[1] # q[2] /\ q[1] # q[3] /\ q[1] # q[4]
    /\ q[2] # q[3] /\ q[2] # q[4] /\ q[3] # q[4]

LEMMA HalfUndone ==
    ASSUME NEW v \in WorkStates, NEW q, FourOf(q), NEW m \in Word, NEW r,
           r[1] \in 0..(WordBits - 1), r[2] \in 0..(WordBits - 1)
    PROVE  /\ Half(v, q, m, r) \in WorkStates
           /\ HalfInverse(Half(v, q, m, r), q, m, r) = v
<1> DEFINE a == Wrap(v[q[1]] + v[q[2]] + m)
           d == Rotr(BitXor(v[q[4]], a), r[1])
           c == Wrap(v[q[3]] + d)
           b == Rotr(BitXor(v[q[2]], c), r[2])
           w == Half(v, q, m, r)
<1>1. /\ v[q[1]] \in Word /\ v[q[2]] \in Word
      /\ v[q[3]] \in Word /\ v[q[4]] \in Word
    BY DEF FourOf, WorkStates
<1>2. \A x \in Word : x \in Int
    BY WordRange, ModulusPositive
<1>3. a \in Word
    <2>1. v[q[1]] + v[q[2]] + m \in Int
        BY <1>1, <1>2
    <2> QED BY <2>1, WrapIsWord
<1>4. d \in Word /\ Rotl(d, r[1]) = BitXor(v[q[4]], a)
    <2> HIDE DEF a
    <2>1. BitXor(v[q[4]], a) \in Word
        BY <1>1, <1>3, XorAssumption
    <2> QED BY <2>1, RotationUndone
<1>5. c \in Word
    <2> HIDE DEF d
    <2>1. v[q[3]] + d \in Int
        BY <1>1, <1>2, <1>4
    <2> QED BY <2>1, WrapIsWord
<1>6. b \in Word /\ Rotl(b, r[2]) = BitXor(v[q[2]], c)
    <2> HIDE DEF c
    <2>1. BitXor(v[q[2]], c) \in Word
        BY <1>1, <1>5, XorAssumption
    <2> QED BY <2>1, RotationUndone
<1>7. w = [v EXCEPT ![q[1]] = a, ![q[2]] = b, ![q[3]] = c, ![q[4]] = d]
    BY DEF Half
<1> HIDE DEF w
<1>8. BitXor(Rotl(b, r[2]), c) = v[q[2]]
    BY <1>1, <1>5, <1>6, XorAssumption
<1>9. BitXor(Rotl(d, r[1]), a) = v[q[4]]
    BY <1>1, <1>3, <1>4, XorAssumption
<1>10. Wrap(c - d) = v[q[3]]
    <2> HIDE DEF d
    <2>1. d \in Int
        BY <1>2, <1>4
    <2> QED BY <2>1, <1>1, WrapUndone
<1>11. Wrap(a - (v[q[2]] + m)) = v[q[1]]
    <2>1. v[q[2]] + m \in Int /\ v[q[1]] + v[q[2]] + m = v[q[1]] + (v[q[2]] + m)
        BY <1>1, <1>2
    <2> QED BY <2>1, <1>1, WrapUndone
<1> HIDE DEF a, b, c, d
<1>12. w \in WorkStates
    BY <1>3, <1>4, <1>5, <1>6, <1>7 DEF WorkStates, FourOf
<1>13. w[q[1]] = a /\ w[q[2]] = b /\ w[q[3]] = c /\ w[q[4]] = d
    BY <1>7 DEF WorkStates, FourOf
<1>14. HalfInverse(w, q, m, r)
       = [w EXCEPT ![q[1]] = v[q[1]], ![q[2]] = v[q[2]],
                   ![q[3]] = v[q[3]], ![q[4]] = v[q[4]]]
    BY <1>8, <1>9, <1>10, <1>11, <1>13 DEF HalfInverse
<1>15. HalfInverse(w, q, m, r) = v
    <2> DEFINE u == HalfInverse(w, q, m, r)
    <2>1. u \in WorkStates
        BY <1>1, <1>12, <1>14 DEF WorkStates
    <2>2. ASSUME NEW i \in Indices PROVE u[i] = v[i]
        BY <1>7, <1>12, <1>14 DEF WorkStates, FourOf
    <2> HIDE DEF u
    <2>3. u = [i \in Indices |-> u[i]] /\ v = [i \in Indices |-> v[i]]
        BY <2>1 DEF WorkStates
    <2>4. u = v
        BY <2>2, <2>3
    <2> QED BY <2>4 DEF u
<1> QED BY <1>12, <1>15 DEF w

LEMMA RotationsRange ==
    ASSUME NEW half \in {1, 2}
    PROVE  /\ Rotations(half)[1] \in 0..(WordBits - 1)
           /\ Rotations(half)[2] \in 0..(WordBits - 1)
BY WordAssumption DEF Rotations

LEMMA MixGUndone ==
    ASSUME NEW v \in WorkStates, NEW q, FourOf(q), NEW x \in Word, NEW y \in Word
    PROVE  /\ MixG(v, q, x, y) \in WorkStates
           /\ MixGInverse(MixG(v, q, x, y), q, x, y) = v
<1>1. ASSUME NEW half \in {1, 2}
      PROVE  /\ Rotations(half)[1] \in 0..(WordBits - 1)
             /\ Rotations(half)[2] \in 0..(WordBits - 1)
    BY RotationsRange
<1> DEFINE h == Half(v, q, x, Rotations(1))
<1>2. h \in WorkStates /\ HalfInverse(h, q, x, Rotations(1)) = v
    BY <1>1, HalfUndone
<1> HIDE DEF h
<1>3. /\ Half(h, q, y, Rotations(2)) \in WorkStates
      /\ HalfInverse(Half(h, q, y, Rotations(2)), q, y, Rotations(2)) = h
    BY <1>1, <1>2, HalfUndone
<1> QED BY <1>2, <1>3 DEF MixG, MixGInverse, h

\* The inverse takes any sixteen words to sixteen words.
LEMMA HalfInverseCloses ==
    ASSUME NEW v \in WorkStates, NEW q, FourOf(q), NEW m \in Word, NEW r,
           r[1] \in 0..(WordBits - 1), r[2] \in 0..(WordBits - 1)
    PROVE  HalfInverse(v, q, m, r) \in WorkStates
<1> DEFINE b == BitXor(Rotl(v[q[2]], r[2]), v[q[3]])
           c == Wrap(v[q[3]] - v[q[4]])
           d == BitXor(Rotl(v[q[4]], r[1]), v[q[1]])
           a == Wrap(v[q[1]] - (b + m))
<1>1. /\ v[q[1]] \in Word /\ v[q[2]] \in Word
      /\ v[q[3]] \in Word /\ v[q[4]] \in Word
    BY DEF FourOf, WorkStates
<1>2. \A x \in Word : x \in Int
    BY WordRange, ModulusPositive
<1>3. b \in Word /\ d \in Word
    BY <1>1, RotlIsWord, XorAssumption
<1>4. c \in Word
    <2>1. v[q[3]] - v[q[4]] \in Int
        BY <1>1, <1>2
    <2> QED BY <2>1, WrapIsWord
<1>5. a \in Word
    <2> HIDE DEF b
    <2>1. v[q[1]] - (b + m) \in Int
        BY <1>1, <1>2, <1>3
    <2> QED BY <2>1, WrapIsWord
<1>6. HalfInverse(v, q, m, r)
      = [v EXCEPT ![q[1]] = a, ![q[2]] = b, ![q[3]] = c, ![q[4]] = d]
    BY DEF HalfInverse
<1> HIDE DEF a, b, c, d
<1> QED BY <1>3, <1>4, <1>5, <1>6 DEF WorkStates

LEMMA MixGInverseCloses ==
    ASSUME NEW v \in WorkStates, NEW q, FourOf(q), NEW x \in Word, NEW y \in Word
    PROVE  MixGInverse(v, q, x, y) \in WorkStates
<1>1. HalfInverse(v, q, y, Rotations(2)) \in WorkStates
    BY RotationsRange, HalfInverseCloses
<1> QED BY <1>1, RotationsRange, HalfInverseCloses DEF MixGInverse

-----------------------------------------------------------------------------
\* The rounds.

LEMMA QuartersAreFour ==
    ASSUME NEW i \in 1..8
    PROVE  FourOf(Quarters[i])
BY DEF Quarters, FourOf, Indices

\* Every entry of the table names a message word.
LEMMA SigmaNamesWords ==
    ASSUME NEW round \in Int, NEW j \in 1..16
    PROVE  Sigma(round)[j] \in Indices
<1>1. round % 10 \in 0..9
    OBVIOUS
<1>2. ASSUME NEW n \in 1..10 PROVE SigmaRows[n][j] \in Indices
    BY DEF SigmaRows, Indices
<1> QED BY <1>1, <1>2 DEF Sigma

LEMMA MessageWord ==
    ASSUME NEW message \in WorkStates, NEW round \in Int, NEW i \in 1..8,
           NEW k \in 1..2
    PROVE  MessageAt(message, round, i, k) \in Word
<1>1. 2 * i - 2 + k \in 1..16
    OBVIOUS
<1>2. Sigma(round)[2 * i - 2 + k] \in Indices
    BY <1>1, SigmaNamesWords
<1> QED BY <1>2 DEF MessageAt, WorkStates

LEMMA CallUndone ==
    ASSUME NEW v \in WorkStates, NEW message \in WorkStates,
           NEW round \in Int, NEW i \in 1..8
    PROVE  /\ MixCall(v, message, round, i) \in WorkStates
           /\ MixCallInverse(MixCall(v, message, round, i), message, round, i) = v
           /\ MixCallInverse(v, message, round, i) \in WorkStates
<1>1. ASSUME NEW k \in 1..2 PROVE MessageAt(message, round, i, k) \in Word
    BY MessageWord
<1> DEFINE x == MessageAt(message, round, i, 1)
           y == MessageAt(message, round, i, 2)
           q == Quarters[i]
<1>2. x \in Word /\ y \in Word
    BY <1>1
<1>3. FourOf(q)
    BY QuartersAreFour
<1>4. /\ MixCall(v, message, round, i) = MixG(v, q, x, y)
      /\ \A w : MixCallInverse(w, message, round, i) = MixGInverse(w, q, x, y)
    BY DEF MixCall, MixCallInverse
<1> HIDE DEF x, y, q
<1>5. /\ MixG(v, q, x, y) \in WorkStates
      /\ MixGInverse(MixG(v, q, x, y), q, x, y) = v
    BY <1>2, <1>3, MixGUndone
<1>6. MixGInverse(v, q, x, y) \in WorkStates
    BY <1>2, <1>3, MixGInverseCloses
<1> QED BY <1>4, <1>5, <1>6

LEMMA FourCallsUndone ==
    ASSUME NEW v \in WorkStates, NEW message \in WorkStates,
           NEW round \in Int, NEW i \in {1, 5}
    PROVE  /\ FourCalls(v, message, round, i) \in WorkStates
           /\ FourCallsInverse(v, message, round, i) \in WorkStates
           /\ FourCallsInverse(FourCalls(v, message, round, i),
                               message, round, i) = v
<1> DEFINE C(w, j) == MixCall(w, message, round, j)
           D(w, j) == MixCallInverse(w, message, round, j)
<1>1. ASSUME NEW w \in WorkStates, NEW j \in 1..8
      PROVE  /\ C(w, j) \in WorkStates /\ D(C(w, j), j) = w
             /\ D(w, j) \in WorkStates
    BY CallUndone
<1>2. FourCalls(v, message, round, i) = C(C(C(C(v, i), i + 1), i + 2), i + 3)
    BY DEF FourCalls
<1>3. ASSUME NEW w
      PROVE  FourCallsInverse(w, message, round, i)
             = D(D(D(D(w, i + 3), i + 2), i + 1), i)
    BY DEF FourCallsInverse
<1>4. i \in 1..8 /\ i + 1 \in 1..8 /\ i + 2 \in 1..8 /\ i + 3 \in 1..8
    OBVIOUS
<1> HIDE DEF C, D
<1> DEFINE v1 == C(v, i)
           v2 == C(v1, i + 1)
           v3 == C(v2, i + 2)
           v4 == C(v3, i + 3)
<1>5. v1 \in WorkStates /\ D(v1, i) = v
    BY <1>1, <1>4
<1> HIDE DEF v1
<1>6. v2 \in WorkStates /\ D(v2, i + 1) = v1
    BY <1>1, <1>4, <1>5
<1> HIDE DEF v2
<1>7. v3 \in WorkStates /\ D(v3, i + 2) = v2
    BY <1>1, <1>4, <1>6
<1> HIDE DEF v3
<1>8. v4 \in WorkStates /\ D(v4, i + 3) = v3
    BY <1>1, <1>4, <1>7
<1>9. FourCalls(v, message, round, i) = v4
    BY <1>2 DEF v1, v2, v3
<1> HIDE DEF v4
<1>10. FourCallsInverse(v, message, round, i) \in WorkStates
    BY <1>1, <1>3, <1>4
<1> QED BY <1>3, <1>5, <1>6, <1>7, <1>8, <1>9, <1>10

\* The round of fch_mix_round_inverse undoes that of fch_mix_round.
THEOREM RoundUndone ==
    ASSUME NEW message \in WorkStates, NEW round \in Int
    PROVE  /\ MixRound(message, round) \in [WorkStates -> WorkStates]
           /\ MixRoundInverse(message, round) \in [WorkStates -> WorkStates]
           /\ \A v \in WorkStates :
                  /\ MixRound(message, round)[v] \in WorkStates
                  /\ MixRoundInverse(message, round)[MixRound(message, round)[v]] = v
<1>1. ASSUME NEW v \in WorkStates
      PROVE  /\ MixRound(message, round)[v] \in WorkStates
             /\ MixRoundInverse(message, round)[MixRound(message, round)[v]] = v
    <2> DEFINE c == FourCalls(v, message, round, 1)
               e == FourCalls(c, message, round, 5)
    <2>1. c \in WorkStates /\ FourCallsInverse(c, message, round, 1) = v
        BY FourCallsUndone
    <2> HIDE DEF c
    <2>2. e \in WorkStates /\ FourCallsInverse(e, message, round, 5) = c
        BY <2>1, FourCallsUndone
    <2>3. MixRound(message, round)[v] = e
        BY DEF MixRound, c
    <2> HIDE DEF e
    <2>4. MixRoundInverse(message, round)[e]
          = FourCallsInverse(FourCallsInverse(e, message, round, 5),
                             message, round, 1)
        BY <2>2 DEF MixRoundInverse
    <2> QED BY <2>1, <2>2, <2>3, <2>4
<1>2. MixRound(message, round) \in [WorkStates -> WorkStates]
    BY <1>1 DEF MixRound
<1>3. ASSUME NEW v \in WorkStates
      PROVE  FourCallsInverse(FourCallsInverse(v, message, round, 5),
                              message, round, 1) \in WorkStates
    BY FourCallsUndone
<1>4. MixRoundInverse(message, round) \in [WorkStates -> WorkStates]
    BY <1>3 DEF MixRoundInverse
<1> QED BY <1>1, <1>2, <1>4
-----------------------------------------------------------------------------
\* The loops.

\* What a loop over steps S makes of a: the recursion has a solution, hence
\* the function defined by it follows the steps.
LEMMA LoopFollows ==
    ASSUME NEW V, NEW a \in V, NEW S, \A n \in Nat : S[n] \in [V -> V],
           NEW f,
           f = CHOOSE g : g = [n \in Nat |-> IF n = 0 THEN a ELSE S[n - 1][g[n - 1]]]
    PROVE  /\ f[0] = a
           /\ \A n \in Nat : f[n] \in V
           /\ \A n \in Nat : f[n + 1] = S[n][f[n]]
<1> DEFINE Eqn(g) == g = [n \in Nat |-> IF n = 0 THEN a ELSE S[n - 1][g[n - 1]]]
           Steps == [n \in Nat |-> S[n]]
<1>1. PICK g \in [Nat -> V] : g[0] = a /\ \A n \in Nat : g[n + 1] = S[n][g[n]]
    <2>1. Steps \in [Nat -> [V -> V]]
        OBVIOUS
    <2>2. \A n \in Nat : Steps[n] = S[n]
        OBVIOUS
    <2> HIDE DEF Steps
    <2>3. \E g \in [Nat -> V] : FollowsAll(g, a, Steps)
        BY <2>1, RecursionExists
    <2> QED BY <2>2, <2>3 DEF FollowsAll
<1>2. \A n \in Nat : g[n] = IF n = 0 THEN a ELSE S[n - 1][g[n - 1]]
    <2> SUFFICES ASSUME NEW n \in Nat, n # 0 PROVE g[n] = S[n - 1][g[n - 1]]
        BY <1>1
    <2>1. n - 1 \in Nat /\ (n - 1) + 1 = n
        OBVIOUS
    <2> QED BY <2>1, <1>1
<1>3. g = [n \in Nat |-> g[n]]
    OBVIOUS
<1>4. Eqn(g)
    BY <1>2, <1>3
<1>5. Eqn(f)
    <2>1. f = CHOOSE h : Eqn(h)
        OBVIOUS
    <2> HIDE DEF Eqn
    <2> QED BY <1>4, <2>1
<1>6. f[0] = a
    BY <1>5
<1>7. ASSUME NEW n \in Nat PROVE f[n + 1] = S[n][f[n]]
    <2>1. f = [k \in Nat |-> IF k = 0 THEN a ELSE S[k - 1][f[k - 1]]]
        BY <1>5
    <2>2. n + 1 \in Nat /\ n + 1 # 0 /\ (n + 1) - 1 = n
        OBVIOUS
    <2>3. f[n + 1] = S[(n + 1) - 1][f[(n + 1) - 1]]
        BY <2>1, <2>2
    <2> QED BY <2>2, <2>3
<1> DEFINE T == {n \in Nat : f[n] \in V}
<1>8. 0 \in T
    BY <1>6
<1>9. \A n \in T : n + 1 \in T
    BY <1>7
<1> HIDE DEF T
<1>10. T = Nat
    BY <1>8, <1>9, SetInduction DEF T
<1> QED BY <1>6, <1>7, <1>10 DEF T

LEMMA ForwardsFollow ==
    ASSUME NEW v \in WorkStates, NEW message \in WorkStates, NEW start \in Int
    PROVE  LET f == Forwards(v, message, start) IN
           /\ f[0] = v
           /\ \A n \in Nat : f[n] \in WorkStates
           /\ \A n \in Nat : f[n + 1] = MixRound(message, start + n)[f[n]]
<1> DEFINE S == [n \in Nat |-> MixRound(message, start + n)]
           f == Forwards(v, message, start)
<1>1. \A n \in Nat : S[n] \in [WorkStates -> WorkStates]
    <2> SUFFICES ASSUME NEW n \in Nat
                 PROVE  MixRound(message, start + n) \in [WorkStates -> WorkStates]
        OBVIOUS
    <2>1. start + n \in Int
        OBVIOUS
    <2> QED BY <2>1, RoundUndone
<1>2. ASSUME NEW n \in Nat, n # 0
      PROVE  S[n - 1] = MixRound(message, start + n - 1)
    <2>1. n - 1 \in Nat /\ start + (n - 1) = start + n - 1
        BY <1>2
    <2> QED BY <2>1
<1>3. \A g : [n \in Nat |-> IF n = 0 THEN v
                            ELSE MixRound(message, start + n - 1)[g[n - 1]]]
            = [n \in Nat |-> IF n = 0 THEN v ELSE S[n - 1][g[n - 1]]]
    <2> HIDE DEF S
    <2> QED BY <1>2
<1>4. f = CHOOSE g : g = [n \in Nat |-> IF n = 0 THEN v
                              ELSE MixRound(message, start + n - 1)[g[n - 1]]]
    BY DEF Forwards
<1>5. f = CHOOSE g : g = [n \in Nat |-> IF n = 0 THEN v ELSE S[n - 1][g[n - 1]]]
    <2> HIDE DEF S, f
    <2> QED BY <1>3, <1>4
<1>6. \A n \in Nat : S[n] = MixRound(message, start + n)
    OBVIOUS
<1> HIDE DEF S, f
<1>7. /\ f[0] = v
      /\ \A n \in Nat : f[n] \in WorkStates
      /\ \A n \in Nat : f[n + 1] = S[n][f[n]]
    BY <1>1, <1>5, LoopFollows
<1> QED BY <1>6, <1>7 DEF f

LEMMA BackwardsFollow ==
    ASSUME NEW v \in WorkStates, NEW message \in WorkStates, NEW end \in Int
    PROVE  LET f == Backwards(v, message, end) IN
           /\ f[0] = v
           /\ \A n \in Nat : f[n] \in WorkStates
           /\ \A n \in Nat :
                  f[n + 1] = MixRoundInverse(message, end - (n + 1))[f[n]]
<1> DEFINE S == [n \in Nat |-> MixRoundInverse(message, end - (n + 1))]
           f == Backwards(v, message, end)
<1>1. \A n \in Nat : S[n] \in [WorkStates -> WorkStates]
    <2> SUFFICES ASSUME NEW n \in Nat
                 PROVE  MixRoundInverse(message, end - (n + 1))
                            \in [WorkStates -> WorkStates]
        OBVIOUS
    <2>1. end - (n + 1) \in Int
        OBVIOUS
    <2> QED BY <2>1, RoundUndone
<1>2. ASSUME NEW n \in Nat, n # 0
      PROVE  S[n - 1] = MixRoundInverse(message, end - n)
    <2>1. n - 1 \in Nat /\ (n - 1) + 1 = n
        BY <1>2
    <2> QED BY <2>1
<1>3. \A g : [n \in Nat |-> IF n = 0 THEN v
                            ELSE MixRoundInverse(message, end - n)[g[n - 1]]]
            = [n \in Nat |-> IF n = 0 THEN v ELSE S[n - 1][g[n - 1]]]
    <2> HIDE DEF S
    <2> QED BY <1>2
<1>4. f = CHOOSE g : g = [n \in Nat |-> IF n = 0 THEN v
                              ELSE MixRoundInverse(message, end - n)[g[n - 1]]]
    BY DEF Backwards
<1>5. f = CHOOSE g : g = [n \in Nat |-> IF n = 0 THEN v ELSE S[n - 1][g[n - 1]]]
    <2> HIDE DEF S, f
    <2> QED BY <1>3, <1>4
<1>6. \A n \in Nat : S[n] = MixRoundInverse(message, end - (n + 1))
    OBVIOUS
<1> HIDE DEF S, f
<1>7. /\ f[0] = v
      /\ \A n \in Nat : f[n] \in WorkStates
      /\ \A n \in Nat : f[n + 1] = S[n][f[n]]
    BY <1>1, <1>5, LoopFollows
<1> QED BY <1>6, <1>7 DEF f

\* A window on top of a window is one window.
LEMMA WindowsCompose ==
    ASSUME NEW v \in WorkStates, NEW message \in WorkStates, NEW start \in Nat,
           NEW i \in Nat, NEW n \in Nat
    PROVE  Forwards(Forwards(v, message, start)[i], message, start + i)[n]
           = Forwards(v, message, start)[i + n]
<1> DEFINE f == Forwards(v, message, start)
           g == Forwards(f[i], message, start + i)
           T == {k \in Nat : g[k] = f[i + k]}
<1>1. /\ \A k \in Nat : f[k] \in WorkStates
      /\ \A k \in Nat : f[k + 1] = MixRound(message, start + k)[f[k]]
    <2>1. start \in Int
        OBVIOUS
    <2> QED BY <2>1, ForwardsFollow
<1>2. f[i] \in WorkStates /\ start + i \in Int
    <2> HIDE DEF f
    <2> QED BY <1>1
<1> HIDE DEF f
<1>3. /\ g[0] = f[i]
      /\ \A k \in Nat : g[k + 1] = MixRound(message, (start + i) + k)[g[k]]
    <2> DEFINE w == f[i]
               t == start + i
    <2>1. w \in WorkStates /\ t \in Int
        BY <1>2
    <2>2. g = Forwards(w, message, t)
        OBVIOUS
    <2> HIDE DEF w, t
    <2>3. LET h == Forwards(w, message, t) IN
          h[0] = w /\ \A k \in Nat : h[k + 1] = MixRound(message, t + k)[h[k]]
        BY <2>1, ForwardsFollow
    <2> HIDE DEF g
    <2> QED BY <2>2, <2>3 DEF w, t
<1> HIDE DEF g
<1>4. 0 \in T
    BY <1>3
<1>5. ASSUME NEW k \in T PROVE k + 1 \in T
    <2>1. k \in Nat /\ i + k \in Nat /\ (start + i) + k = start + (i + k)
          /\ i + (k + 1) = (i + k) + 1
        OBVIOUS
    <2>2. g[k + 1] = MixRound(message, start + (i + k))[f[i + k]]
        BY <1>3, <2>1
    <2>3. f[(i + k) + 1] = MixRound(message, start + (i + k))[f[i + k]]
        BY <1>1, <2>1
    <2> QED BY <2>1, <2>2, <2>3
<1> HIDE DEF T
<1>6. T = Nat
    BY <1>4, <1>5, SetInduction DEF T
<1> QED BY <1>6 DEF T, f, g

\* The inverse of the last k rounds of a window leaves those before them.
LEMMA WindowUndone ==
    ASSUME NEW v \in WorkStates, NEW message \in WorkStates, NEW start \in Nat,
           NEW n \in Nat, NEW k \in 0..n
    PROVE  Backwards(Forwards(v, message, start)[n], message, start + n)[k]
           = Forwards(v, message, start)[n - k]
<1> DEFINE f == Forwards(v, message, start)
           g == Backwards(f[n], message, start + n)
           T == {j \in 0..n : g[j] = f[n - j]}
<1>1. /\ \A j \in Nat : f[j] \in WorkStates
      /\ \A j \in Nat : f[j + 1] = MixRound(message, start + j)[f[j]]
    BY ForwardsFollow
<1>2. f[n] \in WorkStates /\ start + n \in Int
    <2> HIDE DEF f
    <2> QED BY <1>1
<1> HIDE DEF f
<1>3. /\ g[0] = f[n]
      /\ \A j \in Nat :
             g[j + 1] = MixRoundInverse(message, (start + n) - (j + 1))[g[j]]
    <2> DEFINE w == f[n]
               t == start + n
    <2>1. w \in WorkStates /\ t \in Int
        BY <1>2
    <2>2. g = Backwards(w, message, t)
        OBVIOUS
    <2> HIDE DEF w, t
    <2>3. LET h == Backwards(w, message, t) IN
          /\ h[0] = w
          /\ \A j \in Nat : h[j + 1] = MixRoundInverse(message, t - (j + 1))[h[j]]
        BY <2>1, BackwardsFollow
    <2> HIDE DEF g
    <2> QED BY <2>2, <2>3 DEF w, t
<1> HIDE DEF g
<1>4. 0 \in T
    BY <1>3
<1>5. ASSUME NEW j \in 0..(n - 1), j \in T PROVE j + 1 \in T
    <2> DEFINE p == n - (j + 1)
    <2>1. p \in Nat /\ p + 1 = n - j /\ (start + n) - (j + 1) = start + p
          /\ j \in Nat /\ start + p \in Int /\ j + 1 \in 0..n
        OBVIOUS
    <2>2. g[j] = f[p + 1]
        BY <1>5, <2>1
    <2>3. f[p + 1] = MixRound(message, start + p)[f[p]]
        BY <1>1, <2>1
    <2>4. g[j + 1] = MixRoundInverse(message, start + p)[g[j]]
        BY <1>3, <2>1
    <2> HIDE DEF p
    <2>5. MixRoundInverse(message, start + p)[MixRound(message, start + p)[f[p]]]
          = f[p]
        BY <1>1, <2>1, RoundUndone
    <2>6. g[j + 1] = f[p]
        BY <2>2, <2>3, <2>4, <2>5
    <2> QED BY <2>1, <2>6 DEF p
<1> HIDE DEF T
<1>6. \A j \in 0..n : j \in T
    <2>1. \A j \in 0..(n - 1) : j \in T => j + 1 \in T
        BY <1>5
    <2> QED BY <1>4, <2>1, BoundedInduction
<1> QED BY <1>6 DEF T, f, g
-----------------------------------------------------------------------------
\* The client.

\* The inductive invariant is the type invariant with WindowsAgree.
IInv == TypeOK /\ WindowsAgree

LEMMA PreparedIsWork ==
    ASSUME NEW in \in Inputs
    PROVE  Prepare(in) \in WorkStates /\ in.message \in WorkStates
<1>1. /\ in.state \in [0..7 -> Word] /\ in.message \in WorkStates
      /\ in.block_length \in Word /\ in.counter \in Word
      /\ in.domain \in Word /\ in.flags \in Word
    BY InputAssumption DEF Arguments
<1>2. StateWords * Pow2[WordBits - 8] \in Word
    <2>1. WordBits - 8 \in Nat /\ WordBits = (WordBits - 8) + 8 /\ WordBits - 5 \in Nat
        BY WordAssumption
    <2>2. Pow2[0] = 1 /\ Pow2[0 + 1] = 2 * Pow2[0] /\ Pow2[1 + 1] = 2 * Pow2[1]
          /\ Pow2[2 + 1] = 2 * Pow2[2]
        BY Pow2Equation
    <2>3. Pow2[3] = 8
        BY <2>2
    <2>4. Pow2[3 + (WordBits - 8)] = Pow2[3] * Pow2[WordBits - 8]
        BY <2>1, Pow2Sum
    <2>5. 3 + (WordBits - 8) = WordBits - 5 /\ WordBits - 5 < WordBits
        BY WordAssumption
    <2>6. 2 * Pow2[WordBits - 5] <= Modulus /\ Pow2[WordBits - 5] \in Nat \ {0}
        BY <2>1, <2>5, WordAssumption, Pow2Monotone, Pow2Positive DEF Modulus
    <2> QED BY <2>3, <2>4, <2>5, <2>6, WordRange, ModulusPositive DEF StateWords
<1>3. ASSUME NEW i \in Indices
      PROVE  (IF i < 8 THEN in.state[i]
              ELSE IF i < 12 THEN IV[i - 8]
              ELSE BitXor(IV[i - 8], Tweak(in)[i - 11])) \in Word
    <2>1. CASE i < 8
        <3>1. i \in 0..7
            BY <2>1 DEF Indices
        <3> QED BY <1>1, <2>1, <3>1
    <2>2. CASE i >= 8
        <3>1. i - 8 \in 0..7 /\ i \in Int
            BY <2>2 DEF Indices
        <3>2. IV[i - 8] \in Word
            BY <3>1, InputAssumption
        <3>3. \A j \in 1..4 : Tweak(in)[j] \in Word
            BY <1>1, <1>2, XorAssumption DEF Tweak
        <3>4. i >= 12 => i - 11 \in 1..4
            BY <2>2 DEF Indices
        <3>5. i >= 12 => BitXor(IV[i - 8], Tweak(in)[i - 11]) \in Word
            BY <3>2, <3>3, <3>4, XorAssumption
        <3> QED BY <2>2, <3>1, <3>2, <3>5
    <2> QED BY <2>1, <2>2 DEF Indices
<1> QED BY <1>1, <1>3 DEF Prepare, WorkStates

\* Once the work state agrees, so does its feed-forward.
LEMMA WorkAgrees ==
    work = RoundsForward(Prepare(input), input.message, 0, at) => WindowsAgree
BY DEF WindowsAgree, CompressRounds

LEMMA InitIInv == Init => IInv
<1> SUFFICES ASSUME Init PROVE IInv
    OBVIOUS
<1>1. input \in Inputs /\ work = Prepare(input) /\ at = 0 /\ ok = TRUE
    BY DEF Init
<1>2. work \in WorkStates /\ input.message \in WorkStates
    BY <1>1, PreparedIsWork
<1>3. Forwards(Prepare(input), input.message, 0)[0] = Prepare(input)
    <2>1. Prepare(input) \in WorkStates /\ 0 \in Int
        BY <1>1, PreparedIsWork
    <2> QED BY <2>1, <1>2, ForwardsFollow
<1>4. WindowsAgree
    BY <1>1, <1>3, WorkAgrees DEF RoundsForward
<1>5. TypeOK
    BY <1>1, <1>2 DEF TypeOK, Rounds
<1> QED BY <1>4, <1>5 DEF IInv

LEMMA ForwardKeeps ==
    ASSUME IInv, NEW count \in 0..Rounds, Forward(count)
    PROVE  IInv'
<1> DEFINE v == Prepare(input)
           m == input.message
<1>1. v \in WorkStates /\ m \in WorkStates /\ input \in Inputs
    BY PreparedIsWork DEF IInv, TypeOK
<1>2. /\ at \in Nat /\ count \in Nat /\ at + count \in 0..Rounds
      /\ input' = input /\ at' = at + count /\ ok' = TRUE
    BY DEF IInv, TypeOK, Forward, WindowAccepted, Rounds
<1>3. work' = Forwards(Forwards(v, m, 0)[at], m, at)[count]
    BY DEF IInv, WindowsAgree, Forward, RoundsForward
<1> HIDE DEF v, m
<1>4. work' = Forwards(v, m, 0)[at + count]
    <2>1. 0 + at = at /\ 0 \in Nat
        BY <1>2
    <2>2. Forwards(Forwards(v, m, 0)[at], m, 0 + at)[count]
          = Forwards(v, m, 0)[at + count]
        BY <1>1, <1>2, <2>1, WindowsCompose
    <2> QED BY <1>3, <2>1, <2>2
<1>5. work' \in WorkStates
    <2>1. at + count \in Nat /\ 0 \in Int
        BY <1>2
    <2> QED BY <1>1, <1>4, <2>1, ForwardsFollow
<1>6. (work = RoundsForward(Prepare(input), input.message, 0, at))'
    BY <1>2, <1>4 DEF RoundsForward, v, m
<1>7. WindowsAgree'
    BY <1>6 DEF WindowsAgree, CompressRounds
<1>8. TypeOK'
    BY <1>1, <1>2, <1>5 DEF TypeOK
<1> QED BY <1>7, <1>8 DEF IInv

LEMMA InverseKeeps ==
    ASSUME IInv, NEW count \in 0..Rounds, Backward(count)
    PROVE  IInv'
<1> DEFINE v == Prepare(input)
           m == input.message
<1>1. v \in WorkStates /\ m \in WorkStates /\ input \in Inputs
    BY PreparedIsWork DEF IInv, TypeOK
<1>2. /\ at \in Nat /\ count \in 0..at /\ at - count \in 0..Rounds
      /\ input' = input /\ at' = at - count /\ ok' = TRUE
      /\ (at - count) + count = at
    BY DEF IInv, TypeOK, Backward, Rounds
<1>3. work' = Backwards(Forwards(v, m, 0)[at], m, at)[count]
    BY <1>2 DEF IInv, WindowsAgree, Backward, RoundsForward, RoundsInverse
<1> HIDE DEF v, m
<1>4. work' = Forwards(v, m, 0)[at - count]
    <2>1. 0 + at = at /\ 0 \in Nat
        BY <1>2
    <2>2. Backwards(Forwards(v, m, 0)[at], m, 0 + at)[count]
          = Forwards(v, m, 0)[at - count]
        BY <1>1, <1>2, <2>1, WindowUndone
    <2> QED BY <1>3, <2>1, <2>2
<1>5. work' \in WorkStates
    <2>1. at - count \in Nat /\ 0 \in Int
        BY <1>2
    <2> QED BY <1>1, <1>4, <2>1, ForwardsFollow
<1>6. (work = RoundsForward(Prepare(input), input.message, 0, at))'
    BY <1>2, <1>4 DEF RoundsForward, v, m
<1>7. WindowsAgree'
    BY <1>6 DEF WindowsAgree, CompressRounds
<1>8. TypeOK'
    BY <1>1, <1>2, <1>5 DEF TypeOK
<1> QED BY <1>7, <1>8 DEF IInv

\* Both are inductive together.
THEOREM MixInvariant == Spec => []IInv
<1>1. Init => IInv
    BY InitIInv
<1>2. IInv /\ [Next]_vars => IInv'
    <2> SUFFICES ASSUME IInv, [Next]_vars PROVE IInv'
        OBVIOUS
    <2>1. ASSUME NEW count \in 0..Rounds, Forward(count) PROVE IInv'
        BY <2>1, ForwardKeeps
    <2>2. ASSUME NEW count \in 0..Rounds, Backward(count) PROVE IInv'
        BY <2>2, InverseKeeps
    <2>3. ASSUME NEW start, NEW count, Refuse(start, count) PROVE IInv'
        BY <2>3 DEF Refuse, IInv, TypeOK, WindowsAgree, CompressRounds
    <2>4. CASE UNCHANGED vars
        BY <2>4 DEF vars, IInv, TypeOK, WindowsAgree, CompressRounds
    <2> QED BY <2>1, <2>2, <2>3, <2>4 DEF Next
<1> QED BY <1>1, <1>2, PTL DEF Spec

\* The client always holds sixteen words, between two of the sixteen rounds.
THEOREM MixTypes == Spec => []TypeOK
<1>1. IInv => TypeOK
    BY DEF IInv
<1> QED BY <1>1, MixInvariant, PTL

\* Every walk up and down the rounds agrees with the loop of the compression.
THEOREM MixWindows == Spec => []WindowsAgree
<1>1. IInv => WindowsAgree
    BY DEF IInv
<1> QED BY <1>1, MixInvariant, PTL

-----------------------------------------------------------------------------
\* Every word enters.

LEMMA WrapDiffers ==
    ASSUME NEW x \in Int, NEW m \in Word, NEW n \in Word, m # n
    PROVE  Wrap(x + m) # Wrap(x + n)
<1>1. m \in Int /\ n \in Int
    BY WordRange, ModulusPositive
<1>2. x + m = m + x /\ x + n = n + x
    BY <1>1
<1>3. Wrap(Wrap(m + x) - x) = m /\ Wrap(Wrap(n + x) - x) = n
    BY WrapUndone
<1> QED BY <1>2, <1>3

\* A half tells apart two words it mixes in, and two states it starts from.
LEMMA HalfTells ==
    ASSUME NEW v \in WorkStates, NEW q, FourOf(q), NEW m \in Word, NEW n \in Word,
           m # n, NEW r
    PROVE  Half(v, q, m, r) # Half(v, q, n, r)
<1>1. /\ q[1] \in Indices /\ q[1] # q[2] /\ q[1] # q[3] /\ q[1] # q[4]
      /\ v[q[1]] \in Word /\ v[q[2]] \in Word /\ DOMAIN v = Indices
    BY DEF FourOf, WorkStates
<1>2. ASSUME NEW k
      PROVE  Half(v, q, k, r)[q[1]] = Wrap(v[q[1]] + v[q[2]] + k)
    <2> DEFINE a == Wrap(v[q[1]] + v[q[2]] + k)
               d == Rotr(BitXor(v[q[4]], a), r[1])
               c == Wrap(v[q[3]] + d)
               b == Rotr(BitXor(v[q[2]], c), r[2])
    <2>1. Half(v, q, k, r)
          = [v EXCEPT ![q[1]] = a, ![q[2]] = b, ![q[3]] = c, ![q[4]] = d]
        BY DEF Half
    <2> HIDE DEF a, b, c, d
    <2>2. Half(v, q, k, r)[q[1]] = a
        BY <1>1, <2>1
    <2> QED BY <2>2 DEF a
<1>3. v[q[1]] + v[q[2]] \in Int
    BY <1>1, WordRange, ModulusPositive
<1>4. Wrap(v[q[1]] + v[q[2]] + m) # Wrap(v[q[1]] + v[q[2]] + n)
    BY <1>3, WrapDiffers
<1> QED BY <1>2, <1>4

LEMMA HalfSeparates ==
    ASSUME NEW v \in WorkStates, NEW w \in WorkStates, v # w,
           NEW q, FourOf(q), NEW m \in Word, NEW half \in {1, 2}
    PROVE  Half(v, q, m, Rotations(half)) # Half(w, q, m, Rotations(half))
<1>1. /\ HalfInverse(Half(v, q, m, Rotations(half)), q, m, Rotations(half)) = v
      /\ HalfInverse(Half(w, q, m, Rotations(half)), q, m, Rotations(half)) = w
    BY RotationsRange, HalfUndone
<1> QED BY <1>1

\* So does G, with either of its words.
LEMMA MixGTells ==
    ASSUME NEW v \in WorkStates, NEW q, FourOf(q),
           NEW x \in Word, NEW y \in Word, NEW s \in Word, NEW t \in Word,
           \/ x # s /\ y = t
           \/ x = s /\ y # t
    PROVE  MixG(v, q, x, y) # MixG(v, q, s, t)
<1> DEFINE h == Half(v, q, x, Rotations(1))
           k == Half(v, q, s, Rotations(1))
<1>1. h \in WorkStates /\ k \in WorkStates
    BY RotationsRange, HalfUndone
<1>2. CASE x # s /\ y = t
    <2>1. h # k
        BY <1>2, HalfTells
    <2> HIDE DEF h, k
    <2>2. Half(h, q, y, Rotations(2)) # Half(k, q, y, Rotations(2))
        BY <1>1, <2>1, HalfSeparates
    <2> QED BY <1>2, <2>2 DEF MixG, h, k
<1>3. CASE x = s /\ y # t
    <2>1. h = k
        BY <1>3
    <2> HIDE DEF h, k
    <2>2. Half(h, q, y, Rotations(2)) # Half(h, q, t, Rotations(2))
        BY <1>1, <1>3, HalfTells
    <2> QED BY <2>1, <2>2 DEF MixG, h, k
<1> QED BY <1>2, <1>3

\* Every row of the table is a permutation: each word is at one place of it.
LEMMA SigmaOnce ==
    ASSUME NEW round \in Int, NEW i \in Indices
    PROVE  \E p \in 1..16 : /\ Sigma(round)[p] = i
                            /\ \A o \in 1..16 : Sigma(round)[o] = i => o = p
<1>1. round % 10 \in 0..9
    OBVIOUS
<1>2. ASSUME NEW n \in 1..10
      PROVE  \E p \in 1..16 : /\ SigmaRows[n][p] = i
                              /\ \A o \in 1..16 : SigmaRows[n][o] = i => o = p
    <2> USE DEF SigmaRows, Indices
    <2>1. CASE n = 1
        BY <2>1
    <2>2. CASE n = 2
        BY <2>2
    <2>3. CASE n = 3
        BY <2>3
    <2>4. CASE n = 4
        BY <2>4
    <2>5. CASE n = 5
        BY <2>5
    <2>6. CASE n = 6
        BY <2>6
    <2>7. CASE n = 7
        BY <2>7
    <2>8. CASE n = 8
        BY <2>8
    <2>9. CASE n = 9
        BY <2>9
    <2>10. CASE n = 10
        BY <2>10
    <2>11. \/ n = 1 \/ n = 2 \/ n = 3 \/ n = 4 \/ n = 5
           \/ n = 6 \/ n = 7 \/ n = 8 \/ n = 9 \/ n = 10
        OBVIOUS
    <2> QED
        BY ONLY <2>1, <2>2, <2>3, <2>4, <2>5, <2>6, <2>7, <2>8, <2>9, <2>10,
                <2>11, Zenon
<1> DEFINE n == 1 + (round % 10)
<1>3. n \in 1..10 /\ Sigma(round) = SigmaRows[n]
    BY <1>1 DEF Sigma
<1> HIDE DEF n
<1> QED BY <1>2, <1>3

\* Two blocks that differ in one word differ in one word of one call.
LEMMA OneCallDiffers ==
    ASSUME NEW message \in WorkStates, NEW round \in Int, NEW i \in Indices,
           NEW word \in Word, word # message[i]
    PROVE  LET other == [message EXCEPT ![i] = word] IN
           \E j \in 1..8 :
               /\ \/ /\ MessageAt(message, round, j, 1) # MessageAt(other, round, j, 1)
                     /\ MessageAt(message, round, j, 2) = MessageAt(other, round, j, 2)
                  \/ /\ MessageAt(message, round, j, 1) = MessageAt(other, round, j, 1)
                     /\ MessageAt(message, round, j, 2) # MessageAt(other, round, j, 2)
               /\ \A o \in 1..8, k \in 1..2 :
                      o # j => MessageAt(message, round, o, k)
                               = MessageAt(other, round, o, k)
<1> DEFINE other == [message EXCEPT ![i] = word]
           At(o, k) == 2 * o - 2 + k
<1>1. PICK p \in 1..16 : /\ Sigma(round)[p] = i
                         /\ \A o \in 1..16 : Sigma(round)[o] = i => o = p
    BY SigmaOnce
<1>2. \A o \in 1..8, k \in 1..2 :
          At(o, k) \in 1..16 /\ Sigma(round)[At(o, k)] \in Indices
    BY SigmaNamesWords
<1>3. ASSUME NEW o \in 1..8, NEW k \in 1..2
      PROVE  MessageAt(message, round, o, k) = MessageAt(other, round, o, k)
             <=> At(o, k) # p
    <2>1. DOMAIN message = Indices
        BY DEF WorkStates
    <2>2. CASE At(o, k) = p
        <3>1. Sigma(round)[At(o, k)] = i
            BY <1>1, <2>2
        <3> QED BY <2>1, <2>2, <3>1 DEF MessageAt
    <2>3. CASE At(o, k) # p
        <3>1. Sigma(round)[At(o, k)] # i
            BY <1>1, <1>2, <2>3
        <3> QED BY <1>2, <2>1, <2>3, <3>1 DEF MessageAt
    <2> QED BY <2>2, <2>3
<1>4. \E j \in 1..8 : \E k \in 1..2 :
          At(j, k) = p
    <2> DEFINE j == (p + 1) \div 2
    <2>1. j \in 1..8 /\ p - (2 * j - 2) \in 1..2
        OBVIOUS
    <2>2. At(j, p - (2 * j - 2)) = p
        BY <2>1
    <2> QED BY <2>1, <2>2
<1>5. PICK j \in 1..8 : \E k \in 1..2 : At(j, k) = p
    BY <1>4
<1>6. \A o \in 1..8, k \in 1..2 : o # j => At(o, k) # p
    BY <1>5
<1>7. (At(j, 1) = p /\ At(j, 2) # p) \/ (At(j, 1) # p /\ At(j, 2) = p)
    BY <1>5
<1> HIDE DEF At, other
<1>8. 1 \in 1..2 /\ 2 \in 1..2
    OBVIOUS
<1> QED BY <1>3, <1>6, <1>7, <1>8 DEF other

\* A round of two blocks that differ in one word, from one work state, ends in
\* two.
LEMMA RoundTells ==
    ASSUME NEW message \in WorkStates, NEW round \in Int, NEW i \in Indices,
           NEW word \in Word, word # message[i], NEW v \in WorkStates
    PROVE  MixRound(message, round)[v]
           # MixRound([message EXCEPT ![i] = word], round)[v]
<1> DEFINE other == [message EXCEPT ![i] = word]
           C(u, n) == MixCall(u, message, round, n)
           D(u, n) == MixCall(u, other, round, n)
           X(m, n) == MessageAt(m, round, n, 1)
           Y(m, n) == MessageAt(m, round, n, 2)
<1>1. other \in WorkStates
    BY DEF WorkStates
<1>2. PICK j \in 1..8 :
          /\ \/ X(message, j) # X(other, j) /\ Y(message, j) = Y(other, j)
             \/ X(message, j) = X(other, j) /\ Y(message, j) # Y(other, j)
          /\ \A o \in 1..8, k \in 1..2 :
                 o # j => MessageAt(message, round, o, k)
                          = MessageAt(other, round, o, k)
    BY OneCallDiffers
<1> DEFINE Apart(u, w, n) ==
               /\ u \in WorkStates /\ w \in WorkStates
               /\ n < j => u = w
               /\ n >= j => u # w
<1> HIDE DEF other
<1>3. ASSUME NEW n \in 1..8
      PROVE  /\ X(message, n) \in Word /\ Y(message, n) \in Word
             /\ X(other, n) \in Word /\ Y(other, n) \in Word
    BY <1>1, MessageWord
<1>4. ASSUME NEW n \in 1..8, NEW u, NEW w, Apart(u, w, n - 1)
      PROVE  Apart(C(u, n), D(w, n), n)
    <2>1. C(u, n) \in WorkStates /\ D(w, n) \in WorkStates
        BY <1>1, <1>4, CallUndone
    <2>2. CASE n < j
        <3>1. u = w /\ X(message, n) = X(other, n) /\ Y(message, n) = Y(other, n)
            BY <1>2, <1>4, <2>2
        <3> QED BY <2>1, <2>2, <3>1 DEF MixCall
    <2>3. CASE n = j
        <3>1. u = w /\ u \in WorkStates
            BY <1>4, <2>3
        <3>2. FourOf(Quarters[n])
            BY QuartersAreFour
        <3>3. MixG(u, Quarters[n], X(message, n), Y(message, n))
              # MixG(u, Quarters[n], X(other, n), Y(other, n))
            <4>1. \/ X(message, n) # X(other, n) /\ Y(message, n) = Y(other, n)
                  \/ X(message, n) = X(other, n) /\ Y(message, n) # Y(other, n)
                BY <1>2, <2>3
            <4> DEFINE x == X(message, n)  s == X(other, n)
                       y == Y(message, n)  t == Y(other, n)
                       q == Quarters[n]
            <4>2. /\ x \in Word /\ y \in Word /\ s \in Word /\ t \in Word
                  /\ (x # s /\ y = t) \/ (x = s /\ y # t)
                BY <1>3, <4>1
            <4> HIDE DEF x, y, s, t, q
            <4>3. FourOf(q)
                BY <3>2 DEF q
            <4>4. MixG(u, q, x, y) # MixG(u, q, s, t)
                BY <3>1, <4>2, <4>3, MixGTells
            <4> QED BY <4>4 DEF x, y, s, t, q
        <3> QED BY <2>1, <2>3, <3>1, <3>3 DEF MixCall
    <2>4. CASE n > j
        <3>1. u # w
            BY <1>4, <2>4
        <3>2. D(w, n) = C(w, n)
            BY <1>2, <2>4 DEF MixCall
        <3>3. /\ MixCallInverse(C(u, n), message, round, n) = u
              /\ MixCallInverse(C(w, n), message, round, n) = w
            BY <1>4, CallUndone
        <3> QED BY <2>1, <2>4, <3>1, <3>2, <3>3
    <2> QED BY <2>2, <2>3, <2>4
<1>5. Apart(v, v, 0)
    OBVIOUS
<1>6. /\ MixRound(message, round)[v] =
             C(C(C(C(C(C(C(C(v, 1), 2), 3), 4), 5), 6), 7), 8)
      /\ MixRound(other, round)[v] =
             D(D(D(D(D(D(D(D(v, 1), 2), 3), 4), 5), 6), 7), 8)
    BY DEF MixRound, FourCalls
<1> HIDE DEF C, D, Apart
<1> DEFINE c1 == C(v, 1)   d1 == D(v, 1)
           c2 == C(c1, 2)  d2 == D(d1, 2)
           c3 == C(c2, 3)  d3 == D(d2, 3)
           c4 == C(c3, 4)  d4 == D(d3, 4)
           c5 == C(c4, 5)  d5 == D(d4, 5)
           c6 == C(c5, 6)  d6 == D(d5, 6)
           c7 == C(c6, 7)  d7 == D(d6, 7)
           c8 == C(c7, 8)  d8 == D(d7, 8)
<1>7. MixRound(message, round)[v] = c8 /\ MixRound(other, round)[v] = d8
    BY <1>6
<1>8. /\ 1 \in 1..8 /\ 1 - 1 = 0 /\ 2 \in 1..8 /\ 2 - 1 = 1
      /\ 3 \in 1..8 /\ 3 - 1 = 2 /\ 4 \in 1..8 /\ 4 - 1 = 3
      /\ 5 \in 1..8 /\ 5 - 1 = 4 /\ 6 \in 1..8 /\ 6 - 1 = 5
      /\ 7 \in 1..8 /\ 7 - 1 = 6 /\ 8 \in 1..8 /\ 8 - 1 = 7
    OBVIOUS
<1>9. Apart(c1, d1, 1)
    BY <1>4, <1>5, <1>8
<1> HIDE DEF c1, d1
<1>10. Apart(c2, d2, 2)
    BY <1>4, <1>8, <1>9
<1> HIDE DEF c2, d2
<1>11. Apart(c3, d3, 3)
    BY <1>4, <1>8, <1>10
<1> HIDE DEF c3, d3
<1>12. Apart(c4, d4, 4)
    BY <1>4, <1>8, <1>11
<1> HIDE DEF c4, d4
<1>13. Apart(c5, d5, 5)
    BY <1>4, <1>8, <1>12
<1> HIDE DEF c5, d5
<1>14. Apart(c6, d6, 6)
    BY <1>4, <1>8, <1>13
<1> HIDE DEF c6, d6
<1>15. Apart(c7, d7, 7)
    BY <1>4, <1>8, <1>14
<1> HIDE DEF c7, d7
<1>16. Apart(c8, d8, 8)
    BY <1>4, <1>8, <1>15
<1> HIDE DEF c8, d8
<1>17. c8 # d8
    BY <1>16 DEF Apart
<1> QED BY <1>7, <1>17 DEF other

\* Every word of a block enters every round, for every width of a word, every
\* block and every work state the client can hold.
THEOREM MixWordsEnter == Spec => []EveryWordEnters
<1>1. IInv => EveryWordEnters
    <2> SUFFICES ASSUME IInv, NEW i \in Indices
                 PROVE  MixRound(input.message, at)[work] #
                        MixRound([input.message EXCEPT ![i] = Wrap(@ + 1)], at)[work]
        BY DEF EveryWordEnters
    <2>1. /\ input.message \in WorkStates /\ work \in WorkStates /\ at \in Int
        BY PreparedIsWork DEF IInv, TypeOK
    <2> DEFINE old == input.message[i]
               new == Wrap(old + 1)
    <2>2. old \in Word /\ old \in Int /\ new \in Word
        <3>1. old \in Word
            BY <2>1 DEF WorkStates
        <3> HIDE DEF old
        <3>2. old \in Int
            BY <3>1, WordRange, ModulusPositive
        <3>3. new \in Word
            BY <3>2, WrapIsWord
        <3> QED BY <3>1, <3>2, <3>3
    <2>3. new # old
        <3>1. 0 \in Word /\ 1 \in Word
            <4>1. Pow2[0] = 1 /\ Pow2[1] = 2
                BY Pow2Equation
            <4>2. Pow2[1] <= Pow2[WordBits]
                BY WordAssumption, Pow2Monotone
            <4> QED BY <4>1, <4>2, WordAssumption, Pow2Positive DEF Word
        <3>2. Wrap(old + 0) # Wrap(old + 1)
            BY <2>2, <3>1, WrapDiffers
        <3>3. Wrap(old + 0) = old
            <4>1. Wrap(Wrap(old + 0) - 0) = old
                BY <2>2, WrapUndone
            <4>2. Wrap(old) = old
                <5> HIDE DEF old
                <5> DEFINE M == Modulus
                <5>1. M \in Nat \ {0} /\ old \in 0..(M - 1) /\ Wrap(old) = old % M
                    BY <2>2, WordRange, ModulusPositive DEF Wrap, Modulus
                <5> HIDE DEF M
                <5> QED BY <5>1
            <4>3. old + 0 = old
                BY <2>2
            <4> QED BY <4>2, <4>3
        <3> QED BY <3>2, <3>3
    <2> HIDE DEF old, new
    <2>4. MixRound(input.message, at)[work]
          # MixRound([input.message EXCEPT ![i] = new], at)[work]
        BY <2>1, <2>2, <2>3, RoundTells DEF old
    <2> QED BY <2>4 DEF new, old
<1> QED BY <1>1, MixInvariant, PTL
=============================================================================
