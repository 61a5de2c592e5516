------------------------ MODULE CryptanalysisProofs ------------------------
(***************************************************************************)
(* The cryptanalysis program, for any numbers of samples, candidates and    *)
(* bits: what the value a check returns tells of the lines it printed; that *)
(* every statistic a line is printed from is exactly that of the            *)
(* comparisons made for the line, the joins and searches over the sorted    *)
(* table among them; and that the program fails only by misfortune.        *)
(***************************************************************************)
EXTENDS Cryptanalysis, NatLemmas, SequenceTheorems

-----------------------------------------------------------------------------
(* Trails *)

\* The bit a pattern pairs with a bit is another bit of the block, whatever the
\* size of the block and of its words and the rotations are: the two flips of a
\* trail never undo each other.
THEOREM TrailsDiffer ==
    ASSUME NEW bit \in Bits, NEW pattern \in Patterns
    PROVE  /\ PairedBit(bit, pattern) \in Bits \ {bit}
           /\ TrailDifference(pattern, bit, PairedBit(bit, pattern)) # {}
<1> DEFINE word == bit \div WordBits
           word_bit == bit % WordBits
<1> USE TrailAssumption
<1>1. /\ BlockWords \in Nat \ {0} /\ WordBits \in Nat \ {0}
      /\ bit \in Nat /\ bit < BlockWords * WordBits
    BY DEF Bits
<1>2. /\ word \in Nat /\ word_bit \in 0..(WordBits - 1)
      /\ bit = WordBits * word + word_bit
    BY <1>1, DivMod
<1> HIDE DEF word, word_bit
<1>3. word < BlockWords
    <2>1. SUFFICES ASSUME BlockWords <= word PROVE FALSE
        BY <1>1, <1>2
    <2>2. BlockWords * WordBits <= word * WordBits
        BY <2>1, <1>1, <1>2, TimesMonotone
    <2> DEFINE before == WordBits * word
               all == BlockWords * WordBits
    <2>3. before \in Nat /\ all \in Nat /\ all <= before
        BY <2>2, <1>1, <1>2
    <2>4. bit = before + word_bit /\ bit < all
        BY <1>1, <1>2
    <2> HIDE DEF before, all
    <2> QED
        BY <2>3, <2>4, <1>1, <1>2
\* A word and a bit of it are a bit of the block, and no other pair is.
<1>4. ASSUME NEW w \in 0..(BlockWords - 1), NEW b \in 0..(WordBits - 1)
      PROVE  /\ w * WordBits + b \in Bits
             /\ w * WordBits + b = bit => w = word /\ b = word_bit
    <2> w \in Nat
        BY <1>1
    <2>1. /\ (w * WordBits + b) \div WordBits = w
          /\ (w * WordBits + b) % WordBits = b
        BY <1>1, DivModUnique
    <2>2. (w + 1) * WordBits <= BlockWords * WordBits
        BY <1>1, TimesMonotone
    <2>3. (w + 1) * WordBits = w * WordBits + WordBits
        BY <1>1
    <2>4. w * WordBits + b \in Bits
        <3> DEFINE before == w * WordBits
                   all == BlockWords * WordBits
        <3>1. /\ before \in Nat /\ all \in Nat
              /\ before + WordBits <= all
            BY <2>2, <2>3, <1>1
        <3> HIDE DEF before, all
        <3>2. before + b \in 0..(all - 1)
            BY <3>1, <1>1
        <3> QED
            BY <3>2 DEF before, all, Bits
    <2>5. w * WordBits + b = bit => w = word /\ b = word_bit
        BY <2>1, Zenon DEF word, word_bit
    <2> QED
        BY <2>4, <2>5
<1>5. PairedBit(bit, pattern) \in Bits \ {bit}
    <2>1. CASE pattern \in DOMAIN Rotations
        <3> DEFINE rotated == (word_bit + Rotations[pattern]) % WordBits
        <3>1. Rotations[pattern] \in Nat /\ Rotations[pattern] % WordBits # 0
            BY <2>1
        <3>2. rotated \in 0..(WordBits - 1) /\ rotated # word_bit
            <4> DEFINE r == Rotations[pattern]
                       q == r \div WordBits
                       s == r % WordBits
            <4>0. /\ q \in Nat /\ s \in 0..(WordBits - 1)
                  /\ r = WordBits * q + s
                <5> r \in Nat
                    BY <3>1
                <5> HIDE DEF r
                <5> QED
                    BY <1>1, DivMod
            <4>1. /\ q \in Nat /\ s \in 1..(WordBits - 1)
                  /\ r = WordBits * q + s
                BY <4>0, <3>1, <1>1
            <4>3. r \in Nat
                BY <3>1
            <4> HIDE DEF q, s, r
            <4> DEFINE whole == q * WordBits
            <4>2. /\ whole \in Nat
                  /\ r = whole + s
                  /\ (q + 1) * WordBits = whole + WordBits
                BY <4>1, <1>1
            <4>4. CASE word_bit + s < WordBits
                <5>1. word_bit + r = q * WordBits + (word_bit + s)
                    <6> HIDE DEF whole
                    <6>1. word_bit + r = whole + (word_bit + s)
                        BY <4>1, <4>2, <4>3, <1>2, <1>1
                    <6> QED
                        BY <6>1 DEF whole
                <5>2. word_bit + s \in 0..(WordBits - 1)
                    BY <4>1, <4>4, <1>2, <1>1
                <5>3. (word_bit + r) % WordBits = word_bit + s
                    <6>1. (q * WordBits + (word_bit + s)) % WordBits
                              = word_bit + s
                        BY <5>2, <4>1, <1>1, DivModUnique
                    <6> QED
                        BY <5>1, <6>1
                <5>4. word_bit + s # word_bit
                    BY <4>1, <1>2
                <5>5. rotated = word_bit + s
                    BY <5>3 DEF r
                <5> QED
                    BY <5>2, <5>4, <5>5
            <4>5. CASE word_bit + s >= WordBits
                <5>1. word_bit + r = (q + 1) * WordBits
                                         + (word_bit + s - WordBits)
                    <6> DEFINE next == (q + 1) * WordBits
                    <6>1. next = whole + WordBits
                        BY <4>2
                    <6> HIDE DEF next, whole
                    <6>2. word_bit + r = next + (word_bit + s - WordBits)
                        BY <6>1, <4>1, <4>2, <4>3, <1>2, <1>1
                    <6> QED
                        BY <6>2 DEF next
                <5>2. /\ word_bit + s - WordBits \in 0..(WordBits - 1)
                      /\ word_bit + s - WordBits < word_bit
                      /\ q + 1 \in Nat
                    BY <4>1, <4>5, <1>2, <1>1
                <5>3. (word_bit + r) % WordBits = word_bit + s - WordBits
                    <6>1. ((q + 1) * WordBits + (word_bit + s - WordBits))
                              % WordBits = word_bit + s - WordBits
                        BY <5>2, <1>1, DivModUnique
                    <6> QED
                        BY <5>1, <6>1
                <5> QED
                    BY <5>2, <5>3, <1>2, <1>1 DEF r
            <4> QED
                BY <4>4, <4>5, <4>1, <1>2, <1>1
        <3>3. PairedBit(bit, pattern) = word * WordBits + rotated
            BY <2>1 DEF PairedBit, word, word_bit
        <3>4. word \in 0..(BlockWords - 1)
            BY <1>1, <1>2, <1>3
        <3> HIDE DEF rotated
        <3> QED
            BY <3>2, <3>3, <3>4, <1>4
    <2>2. CASE pattern \notin DOMAIN Rotations
        <3> DEFINE next == (word + 1) % BlockWords
        <3>1. next \in 0..(BlockWords - 1) /\ next # word
            <4>1. CASE word + 1 < BlockWords
                <5>1. word + 1 = 0 * BlockWords + (word + 1)
                    BY <1>1, <1>2
                <5>2. (word + 1) % BlockWords = word + 1
                    BY <4>1, <1>1, <1>2
                <5> QED
                    BY <5>2, <4>1, <1>1, <1>2
            <4>2. CASE word + 1 = BlockWords
                <5>1. (word + 1) % BlockWords = 0
                    BY <4>2, <1>1
                <5> QED
                    BY <5>1, <4>2, <1>1, <1>2
            <4> QED
                BY <4>1, <4>2, <1>1, <1>2, <1>3
        <3>2. PairedBit(bit, pattern) = next * WordBits + word_bit
            BY <2>2 DEF PairedBit, word, word_bit
        <3> HIDE DEF next
        <3> QED
            BY <3>1, <3>2, <1>2, <1>4
    <2> QED
        BY <2>1, <2>2
<1>6. TrailDifference(pattern, bit, PairedBit(bit, pattern)) # {}
    BY <1>5, Zenon DEF TrailDifference, Flip
<1> QED
    BY <1>5, <1>6

-----------------------------------------------------------------------------
(* What a step does to what decides the exit code *)

verdict == <<check, line, all_ok, bad, ok, exit_code>>

\* Between two calls, all_ok follows the lines; the trail search may clear it
\* without one, with its only line.
IInv ==
    /\ check \in 1..(Len(Checks) + 1)
    /\ line \in Nat \ {0}
    /\ all_ok \in BOOLEAN /\ bad \in BOOLEAN /\ ok \in BOOLEAN
    /\ all_ok => ~bad
    /\ line = 1 /\ ~bad => all_ok
    /\ (check \in DOMAIN Checks /\ Name # "trail_search" /\ ~bad) => all_ok
    /\ check > Len(Checks) => (exit_code = 0 <=> ok)

LEMMA ChecksLength == Len(Checks) = 14 /\ DOMAIN Checks = 1..14
    BY DEF Checks

\* A comparison leaves the verdict alone.
LEMMA CompareStep ==
    ASSUME NEW seen, NEW counted, NEW unusual, Compare(seen, counted, unusual)
    PROVE  UNCHANGED verdict
BY DEF Compare, verdict

\* A line is printed after all its comparisons or fails, and a check returns
\* TRUE only when its last line is printed.
Printed ==
    /\ check \in DOMAIN Checks
    /\ \E lines, rest \in BOOLEAN :
           /\ PrintLines(lines, rest)
           /\ Name # "trail_search" => rest
           /\ step = Comparisons(Name) \/ ~lines

Returned ==
    /\ check \in DOMAIN Checks
    /\ \/ ~AllPrinted /\ Return(FALSE)
       \/ AllPrinted /\ Return(all_ok)

LEMMA LineIsPrinted ==
    ASSUME NEW names, NEW good, Reporting(names), PrintLine(good)
    PROVE  Printed
<1>1. PrintLines(good <=> TRUE, TRUE)
    BY Zenon DEF PrintLine, PrintLines, AllOk
<1> QED
    BY <1>1, Zenon DEF Printed, Reporting, In

LEMMA LineFails ==
    ASSUME NEW names, Comparing(names), PrintLine(FALSE)
    PROVE  Printed
BY Zenon DEF Printed, PrintLine, Comparing, In

LEMMA Refused ==
    ASSUME NEW names, Comparing(names), Return(FALSE)
    PROVE  Returned
BY Zenon DEF Returned, Comparing, In

LEMMA ReportedTrails ==
    ASSUME ReportTrails
    PROVE  Printed
<1> DEFINE Lines(even) ==
        /\ \A r \in 1..MixRounds : GoodTrail(stats.all[r], r, even)
        /\ \A p \in Patterns, r \in Reports :
               GoodTrail(stats.of[p][r], r, TRUE)
    Gain == stats.all[MixRounds].minimum_weight
                >= stats.all[1].minimum_weight + 128
<1>1. PICK even \in BOOLEAN : PrintLines(Lines(even), Gain)
    BY Zenon DEF ReportTrails
<1>2. Reporting({"trail_search"})
    BY Zenon DEF ReportTrails
<1> HIDE DEF Lines, Gain
<1>3. PrintLines(Lines(even) <=> TRUE, Gain <=> TRUE)
    BY <1>1, Zenon DEF PrintLines, AllOk
<1> QED
    BY <1>2, <1>3, Zenon DEF Printed, Reporting, In

LEMMA StepKinds ==
    ASSUME Next
    PROVE  UNCHANGED verdict \/ Printed \/ Returned
<1>1. CASE DifferentialBias
    BY <1>1, CompareStep, Refused, LineIsPrinted, Zenon
       DEF DifferentialBias, ReportPairs, CountPair
<1>2. CASE ReducedRoundSearch \/ RotationalPair \/ AdditiveDifferential
             \/ RelatedContext
    BY <1>2, CompareStep, Refused, LineIsPrinted, Zenon
       DEF ReducedRoundSearch, RotationalPair, AdditiveDifferential,
           RelatedContext, ComparePair, ReportPairs, CountPair
<1>3. CASE CheckLinear
    BY <1>3, CompareStep, Refused, LineIsPrinted, Zenon DEF CheckLinear
<1>4. CASE CheckProbability
    BY <1>4, CompareStep, Refused, LineIsPrinted, Zenon DEF CheckProbability
<1>5. CASE CompareTrail
    BY <1>5, CompareStep, Refused, Zenon DEF CompareTrail
<1>6. CASE ReportTrails
    BY <1>6, ReportedTrails
<1>7. CASE CheckRoundtrip
    BY <1>7, CompareStep, Refused, LineIsPrinted, Zenon DEF CheckRoundtrip
<1>8. CASE CheckRebound
    BY <1>8, CompareStep, Refused, LineIsPrinted, Zenon DEF CheckRebound
<1>9. CASE CheckMitm
    BY <1>9, CompareStep, LineFails, LineIsPrinted, Zenon DEF CheckMitm
<1>10. CASE CheckOutputs
    BY <1>10, CompareStep, Refused, LineIsPrinted, Zenon DEF CheckOutputs
<1>11. CASE CheckFixedPoints
    BY <1>11, CompareStep, Refused, LineIsPrinted, Zenon DEF CheckFixedPoints
<1>12. CASE CheckNearCollisions
    BY <1>12, CompareStep, LineIsPrinted, Zenon DEF CheckNearCollisions
<1>13. CASE ReturnAll
    BY <1>13, Zenon DEF ReturnAll, In, Returned
<1>14. CASE Exited
    BY <1>14 DEF Exited, vars, verdict
<1> QED
    BY <1>1, <1>2, <1>3, <1>4, <1>5, <1>6, <1>7, <1>8, <1>9, <1>10, <1>11,
       <1>12, <1>13, <1>14 DEF Next

-----------------------------------------------------------------------------

LEMMA ReturnSets ==
    ASSUME Returned
    PROVE  /\ check \in 1..Len(Checks)
           /\ check' = check + 1 /\ line' = 1
           /\ all_ok' = TRUE /\ bad' = FALSE
           /\ \/ ~AllPrinted /\ ok' = FALSE
              \/ AllPrinted /\ ok' = (ok /\ all_ok)
           /\ exit_code' = IF check < Len(Checks) \/ ok' THEN 0 ELSE 1
<1>1. check \in 1..Len(Checks)
    BY ChecksLength DEF Returned
<1> QED
    BY <1>1, Zenon DEF Returned, Return

LEMMA InvInit == Init => IInv
<1>1. Init => /\ check = 1 /\ line = 1
              /\ all_ok = TRUE /\ bad = FALSE /\ ok = TRUE
    BY Zenon DEF Init
<1>2. 1 \in 1..(Len(Checks) + 1) /\ 1 \in Nat \ {0} /\ ~(1 > Len(Checks))
    BY ChecksLength
<1> QED
    BY <1>1, <1>2, Zenon DEF IInv

LEMMA InvPreserved == IInv /\ [Next]_vars => IInv'
<1> SUFFICES ASSUME IInv, [Next]_vars PROVE IInv'
    OBVIOUS
<1>1. CASE UNCHANGED verdict
    BY <1>1 DEF IInv, verdict, Name
<1>2. CASE Printed
    BY <1>2, ChecksLength DEF IInv, Printed, PrintLines, AllOk, Name
<1>3. CASE Returned
    <2>1. /\ check' \in 1..(Len(Checks) + 1) /\ line' \in Nat \ {0}
          /\ check' > Len(Checks) => ~(check < Len(Checks))
        BY <1>3, ReturnSets, ChecksLength
    <2>2. 1 # 0
        OBVIOUS
    <2>3. ok' \in BOOLEAN
        BY <1>3, ReturnSets, Zenon DEF IInv
    <2>4. check' > Len(Checks) => (exit_code' = 0 <=> ok')
        BY <1>3, <2>1, <2>2, ReturnSets, Zenon
    <2>5. all_ok' = TRUE /\ bad' = FALSE
        BY <1>3, ReturnSets
    <2>6. Len(Checks)' = Len(Checks)
        BY DEF Checks
    <2> QED
        BY <2>1, <2>3, <2>4, <2>5, <2>6, Zenon DEF IInv
<1>4. CASE UNCHANGED vars
    BY <1>4, <1>1 DEF vars, verdict
<1> QED
    BY <1>1, <1>2, <1>3, <1>4, StepKinds

-----------------------------------------------------------------------------
(* The sorted table of candidates *)

\* The states or outputs of n candidates.
Candidates(o, n) ==
    /\ DOMAIN o = 0..(n - 1)
    /\ \A c \in 0..(n - 1) : o[c].key \in Nat

\* A table that has every candidate once, by ascending keys.
Tabulates(table, place, o, n) ==
    /\ place \in Bijection(1..n, 0..(n - 1))
    /\ table = [i \in 1..n |-> [candidate |-> place[i], state |-> o[place[i]]]]
    /\ \A a, b \in 1..n : a <= b => o[place[a]].key <= o[place[b]].key

\* qsort leaves such a table.
LEMMA TableTabulates ==
    ASSUME NEW n \in Nat, NEW o, Candidates(o, n)
    PROVE  \E place : Tabulates(Table(o), place, o, n)
<1> DEFINE q == [i \in 1..n |-> [candidate |-> i - 1, state |-> o[i - 1]]]
           X == {q[i] : i \in 1..n}
           L == {e \in X \X X : ~EntryBefore(e[2], e[1])}
           InOrd(p) == \A a, b \in 1..n : a < b => ~EntryBefore(q[p[b]], q[p[a]])
           order == CHOOSE p \in Bijection(1..n, 1..n) : InOrd(p)
           place == [i \in 1..n |-> order[i] - 1]
<1>1. Cardinality(DOMAIN o) = n
    <2>1. Cardinality(0..(n - 1)) = n
        BY FS_Interval
    <2> QED BY <2>1 DEF Candidates
<1>2. \A x \in X : x.state.key \in Nat /\ x.candidate \in Nat
    <2>1. \A i \in 1..n : i - 1 \in 0..(n - 1) /\ i - 1 \in Nat
        OBVIOUS
    <2> QED BY <2>1 DEF Candidates
<1>3. q \in [1..n -> X] /\ Len(q) = n
    OBVIOUS
<1>4. Table(o) = Sorted(q, EntryBefore)
    BY <1>1 DEF Table
<1>5. \A i \in 1..n : q[i] = [candidate |-> i - 1, state |-> o[i - 1]]
    OBVIOUS
<1> HIDE DEF X, q
<1>6. Compares(L, X)
    <2>1. ASSUME NEW x \in X, NEW y \in X
          PROVE  ~EntryBefore(x, y) \/ ~EntryBefore(y, x)
        BY <1>2 DEF EntryBefore
    <2>2. ASSUME NEW x \in X, NEW y \in X, NEW z \in X,
                 ~EntryBefore(y, x), ~EntryBefore(z, y)
          PROVE  ~EntryBefore(z, x)
        BY <1>2, <2>2 DEF EntryBefore
    <2> QED BY <2>1, <2>2 DEF Compares
<1> HIDE DEF L
<1>7. PICK p : Orders(p, q, n, L)
    BY <1>3, <1>6, OrderExists
<1>8. p \in Bijection(1..n, 1..n)
    <2>1. IsFiniteSet(1..n)
        BY FS_Interval
    <2> QED BY <1>7, <2>1, FS_Surjection DEF Orders, Bijection
<1>9. InOrd(p)
    BY <1>7 DEF Orders, L
<1> HIDE DEF InOrd
<1>10. order \in Bijection(1..n, 1..n) /\ InOrd(order)
    BY <1>8, <1>9
<1>11. Table(o) = [i \in 1..n |-> q[order[i]]]
    BY <1>3, <1>4 DEF Sorted, InOrd
<1> HIDE DEF order
<1>12. /\ order \in [1..n -> 1..n]
       /\ \A a, b \in 1..n : order[a] = order[b] => a = b
       /\ \A d \in 1..n : \E a \in 1..n : order[a] = d
    BY <1>10, PermutationFacts
<1>13. \A i \in 1..n : /\ place[i] \in 0..(n - 1) /\ place[i] = order[i] - 1
                       /\ order[i] \in 1..n /\ place[i] + 1 = order[i]
    <2> SUFFICES ASSUME NEW i \in 1..n
                 PROVE  /\ place[i] \in 0..(n - 1) /\ place[i] = order[i] - 1
                        /\ order[i] \in 1..n /\ place[i] + 1 = order[i]
        OBVIOUS
    <2>1. order[i] \in 1..n
        BY <1>12
    <2>2. place[i] = order[i] - 1
        OBVIOUS
    <2> HIDE DEF place
    <2> QED BY <2>1, <2>2
<1>14. place \in Bijection(1..n, 0..(n - 1))
    <2>1. place \in [1..n -> 0..(n - 1)]
        BY <1>13
    <2>2. \A a, b \in 1..n : place[a] = place[b] => a = b
        BY <1>12, <1>13
    <2>3. ASSUME NEW d \in 0..(n - 1) PROVE \E a \in 1..n : place[a] = d
        <3>1. PICK a \in 1..n : order[a] = d + 1
            BY <1>12
        <3> QED BY <3>1
    <2> HIDE DEF place
    <2> QED BY <2>1, <2>2, <2>3 DEF Bijection, Injection, Surjection, IsInjective
<1>15. Table(o) = [i \in 1..n |-> [candidate |-> place[i], state |-> o[place[i]]]]
    <2>1. \A i \in 1..n : q[order[i]] = [candidate |-> place[i], state |-> o[place[i]]]
        <3> HIDE DEF place
        <3> QED BY <1>5, <1>13
    <2> HIDE DEF place
    <2> QED BY <1>11, <2>1
<1>16. ASSUME NEW a \in 1..n, NEW b \in 1..n, a <= b
       PROVE  o[place[a]].key <= o[place[b]].key
    <2>1. /\ q[order[a]].state = o[place[a]] /\ q[order[b]].state = o[place[b]]
          /\ q[order[a]].state.key \in Nat /\ q[order[b]].state.key \in Nat
        <3> HIDE DEF place
        <3>1. /\ q[order[a]] \in X /\ q[order[a]].state = o[order[a] - 1]
              /\ q[order[b]] \in X /\ q[order[b]].state = o[order[b] - 1]
            BY <1>3, <1>5, <1>13
        <3> QED BY <1>2, <1>13, <3>1
    <2>2. CASE a < b
        <3>1. ~EntryBefore(q[order[b]], q[order[a]])
            BY <1>10, <2>2 DEF InOrd
        <3>2. ~(q[order[b]].state.key < q[order[a]].state.key)
            BY <3>1 DEF EntryBefore
        <3> QED BY <2>1, <3>2
    <2>3. CASE a = b
        BY <2>1, <2>3
    <2> QED BY <2>2, <2>3, <1>16
<1> HIDE DEF place
<1> QED BY <1>14, <1>15, <1>16, Zenon DEF Tabulates

\* What a table gives at a place.
LEMMA TableAt ==
    ASSUME NEW n \in Nat, NEW o, Candidates(o, n), NEW table, NEW place,
           Tabulates(table, place, o, n)
    PROVE  /\ DOMAIN table = 1..n /\ Len(table) = n
           /\ place \in [1..n -> 0..(n - 1)]
           /\ \A d \in 0..(n - 1) : \E a \in 1..n : place[a] = d
           /\ \A i \in 1..n : /\ table[i].candidate = place[i]
                              /\ table[i].state = o[place[i]]
                              /\ table[i].state.key \in Nat
           /\ \A a, b \in 1..n :
                  a <= b => table[a].state.key <= table[b].state.key
<1>1. /\ place \in [1..n -> 0..(n - 1)]
      /\ \A d \in 0..(n - 1) : \E a \in 1..n : place[a] = d
    <2> DEFINE A == 1..n
               D == 0..(n - 1)
    <2>1. place \in Bijection(A, D)
        BY DEF Tabulates
    <2> HIDE DEF A, D
    <2>2. /\ place \in [A -> D]
          /\ \A d \in D : \E a \in A : place[a] = d
        BY <2>1, BijectionFacts
    <2> QED BY <2>2 DEF A, D
<1>2. table = [i \in 1..n |-> [candidate |-> place[i], state |-> o[place[i]]]]
    BY DEF Tabulates
<1>3. DOMAIN table = 1..n /\ Len(table) = n
    BY <1>2
<1>4. \A i \in 1..n : /\ table[i].candidate = place[i]
                      /\ table[i].state = o[place[i]]
                      /\ table[i].state.key \in Nat
    BY <1>1, <1>2 DEF Candidates
<1>5. \A a, b \in 1..n : a <= b => table[a].state.key <= table[b].state.key
    BY <1>4 DEF Tabulates
<1> QED BY <1>1, <1>3, <1>4, <1>5

\* A table of n entries by ascending keys.
Sortable(table, n) ==
    /\ DOMAIN table = 1..n /\ Len(table) = n
    /\ \A i \in 1..n : table[i].state.key \in Nat
    /\ \A a, b \in 1..n : a <= b => table[a].state.key <= table[b].state.key

\* What is left of the table is between the entries with a smaller key and the
\* others, and a turn leaves less of it.
LEMMA HalveKeeps ==
    ASSUME NEW n \in Nat, NEW table, Sortable(table, n), NEW key \in Nat,
           NEW l \in 0..n, NEW r \in 0..n, l <= r,
           \A i \in 1..n : i <= l => table[i].state.key < key,
           \A i \in 1..n : i > r => table[i].state.key >= key,
           NEW next, next = Halve(table, key, [left |-> l, right |-> r])
    PROVE  /\ next.left \in 0..n /\ next.right \in 0..n
           /\ next.left <= next.right
           /\ next = [left |-> next.left, right |-> next.right]
           /\ \A i \in 1..n : i <= next.left => table[i].state.key < key
           /\ \A i \in 1..n : i > next.right => table[i].state.key >= key
           /\ next.right - next.left < r - l \/ next.right = next.left
<1> DEFINE at == [left |-> l, right |-> r]
           m == l + ((r - l) \div 2)
<1>1. CASE l >= r
    <2>1. next = at
        BY <1>1 DEF Halve
    <2>2. next.left = l /\ next.right = r
        BY <2>1
    <2> QED BY <1>1, <2>1, <2>2
<1>2. CASE l < r
    <2>1. m \in l..(r - 1) /\ m + 1 \in 1..n
        BY <1>2
    <2>2. at.left = l /\ at.right = r
        OBVIOUS
    <2>3. next = IF table[m + 1].state.key < key
                 THEN [at EXCEPT !.left = m + 1] ELSE [at EXCEPT !.right = m]
        BY <1>2, <2>2 DEF Halve, GoesRight
    <2> HIDE DEF m
    <2>4. \A i \in 1..n : /\ i <= m + 1 => table[i].state.key <= table[m + 1].state.key
                          /\ i > m => table[i].state.key >= table[m + 1].state.key
        BY <2>1 DEF Sortable
    <2>5. \A i \in 1..n : table[i].state.key \in Nat
        BY DEF Sortable
    <2>6. CASE table[m + 1].state.key < key
        <3>1. next = [left |-> m + 1, right |-> r]
            BY <2>3, <2>6
        <3>2. next.left = m + 1 /\ next.right = r
            BY <3>1
        <3>3. \A i \in 1..n : i <= m + 1 => table[i].state.key < key
            BY <2>1, <2>4, <2>5, <2>6
        <3> QED BY <2>1, <3>1, <3>2, <3>3
    <2>7. CASE ~(table[m + 1].state.key < key)
        <3>1. next = [left |-> l, right |-> m]
            BY <2>3, <2>7
        <3>2. next.left = l /\ next.right = m
            BY <3>1
        <3>3. \A i \in 1..n : i > m => table[i].state.key >= key
            BY <2>1, <2>4, <2>5, <2>7
        <3> QED BY <2>1, <3>1, <3>2, <3>3
    <2> QED BY <2>6, <2>7
<1> QED BY <1>1, <1>2

\* The binary search ends between the entries with a smaller key and the others.
LEMMA LowerBoundIs ==
    ASSUME NEW n \in Nat, NEW table, Sortable(table, n), NEW key \in Nat
    PROVE  /\ LowerBound(table, key) \in 0..n
           /\ \A i \in 1..n :
                  i <= LowerBound(table, key) <=> table[i].state.key < key
<1> DEFINE V == [left : 0..n, right : 0..n]
           Good(at) == /\ at.left <= at.right
                       /\ at = [left |-> at.left, right |-> at.right]
                       /\ \A i \in 1..n : i <= at.left => table[i].state.key < key
                       /\ \A i \in 1..n : i > at.right => table[i].state.key >= key
           G == {at \in V : Good(at)}
           start == [left |-> 0, right |-> n]
           Turn == [turn \in Nat |-> [at \in G |-> Halve(table, key, at)]]
           Eqn(f) == f = [turn \in Nat |->
                              IF turn = 0 THEN [left |-> 0, right |-> Len(table)]
                              ELSE Halve(table, key, f[turn - 1])]
           search == CHOOSE f : Eqn(f)
<1>1. LowerBound(table, key) = search[n].left
    BY DEF LowerBound, Sortable
<1>2. start \in G
    <2>1. start.left = 0 /\ start.right = n /\ start \in V
        OBVIOUS
    <2> QED BY <2>1
<1>3. \A at \in G : /\ Halve(table, key, at) \in G
                    /\ \/ Halve(table, key, at).right - Halve(table, key, at).left
                              < at.right - at.left
                       \/ Halve(table, key, at).right = Halve(table, key, at).left
    <2> SUFFICES ASSUME NEW at \in G
                 PROVE  /\ Halve(table, key, at) \in G
                        /\ \/ Halve(table, key, at).right - Halve(table, key, at).left
                                  < at.right - at.left
                           \/ Halve(table, key, at).right = Halve(table, key, at).left
        OBVIOUS
    <2>1. /\ at.left \in 0..n /\ at.right \in 0..n /\ at.left <= at.right
          /\ at = [left |-> at.left, right |-> at.right]
          /\ \A i \in 1..n : i <= at.left => table[i].state.key < key
          /\ \A i \in 1..n : i > at.right => table[i].state.key >= key
        OBVIOUS
    <2> DEFINE next == Halve(table, key, [left |-> at.left, right |-> at.right])
    <2>2. /\ next.left \in 0..n /\ next.right \in 0..n
          /\ next.left <= next.right
          /\ next = [left |-> next.left, right |-> next.right]
          /\ \A i \in 1..n : i <= next.left => table[i].state.key < key
          /\ \A i \in 1..n : i > next.right => table[i].state.key >= key
          /\ next.right - next.left < at.right - at.left \/ next.right = next.left
        <3> DEFINE l == at.left
                   r == at.right
        <3>1. /\ l \in 0..n /\ r \in 0..n /\ l <= r
              /\ \A i \in 1..n : i <= l => table[i].state.key < key
              /\ \A i \in 1..n : i > r => table[i].state.key >= key
              /\ next = Halve(table, key, [left |-> l, right |-> r])
            BY <2>1
        <3> HIDE DEF l, r, next
        <3>2. /\ next.left \in 0..n /\ next.right \in 0..n
              /\ next.left <= next.right
              /\ next = [left |-> next.left, right |-> next.right]
              /\ \A i \in 1..n : i <= next.left => table[i].state.key < key
              /\ \A i \in 1..n : i > next.right => table[i].state.key >= key
              /\ next.right - next.left < r - l \/ next.right = next.left
            BY <3>1, HalveKeeps, SMTT(30)
        <3> QED BY <3>2 DEF l, r
    <2>3. Halve(table, key, at) = next
        BY <2>1
    <2> HIDE DEF next
    <2>4. next \in G
        <3>1. next \in V
            BY <2>2
        <3> QED BY <2>2, <3>1
    <2> QED BY <2>2, <2>3, <2>4
<1>4. \E f : Eqn(f) /\ f[0] = start /\ \A i \in Nat : f[i] \in G /\ f[i + 1] = Halve(table, key, f[i])
    <2>1. Turn \in [Nat -> [G -> G]]
        BY <1>3
    <2> HIDE DEF G
    <2>2. PICK f \in [Nat -> G] : FollowsAll(f, start, Turn)
        BY <1>2, <2>1, RecursionExists
    <2>3. f[0] = start /\ \A i \in Nat : f[i + 1] = Halve(table, key, f[i])
        BY <2>2 DEF FollowsAll
    <2>4. \A i \in Nat : i # 0 => f[i] = Halve(table, key, f[i - 1])
        <3> SUFFICES ASSUME NEW i \in Nat, i # 0
                     PROVE  f[i] = Halve(table, key, f[i - 1])
            OBVIOUS
        <3>1. i - 1 \in Nat /\ (i - 1) + 1 = i
            OBVIOUS
        <3> QED BY <2>3, <3>1
    <2>5. Len(table) = n
        BY DEF Sortable
    <2>6. Eqn(f)
        <3>1. f = [i \in Nat |-> f[i]]
            BY <2>2
        <3>2. \A i \in Nat : f[i] = IF i = 0 THEN [left |-> 0, right |-> Len(table)]
                                    ELSE Halve(table, key, f[i - 1])
            BY <2>3, <2>4, <2>5
        <3> QED BY <3>1, <3>2
    <2> HIDE DEF Eqn
    <2> QED BY <2>2, <2>3, <2>6
<1>5. Eqn(search)
    <2> HIDE DEF Eqn
    <2> QED BY <1>4
<1>6. PICK f : /\ Eqn(f) /\ f[0] = start
               /\ \A i \in Nat : f[i] \in G /\ f[i + 1] = Halve(table, key, f[i])
    BY <1>4
<1>7. /\ search[0] = start
      /\ \A i \in Nat : search[i + 1] = Halve(table, key, search[i])
    <2>1. Len(table) = n
        BY DEF Sortable
    <2>2. \A i \in Nat : i + 1 \in Nat /\ i + 1 # 0 /\ (i + 1) - 1 = i
        OBVIOUS
    <2> HIDE DEF search
    <2> QED BY <1>5, <2>1, <2>2
<1> HIDE DEF search, Eqn, G
<1>8. ASSUME NEW i \in Nat, search[i] \in G
      PROVE  /\ search[i + 1] \in G
             /\ \/ search[i + 1].right - search[i + 1].left
                       < search[i].right - search[i].left
                \/ search[i + 1].right = search[i + 1].left
    BY <1>3, <1>7, <1>8
<1>9. \A at \in G : at.left \in 0..n /\ at.right \in 0..n /\ at.left <= at.right
    BY DEF G
<1>10. search[n] \in G /\ search[n].right = search[n].left
    <2> DEFINE T == {i \in Nat : /\ search[i] \in G
                                 /\ \/ search[i].right - search[i].left <= n - i
                                    \/ search[i].right = search[i].left}
    <2>1. 0 \in T
        BY <1>2, <1>7, <1>9
    <2>2. ASSUME NEW i \in T PROVE i + 1 \in T
        <3>1. /\ search[i] \in G /\ i \in Nat /\ i + 1 \in Nat
              /\ \/ search[i].right - search[i].left <= n - i
                 \/ search[i].right = search[i].left
            OBVIOUS
        <3>2. /\ search[i + 1] \in G
              /\ \/ search[i + 1].right - search[i + 1].left
                        < search[i].right - search[i].left
                 \/ search[i + 1].right = search[i + 1].left
            BY <1>8, <3>1
        <3>3. /\ search[i].left \in 0..n /\ search[i].right \in 0..n
              /\ search[i].left <= search[i].right
              /\ search[i + 1].left \in 0..n /\ search[i + 1].right \in 0..n
              /\ search[i + 1].left <= search[i + 1].right
            BY <1>9, <3>1, <3>2
        <3>4. \/ search[i + 1].right - search[i + 1].left <= n - (i + 1)
              \/ search[i + 1].right = search[i + 1].left
            BY <3>1, <3>2, <3>3
        <3> QED BY <3>1, <3>2, <3>4
    <2> HIDE DEF T
    <2>3. T = Nat
        <3>1. T \in SUBSET Nat
            BY DEF T
        <3> QED BY <2>1, <2>2, <3>1, SetInduction
    <2>4. n \in T
        BY <2>3
    <2>5. /\ search[n] \in G
          /\ \/ search[n].right - search[n].left <= n - n
             \/ search[n].right = search[n].left
        BY <2>4 DEF T
    <2> QED BY <1>9, <2>5
<1>11. /\ search[n].left \in 0..n
       /\ \A i \in 1..n : i <= search[n].left => table[i].state.key < key
       /\ \A i \in 1..n : i > search[n].left => table[i].state.key >= key
    BY <1>10 DEF G
<1>12. \A i \in 1..n : table[i].state.key \in Nat
    BY DEF Sortable
<1> QED BY <1>1, <1>11, <1>12

\* The scan from there visits the entries with the key, and no other.
LEMMA ScannedIs ==
    ASSUME NEW n \in Nat, NEW table, Sortable(table, n), NEW key \in Nat
    PROVE  Scanned(table, key) = {p \in 1..n : table[p].state.key = key}
<1> DEFINE first == LowerBound(table, key) + 1
<1>1. /\ first \in 1..(n + 1)
      /\ \A i \in 1..n : i < first <=> table[i].state.key < key
    BY LowerBoundIs
<1> HIDE DEF first
<1>2. /\ \A i \in 1..n : table[i].state.key \in Nat
      /\ \A a, b \in 1..n : a <= b => table[a].state.key <= table[b].state.key
      /\ Len(table) = n
    BY DEF Sortable
<1>3. Scanned(table, key)
          = {p \in first..n : \A q \in first..p : table[q].state.key = key}
    BY <1>2 DEF Scanned, first
<1>4. ASSUME NEW p \in first..n, \A q \in first..p : table[q].state.key = key
      PROVE  p \in 1..n /\ table[p].state.key = key
    BY <1>1, <1>4
<1>5. ASSUME NEW p \in 1..n, table[p].state.key = key
      PROVE  p \in first..n /\ \A q \in first..p : table[q].state.key = key
    <2>1. p \in first..n
        BY <1>1, <1>2, <1>5
    <2>2. ASSUME NEW q \in first..p PROVE table[q].state.key = key
        <3>1. q \in 1..n /\ ~(q < first) /\ q <= p
            BY <1>1
        <3> QED BY <1>1, <1>2, <1>5, <3>1
    <2> QED BY <2>1, <2>2
<1> QED BY <1>3, <1>4, <1>5

\* As many entries hold a candidate of a set as the set has.
LEMMA EntriesOf ==
    ASSUME NEW n \in Nat, NEW place \in Bijection(1..n, 0..(n - 1)),
           NEW S \in SUBSET (0..(n - 1))
    PROVE  /\ IsFiniteSet(S)
           /\ Cardinality({i \in 1..n : place[i] \in S}) = Cardinality(S)
<1> DEFINE A == 1..n
           D == 0..(n - 1)
<1>1. IsFiniteSet(A)
    BY FS_Interval
<1>2. {i \in 1..n : place[i] \in S} = Carried(A, place, S)
    BY DEF Carried
<1>3. place \in Bijection(A, D) /\ S \in SUBSET D
    OBVIOUS
<1> HIDE DEF A, D
<1>4. IsFiniteSet(S) /\ Cardinality(Carried(A, place, S)) = Cardinality(S)
    BY <1>1, <1>3, CountCarried
<1> QED BY <1>2, <1>4

Column(D, R, c) == {f \in D : <<f, c>> \in R}
Matches(D, E, R) == {e \in D \X E : e \in R}

\* The pairs of a relation, column by column.
LEMMA ColumnsSum ==
    ASSUME NEW D, IsFiniteSet(D), NEW E, IsFiniteSet(E), NEW R,
           NEW g, \A c \in E : g[c] = Cardinality(Column(D, R, c))
    PROVE  /\ \A c \in E : g[c] \in Nat
           /\ Total(g, E) = Cardinality(Matches(D, E, R))
<1> DEFINE C == [c \in E |-> Column(D, R, c) \X {c}]
<1>1. ASSUME NEW c \in E
      PROVE  /\ IsFiniteSet(C[c]) /\ g[c] = Cardinality(C[c])
             /\ g[c] \in Nat
    <2> DEFINE K == Column(D, R, c)
               T == K \X {c}
               f == [d \in K |-> <<d, c>>]
    <2>1. IsFiniteSet(K)
        BY FS_Subset DEF Column
    <2> HIDE DEF K
    <2>2. f \in [K -> T]
        OBVIOUS
    <2>3. \A a, b \in K : f[a] = f[b] => a = b
        OBVIOUS
    <2>4. \A t \in T : \E a \in K : f[a] = t
        OBVIOUS
    <2> HIDE DEF f, T
    <2>5. IsFiniteSet(T) /\ Cardinality(T) = Cardinality(K)
        BY <2>1, <2>2, <2>3, <2>4, SameCount
    <2>6. C[c] = T
        BY DEF T, K
    <2>7. g[c] = Cardinality(K) /\ Cardinality(K) \in Nat
        BY <2>1, FS_CardinalityType DEF K
    <2> QED BY <2>5, <2>6, <2>7
<1>2. \A a, b \in E : a # b => C[a] \cap C[b] = {}
    OBVIOUS
<1>3. Together(C, E) = Matches(D, E, R)
    <2>1. ASSUME NEW e \in Together(C, E) PROVE e \in Matches(D, E, R)
        <3>1. PICK c \in E : e \in Column(D, R, c) \X {c}
            BY DEF Together
        <3> QED BY <3>1 DEF Matches, Column
    <2>2. ASSUME NEW e \in Matches(D, E, R) PROVE e \in Together(C, E)
        <3>1. /\ e = <<e[1], e[2]>> /\ e[1] \in D /\ e[2] \in E /\ e \in R
            BY DEF Matches
        <3>2. e \in C[e[2]]
            BY <3>1 DEF Column
        <3> QED BY <3>1, <3>2 DEF Together
    <2> QED BY <2>1, <2>2
<1> HIDE DEF C
<1> QED BY <1>1, <1>2, <1>3, SumOfSizes

\* The join by the sorted table finds every pair of candidates with equal keys
\* and every pair of equal states, once.
LEMMA JoinOfMeans ==
    ASSUME NEW n \in Nat, NEW forward, Candidates(forward, n),
           NEW backward, Candidates(backward, n), NEW target \in 0..(n - 1)
    PROVE  JoinMeans(forward, backward, target,
                     JoinOf(Table(forward), backward, target))
<1> DEFINE D == 0..(n - 1)
           t == Table(forward)
           Found(c) == Scanned(t, backward[c].key)
           Exact(c) == {p \in Found(c) : t[p].state = backward[c]}
           R == {e \in D \X D : forward[e[1]].key = backward[e[2]].key}
           Q == {e \in D \X D : forward[e[1]] = backward[e[2]]}
           g == [c \in D |-> Cardinality(Column(D, R, c))]
           h == [c \in D |-> Cardinality(Column(D, Q, c))]
<1>1. PICK place : Tabulates(t, place, forward, n)
    BY TableTabulates
<1>2. /\ DOMAIN t = 1..n /\ Len(t) = n
      /\ place \in [1..n -> 0..(n - 1)]
      /\ \A d \in 0..(n - 1) : \E a \in 1..n : place[a] = d
      /\ \A i \in 1..n : /\ t[i].candidate = place[i]
                         /\ t[i].state = forward[place[i]]
                         /\ t[i].state.key \in Nat
      /\ \A a, b \in 1..n : a <= b => t[a].state.key <= t[b].state.key
    <2> HIDE DEF t
    <2> QED BY <1>1, TableAt
<1>3. place \in Bijection(1..n, 0..(n - 1))
    BY <1>1 DEF Tabulates
<1>4. Sortable(t, n)
    BY <1>2, Zenon DEF Sortable
<1>5. IsFiniteSet(D)
    BY FS_Interval
<1> HIDE DEF t
<1>6. ASSUME NEW c \in D
      PROVE  /\ Found(c) = {i \in 1..n : place[i] \in Column(D, R, c)}
             /\ Exact(c) = {i \in 1..n : place[i] \in Column(D, Q, c)}
    <2>1. backward[c].key \in Nat
        BY DEF Candidates
    <2>2. Found(c) = {i \in 1..n : t[i].state.key = backward[c].key}
        BY <1>4, <2>1, ScannedIs
    <2>3. \A i \in 1..n : place[i] \in D
        BY <1>2
    <2> QED BY <1>2, <2>2, <2>3 DEF Column
<1>7. ASSUME NEW c \in D
      PROVE  /\ Cardinality(Found(c)) = g[c]
             /\ Cardinality(Exact(c)) = h[c]
             /\ g[c] \in Nat /\ h[c] \in Nat
    <2> DEFINE U == Column(D, R, c)
               W == Column(D, Q, c)
    <2>1. U \in SUBSET (0..(n - 1)) /\ W \in SUBSET (0..(n - 1))
        BY DEF Column
    <2>2. g[c] = Cardinality(U) /\ h[c] = Cardinality(W)
        OBVIOUS
    <2> HIDE DEF U, W
    <2>3. /\ IsFiniteSet(U) /\ IsFiniteSet(W)
          /\ Cardinality({i \in 1..n : place[i] \in U}) = Cardinality(U)
          /\ Cardinality({i \in 1..n : place[i] \in W}) = Cardinality(W)
        BY <1>3, <2>1, EntriesOf
    <2>4. Cardinality(U) \in Nat /\ Cardinality(W) \in Nat
        BY <2>3, FS_CardinalityType
    <2> HIDE DEF g, h
    <2>5. /\ Found(c) = {i \in 1..n : place[i] \in U}
          /\ Exact(c) = {i \in 1..n : place[i] \in W}
        BY <1>6 DEF U, W
    <2> HIDE DEF D
    <2> QED BY <2>2, <2>3, <2>4, <2>5
<1> HIDE DEF Found, Exact
<1>8. /\ Total(g, D) = Cardinality(Matches(D, D, R))
      /\ Total(h, D) = Cardinality(Matches(D, D, Q))
    <2>1. /\ \A c \in D : g[c] = Cardinality(Column(D, R, c))
          /\ \A c \in D : h[c] = Cardinality(Column(D, Q, c))
        OBVIOUS
    <2> HIDE DEF g, h, D, R, Q
    <2> QED BY <1>5, <2>1, ColumnsSum
<1>9. MapThenSumSet(LAMBDA c : Cardinality(Found(c)), D) = Total(g, D)
    <2> DEFINE term(c) == Cardinality(Found(c))
               k == [c \in D |-> term(c)]
               P(it) == it = [s \in SUBSET D |->
                   IF s = {} THEN 0
                   ELSE term(CHOOSE x \in s : TRUE) + it[s \ {CHOOSE x \in s : TRUE}]]
    <2>1. MapThenSumSet(LAMBDA c : Cardinality(Found(c)), D) = (CHOOSE it : P(it))[D]
        BY DEF MapThenSumSet, MapThenFoldSet
    <2> HIDE DEF D, g, h
    <2>2. \A it : P(it) <=> Sums(it, k, D)
        BY DEF Sums
    <2>3. \A c \in D : k[c] = g[c] /\ g[c] \in Nat
        BY <1>7
    <2> HIDE DEF P, k, term
    <2>4. \E it : Sums(it, k, D)
        BY <1>5, <2>3, SumExists
    <2>5. P(CHOOSE it : P(it))
        BY <2>2, <2>4
    <2>6. (CHOOSE it : P(it))[D] = Total(k, D)
        BY <1>5, <2>2, <2>3, <2>5, TotalIs
    <2>7. Total(k, D) = Total(g, D)
        BY <1>5, <2>3, TotalAgrees
    <2> QED BY <2>1, <2>6, <2>7
<1>10. MapThenSumSet(LAMBDA c : Cardinality(Exact(c)), D) = Total(h, D)
    <2> DEFINE term(c) == Cardinality(Exact(c))
               k == [c \in D |-> term(c)]
               P(it) == it = [s \in SUBSET D |->
                   IF s = {} THEN 0
                   ELSE term(CHOOSE x \in s : TRUE) + it[s \ {CHOOSE x \in s : TRUE}]]
    <2>1. MapThenSumSet(LAMBDA c : Cardinality(Exact(c)), D) = (CHOOSE it : P(it))[D]
        BY DEF MapThenSumSet, MapThenFoldSet
    <2> HIDE DEF D, g, h
    <2>2. \A it : P(it) <=> Sums(it, k, D)
        BY DEF Sums
    <2>3. \A c \in D : k[c] = h[c] /\ h[c] \in Nat
        BY <1>7
    <2> HIDE DEF P, k, term
    <2>4. \E it : Sums(it, k, D)
        BY <1>5, <2>3, SumExists
    <2>5. P(CHOOSE it : P(it))
        BY <2>2, <2>4
    <2>6. (CHOOSE it : P(it))[D] = Total(k, D)
        BY <1>5, <2>2, <2>3, <2>5, TotalIs
    <2>7. Total(k, D) = Total(h, D)
        BY <1>5, <2>3, TotalAgrees
    <2> QED BY <2>1, <2>6, <2>7
<1>11. DOMAIN forward = D /\ DOMAIN backward = D
    BY DEF Candidates
<1> DEFINE counts == JoinOf(t, backward, target)
<1>12. /\ counts.prefix_pairs = MapThenSumSet(LAMBDA c : Cardinality(Found(c)), D)
       /\ counts.exact_matches = MapThenSumSet(LAMBDA c : Cardinality(Exact(c)), D)
       /\ counts.recovered = \E p \in Exact(target) : t[p].candidate = target
    BY <1>11 DEF JoinOf, Found, Exact
<1> HIDE DEF counts, g, h
<1>13. (\E p \in Exact(target) : t[p].candidate = target)
           = (forward[target] = backward[target])
    <2>1. Exact(target) = {i \in 1..n : place[i] \in Column(D, Q, target)}
        BY <1>6
    <2>2. \A i \in Exact(target) : i \in 1..n /\ t[i].candidate = place[i]
        BY <1>2, <2>1
    <2>3. PICK a \in 1..n : place[a] = target
        BY <1>2
    <2>4. a \in Exact(target) <=> forward[target] = backward[target]
        BY <2>1, <2>3 DEF Column
    <2>5. \A i \in Exact(target) : place[i] = target => forward[target] = backward[target]
        BY <2>1 DEF Column
    <2> QED BY <2>2, <2>3, <2>4, <2>5, <1>2
<1>14. /\ Matches(D, D, R) = {e \in D \X D : forward[e[1]].key = backward[e[2]].key}
       /\ Matches(D, D, Q) = {e \in D \X D : forward[e[1]] = backward[e[2]]}
    BY DEF Matches
<1> HIDE DEF D, R, Q
<1>15. /\ counts.prefix_pairs
              = Cardinality({e \in D \X D : forward[e[1]].key = backward[e[2]].key})
       /\ counts.exact_matches
              = Cardinality({e \in D \X D : forward[e[1]] = backward[e[2]]})
       /\ counts.recovered = (forward[target] = backward[target])
    BY <1>8, <1>9, <1>10, <1>12, <1>13, <1>14
<1>16. JoinMeans(forward, backward, target, counts)
    BY <1>11, <1>15 DEF JoinMeans
<1> QED BY <1>16 DEF counts, t

\* The runs of a sorted table: each has all the entries of its key, and every
\* entry is in one.
InRun(r) == r[1]..(r[2] - 1)

\* The maximal runs of equal keys, without a loop.
MaximalRuns(table, n) ==
    {r \in (1..n) \X (2..(n + 1)) :
        /\ r[1] < r[2]
        /\ \A p \in r[1]..(r[2] - 1) : table[p].state.key = table[r[1]].state.key
        /\ r[1] = 1 \/ table[r[1] - 1].state.key # table[r[1]].state.key
        /\ r[2] = n + 1 \/ table[r[2]].state.key # table[r[1]].state.key}

\* The inner loop stops at the end of the run.
LEMMA RunEndIs ==
    ASSUME NEW n \in Nat, NEW table, Len(table) = n, NEW begin \in 1..n
    PROVE  /\ RunEnd(table, begin) \in (begin + 1)..(n + 1)
           /\ \A p \in begin..(RunEnd(table, begin) - 1) :
                  table[p].state.key = table[begin].state.key
           /\ \/ RunEnd(table, begin) = n + 1
              \/ table[RunEnd(table, begin)].state.key # table[begin].state.key
<1> DEFINE Ends(e) == /\ \A p \in begin..(e - 1) :
                             table[p].state.key = table[begin].state.key
                      /\ \/ e = n + 1
                         \/ table[e].state.key # table[begin].state.key
           E == {e \in Nat : /\ e > begin /\ e <= n + 1
                             /\ \/ e = n + 1
                                \/ table[e].state.key # table[begin].state.key}
<1>1. n + 1 \in E
    OBVIOUS
<1>2. PICK e \in E : \A f \in E : e <= f
    <2>1. E \in SUBSET Nat
        OBVIOUS
    <2> HIDE DEF E
    <2> QED BY <1>1, <2>1, NatLeast
<1>3. /\ e \in Nat /\ e > begin /\ e <= n + 1
      /\ e = n + 1 \/ table[e].state.key # table[begin].state.key
    OBVIOUS
<1>4. ASSUME NEW p \in begin..(e - 1)
      PROVE  table[p].state.key = table[begin].state.key
    <2>1. p \in Nat /\ p < e /\ p <= n + 1 /\ p # n + 1 /\ (p = begin \/ p > begin)
        BY <1>3
    <2>2. p \notin E
        BY <1>2, <2>1
    <2> QED BY <2>1, <2>2
<1>5. e \in (begin + 1)..(n + 1) /\ Ends(e)
    BY <1>3, <1>4
<1>6. RunEnd(table, begin) = CHOOSE x \in (begin + 1)..(n + 1) : Ends(x)
    BY DEF RunEnd
<1> HIDE DEF Ends, E
<1>7. RunEnd(table, begin) \in (begin + 1)..(n + 1) /\ Ends(RunEnd(table, begin))
    BY <1>5, <1>6
<1> QED BY <1>7 DEF Ends

\* What the outer loop has when it is at an entry: the maximal runs that begin
\* before it, and another key on its left.
RunsBefore(table, n, at) ==
    /\ at.begin \in 1..(n + 1)
    /\ at = [begin |-> at.begin, runs |-> at.runs]
    /\ at.runs = {r \in MaximalRuns(table, n) : r[1] < at.begin}
    /\ \/ at.begin = 1
       \/ at.begin = n + 1
       \/ table[at.begin - 1].state.key # table[at.begin].state.key

\* A turn takes the next maximal run.
LEMMA NextRunKeeps ==
    ASSUME NEW n \in Nat, NEW table, Len(table) = n,
           NEW at, RunsBefore(table, n, at)
    PROVE  /\ RunsBefore(table, n, NextRun(table, at))
           /\ at.begin <= n => NextRun(table, at).begin > at.begin
           /\ at.begin > n => NextRun(table, at) = at
<1>1. CASE at.begin > n
    BY <1>1 DEF NextRun, RunsBefore
<1>2. CASE at.begin <= n
    <2> DEFINE b == at.begin
               e == RunEnd(table, b)
               M == MaximalRuns(table, n)
    <2>1. /\ b \in 1..n
          /\ at.runs = {r \in M : r[1] < b}
          /\ b = 1 \/ table[b - 1].state.key # table[b].state.key
        BY <1>2 DEF RunsBefore
    <2>2. /\ e \in (b + 1)..(n + 1)
          /\ \A p \in b..(e - 1) : table[p].state.key = table[b].state.key
          /\ e = n + 1 \/ table[e].state.key # table[b].state.key
        <3>1. ASSUME NEW x \in 1..n
              PROVE  /\ RunEnd(table, x) \in (x + 1)..(n + 1)
                     /\ \A p \in x..(RunEnd(table, x) - 1) :
                            table[p].state.key = table[x].state.key
                     /\ \/ RunEnd(table, x) = n + 1
                        \/ table[RunEnd(table, x)].state.key # table[x].state.key
            BY RunEndIs
        <3> HIDE DEF b
        <3>2. /\ RunEnd(table, b) \in (b + 1)..(n + 1)
              /\ \A p \in b..(RunEnd(table, b) - 1) :
                     table[p].state.key = table[b].state.key
              /\ \/ RunEnd(table, b) = n + 1
                 \/ table[RunEnd(table, b)].state.key # table[b].state.key
            BY <2>1, <3>1
        <3> QED BY <3>2
    <2>3. NextRun(table, at) = [begin |-> e, runs |-> at.runs \cup {<<b, e>>}]
        BY <2>1 DEF NextRun
    <2> HIDE DEF b, e
    <2>4. <<b, e>> \in M
        <3>1. <<b, e>> \in (1..n) \X (2..(n + 1)) /\ b < e
            BY <2>1, <2>2
        <3> QED BY <2>1, <2>2, <3>1 DEF MaximalRuns
    <2>5. ASSUME NEW r \in M, r[1] >= b, r[1] < e
          PROVE  r = <<b, e>>
        <3>1. /\ r[1] \in 1..n /\ r[2] \in 2..(n + 1) /\ r[1] < r[2]
              /\ r = <<r[1], r[2]>>
              /\ \A p \in r[1]..(r[2] - 1) : table[p].state.key = table[r[1]].state.key
              /\ r[1] = 1 \/ table[r[1] - 1].state.key # table[r[1]].state.key
              /\ r[2] = n + 1 \/ table[r[2]].state.key # table[r[1]].state.key
            BY DEF MaximalRuns
        <3> DEFINE x == r[1]
                   y == r[2]
        <3>2. /\ x \in 1..n /\ y \in 2..(n + 1) /\ x < y /\ x >= b /\ x < e
              /\ \A p \in x..(y - 1) : table[p].state.key = table[x].state.key
              /\ x = 1 \/ table[x - 1].state.key # table[x].state.key
              /\ y = n + 1 \/ table[y].state.key # table[x].state.key
            BY <2>5, <3>1
        <3> HIDE DEF x, y
        <3>3. x = b
            <4> SUFFICES ASSUME x > b PROVE FALSE
                BY <2>1, <3>2
            <4>1. x - 1 \in b..(e - 1) /\ x \in b..(e - 1) /\ x # 1
                BY <2>1, <2>2, <3>2
            <4> QED BY <2>2, <3>2, <4>1
        <3>4. ~(y < e)
            <4> SUFFICES ASSUME y < e PROVE FALSE
                OBVIOUS
            <4>1. y \in b..(e - 1) /\ y # n + 1
                BY <2>1, <2>2, <3>2
            <4> QED BY <2>2, <3>2, <3>3, <4>1
        <3>5. ~(e < y)
            <4> SUFFICES ASSUME e < y PROVE FALSE
                OBVIOUS
            <4>1. e \in x..(y - 1) /\ e # n + 1
                BY <2>1, <2>2, <3>2, <3>3
            <4> QED BY <2>2, <3>2, <3>3, <4>1
        <3>6. y = e
            BY <2>2, <3>2, <3>4, <3>5
        <3> QED BY <3>1, <3>3, <3>6 DEF x, y
    <2>6. \A r \in M : r[1] \in 1..n
        BY DEF MaximalRuns
    <2>7. at.runs \cup {<<b, e>>} = {r \in M : r[1] < e}
        <3>1. \A r \in M : r[1] < e <=> (r[1] < b \/ r = <<b, e>>)
            BY <2>1, <2>2, <2>5, <2>6
        <3> HIDE DEF M
        <3> QED BY <2>1, <2>4, <3>1
    <2>8. e = n + 1 \/ table[e - 1].state.key # table[e].state.key
        <3>1. e - 1 \in b..(e - 1)
            BY <2>1, <2>2
        <3> QED BY <2>2, <3>1
    <2>9. RunsBefore(table, n, [begin |-> e, runs |-> at.runs \cup {<<b, e>>}])
        <3>1. e \in 1..(n + 1)
            BY <2>1, <2>2
        <3> QED BY <2>7, <2>8, <3>1 DEF RunsBefore
    <2>10. e > b /\ b <= n /\ ~(b > n)
        BY <2>1, <2>2
    <2> QED BY <2>3, <2>9, <2>10 DEF b
<1>3. at.begin \in 1..(n + 1)
    BY DEF RunsBefore
<1> QED BY <1>1, <1>2, <1>3

\* The loop finds the maximal runs and no other.
LEMMA RunsAreMaximal ==
    ASSUME NEW n \in Nat, NEW table, Len(table) = n
    PROVE  Runs(table) = MaximalRuns(table, n)
<1> DEFINE M == MaximalRuns(table, n)
           V == [begin : 1..(n + 1), runs : SUBSET M]
           G == {at \in V : RunsBefore(table, n, at)}
           start == [begin |-> 1, runs |-> {}]
           Turn == [turn \in Nat |-> [at \in G |-> NextRun(table, at)]]
           Eqn(f) == f = [turn \in Nat |->
                              IF turn = 0 THEN [begin |-> 1, runs |-> {}]
                              ELSE NextRun(table, f[turn - 1])]
           search == CHOOSE f : Eqn(f)
<1>1. Runs(table) = search[n].runs
    BY DEF Runs
<1>2. ASSUME NEW at, RunsBefore(table, n, at) PROVE at \in G
    <2>1. /\ at.begin \in 1..(n + 1) /\ at = [begin |-> at.begin, runs |-> at.runs]
          /\ at.runs \in SUBSET M
        BY <1>2 DEF RunsBefore
    <2> HIDE DEF M
    <2>2. at \in V
        BY <2>1
    <2> QED BY <1>2, <2>2
<1>3. start \in G
    <2>1. \A r \in M : r[1] \in 1..n
        BY DEF MaximalRuns
    <2>2. {} = {r \in M : r[1] < 1}
        <3> HIDE DEF M
        <3> QED BY <2>1
    <2>3. RunsBefore(table, n, start)
        <3>1. start.begin = 1 /\ start.runs = {} /\ 1 \in 1..(n + 1)
            OBVIOUS
        <3> QED BY <2>2, <3>1 DEF RunsBefore
    <2> QED BY <1>2, <2>3
<1>4. \A at \in G : /\ NextRun(table, at) \in G
                    /\ at.begin \in 1..(n + 1)
                    /\ at.begin <= n => NextRun(table, at).begin > at.begin
                    /\ at.begin > n => NextRun(table, at) = at
    <2> SUFFICES ASSUME NEW at \in G
                 PROVE  /\ NextRun(table, at) \in G
                        /\ at.begin \in 1..(n + 1)
                        /\ at.begin <= n => NextRun(table, at).begin > at.begin
                        /\ at.begin > n => NextRun(table, at) = at
        OBVIOUS
    <2>1. RunsBefore(table, n, at)
        OBVIOUS
    <2>2. /\ RunsBefore(table, n, NextRun(table, at))
          /\ at.begin <= n => NextRun(table, at).begin > at.begin
          /\ at.begin > n => NextRun(table, at) = at
        BY <2>1, NextRunKeeps
    <2>3. NextRun(table, at) \in G
        <3> HIDE DEF G
        <3> QED BY <1>2, <2>2
    <2> QED BY <2>1, <2>2, <2>3 DEF RunsBefore
<1>5. PICK f : /\ Eqn(f) /\ f[0] = start
               /\ \A i \in Nat : f[i] \in G /\ f[i + 1] = NextRun(table, f[i])
    <2>1. Turn \in [Nat -> [G -> G]]
        BY <1>4
    <2> HIDE DEF G
    <2>2. PICK f \in [Nat -> G] : FollowsAll(f, start, Turn)
        BY <1>3, <2>1, RecursionExists
    <2>3. f[0] = start /\ \A i \in Nat : f[i + 1] = NextRun(table, f[i])
        BY <2>2 DEF FollowsAll
    <2>4. \A i \in Nat : i # 0 => f[i] = NextRun(table, f[i - 1])
        <3> SUFFICES ASSUME NEW i \in Nat, i # 0
                     PROVE  f[i] = NextRun(table, f[i - 1])
            OBVIOUS
        <3>1. i - 1 \in Nat /\ (i - 1) + 1 = i
            OBVIOUS
        <3> QED BY <2>3, <3>1
    <2>5. Eqn(f)
        <3>1. f = [i \in Nat |-> f[i]]
            BY <2>2
        <3>2. \A i \in Nat : f[i] = IF i = 0 THEN [begin |-> 1, runs |-> {}]
                                    ELSE NextRun(table, f[i - 1])
            BY <2>3, <2>4
        <3> QED BY <3>1, <3>2
    <2> HIDE DEF Eqn
    <2> QED BY <2>2, <2>3, <2>5
<1>6. Eqn(search)
    <2> HIDE DEF Eqn
    <2> QED BY <1>5
<1>7. /\ search[0] = start
      /\ \A i \in Nat : search[i + 1] = NextRun(table, search[i])
    <2>1. \A i \in Nat : i + 1 \in Nat /\ i + 1 # 0 /\ (i + 1) - 1 = i
        OBVIOUS
    <2> HIDE DEF search
    <2> QED BY <1>6, <2>1
<1> HIDE DEF search, Eqn, G
<1>8. search[n] \in G /\ search[n].begin = n + 1
    <2> DEFINE T == {i \in Nat : /\ search[i] \in G
                                 /\ \/ search[i].begin >= i + 1
                                    \/ search[i].begin = n + 1}
    <2>1. 0 \in T
        BY <1>3, <1>7
    <2>2. ASSUME NEW i \in T PROVE i + 1 \in T
        <3>1. /\ search[i] \in G /\ i \in Nat /\ i + 1 \in Nat
              /\ search[i].begin >= i + 1 \/ search[i].begin = n + 1
            OBVIOUS
        <3>2. /\ search[i + 1] \in G
              /\ search[i].begin \in 1..(n + 1) /\ search[i + 1].begin \in 1..(n + 1)
              /\ search[i].begin <= n => search[i + 1].begin > search[i].begin
              /\ search[i].begin > n => search[i + 1] = search[i]
            BY <1>4, <1>7, <3>1
        <3>3. \/ search[i + 1].begin >= (i + 1) + 1
              \/ search[i + 1].begin = n + 1
            BY <3>1, <3>2
        <3> QED BY <3>1, <3>2, <3>3
    <2> HIDE DEF T
    <2>3. T = Nat
        <3>1. T \in SUBSET Nat
            BY DEF T
        <3> QED BY <2>1, <2>2, <3>1, SetInduction
    <2>4. /\ search[n] \in G
          /\ search[n].begin >= n + 1 \/ search[n].begin = n + 1
        BY <2>3 DEF T
    <2>5. search[n].begin \in 1..(n + 1)
        BY <1>4, <2>4
    <2> QED BY <2>4, <2>5
<1>9. search[n].runs = {r \in M : r[1] < n + 1}
    BY <1>8 DEF G, RunsBefore
<1>10. \A r \in M : r[1] \in 1..n /\ r[1] < n + 1
    BY DEF MaximalRuns
<1> HIDE DEF M
<1>11. search[n].runs = M
    BY <1>9, <1>10
<1> QED BY <1>1, <1>11 DEF M

\* A run holds all the places of its key, and every place is in one run.
LEMMA RunsAre ==
    ASSUME NEW n \in Nat, NEW table, Sortable(table, n)
    PROVE  /\ IsFiniteSet(Runs(table))
           /\ \A r \in Runs(table) :
                  /\ r[1] \in 1..n /\ r[2] \in 2..(n + 1) /\ r[1] < r[2]
                  /\ r = <<r[1], r[2]>>
                  /\ InRun(r) = {i \in 1..n : table[i].state.key = table[r[1]].state.key}
           /\ \A r, s \in Runs(table) :
                  table[r[1]].state.key = table[s[1]].state.key => r = s
           /\ \A i \in 1..n : \E r \in Runs(table) :
                  table[r[1]].state.key = table[i].state.key
<1> DEFINE k == [i \in 1..n |-> table[i].state.key]
           W == (1..n) \X (2..(n + 1))
<1>1. /\ Len(table) = n
      /\ \A i \in 1..n : k[i] \in Nat /\ k[i] = table[i].state.key
      /\ \A a, b \in 1..n : a <= b => k[a] <= k[b]
    BY DEF Sortable
<1> HIDE DEF k
<1>2. \A r : r \in Runs(table) <=>
          /\ r \in W /\ r[1] < r[2]
          /\ \A p \in r[1]..(r[2] - 1) : k[p] = k[r[1]]
          /\ r[1] = 1 \/ k[r[1] - 1] # k[r[1]]
          /\ r[2] = n + 1 \/ k[r[2]] # k[r[1]]
    <2>1. \A r \in W : /\ r[1] \in 1..n /\ r[2] \in 2..(n + 1)
                       /\ r[1] = 1 \/ r[1] - 1 \in 1..n
                       /\ r[2] = n + 1 \/ r[2] \in 1..n
                       /\ \A p \in r[1]..(r[2] - 1) : p \in 1..n
        OBVIOUS
    <2>2. Runs(table) =
              {r \in W : /\ r[1] < r[2]
                         /\ \A p \in r[1]..(r[2] - 1) :
                                table[p].state.key = table[r[1]].state.key
                         /\ r[1] = 1 \/ table[r[1] - 1].state.key # table[r[1]].state.key
                         /\ r[2] = n + 1 \/ table[r[2]].state.key # table[r[1]].state.key}
        <3>1. Runs(table) = MaximalRuns(table, n)
            BY <1>1, RunsAreMaximal
        <3> QED BY <3>1 DEF MaximalRuns
    <2> HIDE DEF W
    <2>3. \A r \in W :
              (/\ \A p \in r[1]..(r[2] - 1) : k[p] = k[r[1]]
               /\ r[1] = 1 \/ k[r[1] - 1] # k[r[1]]
               /\ r[2] = n + 1 \/ k[r[2]] # k[r[1]])
              <=> (/\ \A p \in r[1]..(r[2] - 1) :
                          table[p].state.key = table[r[1]].state.key
                   /\ r[1] = 1 \/ table[r[1] - 1].state.key # table[r[1]].state.key
                   /\ r[2] = n + 1 \/ table[r[2]].state.key # table[r[1]].state.key)
        BY <1>1, <2>1
    <2> QED BY <2>2, <2>3
<1>3. IsFiniteSet(Runs(table))
    <2>1. IsFiniteSet(1..n) /\ IsFiniteSet(2..(n + 1))
        BY FS_Interval
    <2>2. IsFiniteSet(W)
        BY <2>1, FS_Product
    <2>3. Runs(table) \in SUBSET W
        BY <1>2
    <2> HIDE DEF W
    <2> QED BY <2>2, <2>3, FS_Subset
<1>4. Grouped(k, n)
    <2> SUFFICES ASSUME NEW a \in 1..n, NEW b \in 1..n, NEW c \in 1..n,
                        a <= b, b <= c, k[a] = k[c]
                 PROVE  k[b] = k[a]
        BY DEF Grouped
    <2>1. k[a] <= k[b] /\ k[b] <= k[c] /\ k[a] \in Nat /\ k[b] \in Nat
        BY <1>1
    <2> QED BY <2>1
<1>5. ASSUME NEW r \in Runs(table)
      PROVE  /\ r[1] \in 1..n /\ r[2] \in 2..(n + 1) /\ r[1] < r[2]
             /\ r = <<r[1], r[2]>>
             /\ InRun(r) = {i \in 1..n : k[i] = k[r[1]]}
    <2>1. /\ r[1] \in 1..n /\ r[2] \in 2..(n + 1) /\ r[1] < r[2]
          /\ r = <<r[1], r[2]>>
          /\ \A p \in r[1]..(r[2] - 1) : k[p] = k[r[1]]
          /\ r[1] = 1 \/ k[r[1] - 1] # k[r[1]]
          /\ r[2] = n + 1 \/ k[r[2]] # k[r[1]]
        BY <1>2
    <2> DEFINE x == r[1]
               y == r[2]
    <2>2. /\ x \in 1..n /\ y \in 2..(n + 1) /\ x < y
          /\ \A p \in x..(y - 1) : k[p] = k[x]
          /\ x = 1 \/ k[x - 1] # k[x]
          /\ y = n + 1 \/ k[y] # k[x]
        BY <2>1
    <2> HIDE DEF x, y
    <2>3. ASSUME NEW i \in 1..n, k[i] = k[x] PROVE i \in x..(y - 1)
        <3>1. ~(i < x)
            <4> SUFFICES ASSUME i < x PROVE FALSE
                OBVIOUS
            <4>1. x - 1 \in 1..n /\ i <= x - 1 /\ x - 1 <= x /\ x # 1
                BY <2>2
            <4>2. k[x - 1] = k[i]
                BY <1>4, <2>2, <2>3, <4>1 DEF Grouped
            <4> QED BY <2>2, <2>3, <4>1, <4>2
        <3>2. ~(i >= y)
            <4> SUFFICES ASSUME i >= y PROVE FALSE
                OBVIOUS
            <4>1. y \in 1..n /\ x <= y /\ y <= i /\ y # n + 1
                BY <2>2
            <4>2. k[y] = k[x]
                BY <1>4, <2>2, <2>3, <4>1 DEF Grouped
            <4> QED BY <2>2, <4>1, <4>2
        <3> QED BY <2>2, <3>1, <3>2
    <2>4. x..(y - 1) = {i \in 1..n : k[i] = k[x]}
        BY <2>2, <2>3
    <2> QED BY <2>1, <2>4 DEF InRun, x, y
<1>6. ASSUME NEW r \in Runs(table), NEW s \in Runs(table), k[r[1]] = k[s[1]]
      PROVE  r = s
    <2>1. /\ r[1] \in 1..n /\ r[2] \in 2..(n + 1) /\ r[1] < r[2]
          /\ s[1] \in 1..n /\ s[2] \in 2..(n + 1) /\ s[1] < s[2]
          /\ r = <<r[1], r[2]>> /\ s = <<s[1], s[2]>>
          /\ r[1]..(r[2] - 1) = s[1]..(s[2] - 1)
        BY <1>5, <1>6 DEF InRun
    <2>2. /\ r[1] \in s[1]..(s[2] - 1) /\ s[1] \in r[1]..(r[2] - 1)
          /\ r[2] - 1 \in s[1]..(s[2] - 1) /\ s[2] - 1 \in r[1]..(r[2] - 1)
        <3>1. /\ r[1] \in r[1]..(r[2] - 1) /\ s[1] \in s[1]..(s[2] - 1)
              /\ r[2] - 1 \in r[1]..(r[2] - 1) /\ s[2] - 1 \in s[1]..(s[2] - 1)
            BY <2>1
        <3> QED BY <2>1, <3>1
    <2>3. r[1] = s[1] /\ r[2] = s[2]
        BY <2>1, <2>2
    <2> QED BY <2>1, <2>3
<1>7. ASSUME NEW i \in 1..n
      PROVE  \E r \in Runs(table) : k[r[1]] = k[i]
    <2>1. PICK s \in Firsts(k, n) : s <= i /\ k[s] = k[i]
        BY RunOfElement
    <2>2. s \in 1..n /\ (s = 1 \/ k[s - 1] # k[s])
        BY DEF Firsts
    <2> DEFINE E == {e \in Nat : e > s /\ e <= n + 1 /\ (e = n + 1 \/ k[e] # k[s])}
    <2>3. n + 1 \in E
        BY <2>2
    <2>4. PICK e \in E : \A f \in E : e <= f
        <3>1. E \in SUBSET Nat
            OBVIOUS
        <3> HIDE DEF E
        <3> QED BY <2>3, <3>1, NatLeast
    <2>5. e \in Nat /\ e > s /\ e <= n + 1 /\ (e = n + 1 \/ k[e] # k[s])
        OBVIOUS
    <2>6. ASSUME NEW p \in s..(e - 1) PROVE k[p] = k[s]
        <3>1. p = s \/ p > s
            BY <2>2
        <3>2. p \in Nat /\ p < e /\ p <= n + 1
            BY <2>2, <2>5
        <3>3. p \notin E
            BY <2>4, <3>2
        <3> QED BY <3>1, <3>2, <3>3
    <2> DEFINE r == <<s, e>>
    <2>7. r[1] = s /\ r[2] = e /\ r \in W
        BY <2>2, <2>5
    <2> HIDE DEF r, E
    <2>8. r \in Runs(table)
        BY <1>2, <2>2, <2>5, <2>6, <2>7
    <2> QED BY <2>1, <2>7, <2>8
<1>8. ASSUME NEW r \in Runs(table)
      PROVE  /\ r[1] \in 1..n /\ r[2] \in 2..(n + 1) /\ r[1] < r[2]
             /\ r = <<r[1], r[2]>>
             /\ InRun(r) = {i \in 1..n : table[i].state.key = table[r[1]].state.key}
    BY <1>1, <1>5
<1>9. ASSUME NEW r \in Runs(table), NEW s \in Runs(table),
             table[r[1]].state.key = table[s[1]].state.key
      PROVE  r = s
    <2>1. r[1] \in 1..n /\ s[1] \in 1..n
        BY <1>8
    <2> QED BY <1>1, <1>6, <1>9, <2>1
<1>10. ASSUME NEW i \in 1..n
       PROVE  \E r \in Runs(table) : table[r[1]].state.key = table[i].state.key
    <2>1. PICK r \in Runs(table) : k[r[1]] = k[i]
        BY <1>7
    <2>2. r[1] \in 1..n
        BY <1>8
    <2> QED BY <1>1, <2>1, <2>2
<1> QED BY <1>3, <1>8, <1>9, <1>10

\* The pairs of candidates that collide, by their keys or altogether.
KeyPairs(o, n) ==
    {e \in (0..(n - 1)) \X (0..(n - 1)) :
        e[1] < e[2] /\ o[e[1]].key = o[e[2]].key}
StatePairs(o, n) ==
    {e \in (0..(n - 1)) \X (0..(n - 1)) : e[1] < e[2] /\ o[e[1]] = o[e[2]]}

\* Counted run by run: the pairs of neighbours in the table with equal keys, and
\* of those the pairs of equal states.
LEMMA PairsOfRuns ==
    ASSUME NEW n \in Nat, NEW o, Candidates(o, n), NEW t, NEW place,
           Tabulates(t, place, o, n),
           NEW g, \A r \in Runs(t) : g[r] = ((r[2] - r[1]) * ((r[2] - r[1]) - 1)) \div 2,
           NEW h, \A r \in Runs(t) :
               h[r] = Cardinality({e \in InRun(r) \X InRun(r) :
                                      e[1] < e[2] /\ t[e[1]].state = t[e[2]].state})
    PROVE  /\ \A r \in Runs(t) : g[r] \in Nat /\ h[r] \in Nat
           /\ Total(g, Runs(t)) = Cardinality(KeyPairs(o, n))
           /\ Total(h, Runs(t)) = Cardinality(StatePairs(o, n))
<1> DEFINE A == 1..n
           D == 0..(n - 1)
           K == Runs(t)
           R == {e \in D \X D : o[e[1]].key = o[e[2]].key}
           Q == {e \in D \X D : o[e[1]] = o[e[2]]}
           C == [r \in K |-> Ascending(InRun(r))]
           B == [r \in K |-> {e \in InRun(r) \X InRun(r) :
                                 e[1] < e[2] /\ t[e[1]].state = t[e[2]].state}]
<1>1. /\ DOMAIN t = 1..n /\ Len(t) = n
      /\ place \in [1..n -> 0..(n - 1)]
      /\ \A i \in 1..n : t[i].state = o[place[i]] /\ t[i].state.key \in Nat
      /\ \A a, b \in 1..n : a <= b => t[a].state.key <= t[b].state.key
    <2>1. /\ DOMAIN t = 1..n /\ Len(t) = n
          /\ place \in [1..n -> 0..(n - 1)]
          /\ \A d \in 0..(n - 1) : \E a \in 1..n : place[a] = d
          /\ \A i \in 1..n : /\ t[i].candidate = place[i]
                             /\ t[i].state = o[place[i]]
                             /\ t[i].state.key \in Nat
          /\ \A a, b \in 1..n : a <= b => t[a].state.key <= t[b].state.key
        BY TableAt
    <2> QED BY <2>1, Zenon
<1>2. Sortable(t, n)
    BY <1>1, Zenon DEF Sortable
<1>3. /\ IsFiniteSet(K)
      /\ \A r \in K :
             /\ r[1] \in 1..n /\ r[2] \in 2..(n + 1) /\ r[1] < r[2]
             /\ InRun(r) = {i \in 1..n : t[i].state.key = t[r[1]].state.key}
      /\ \A r, s \in K : t[r[1]].state.key = t[s[1]].state.key => r = s
      /\ \A i \in 1..n : \E r \in K : t[r[1]].state.key = t[i].state.key
    BY <1>2, RunsAre
<1> HIDE DEF K
<1>4. ASSUME NEW r \in K
      PROVE  /\ IsFiniteSet(C[r]) /\ g[r] = Cardinality(C[r])
             /\ IsFiniteSet(B[r]) /\ h[r] = Cardinality(B[r])
    <2> DEFINE I == InRun(r)
               x == r[1]
               y == r[2]
    <2>1. I = x..(y - 1) /\ x \in 1..n /\ y \in 2..(n + 1) /\ x < y
        BY <1>3 DEF InRun
    <2> HIDE DEF I, x, y
    <2>2. IsFiniteSet(I) /\ Cardinality(I) = y - x
        <3> DEFINE z == y - 1
        <3>1. x \in Int /\ z \in Int /\ x <= z /\ z - x + 1 = y - x
            BY <2>1
        <3> HIDE DEF z
        <3>2. IsFiniteSet(x..z) /\ Cardinality(x..z) = z - x + 1
            BY <3>1, FS_Interval
        <3> QED BY <2>1, <3>1, <3>2 DEF z
    <2>3. I \in SUBSET Nat
        BY <2>1
    <2>4. /\ IsFiniteSet(Ascending(I))
          /\ Cardinality(Ascending(I)) = (Cardinality(I) * (Cardinality(I) - 1)) \div 2
        BY <2>2, <2>3, PairsOfSet
    <2>5. g[r] = ((y - x) * ((y - x) - 1)) \div 2
        BY DEF K, x, y
    <2>6. C[r] = Ascending(I)
        BY DEF I
    <2>7. g[r] = Cardinality(C[r])
        BY <2>2, <2>4, <2>5, <2>6
    <2>8. B[r] \in SUBSET Ascending(I)
        BY DEF I, Ascending
    <2>9. h[r] = Cardinality(B[r])
        BY DEF K
    <2> HIDE DEF C, B
    <2> QED BY <2>4, <2>6, <2>7, <2>8, <2>9, FS_Subset
<1>5. ASSUME NEW r \in K, NEW s \in K, r # s
      PROVE  C[r] \cap C[s] = {} /\ B[r] \cap B[s] = {}
    <2>1. InRun(r) \cap InRun(s) = {}
        BY <1>3, <1>5
    <2> QED BY <2>1 DEF Ascending
<1>6. Together(C, K) = PairsCarrying(A, place, R)
    <2>1. ASSUME NEW e \in Together(C, K) PROVE e \in PairsCarrying(A, place, R)
        <3>1. PICK r \in K : e \in Ascending(InRun(r))
            BY DEF Together
        <3>2. /\ e = <<e[1], e[2]>> /\ e[1] \in InRun(r) /\ e[2] \in InRun(r)
              /\ e[1] < e[2]
            BY <3>1 DEF Ascending
        <3>3. /\ e[1] \in 1..n /\ e[2] \in 1..n
              /\ t[e[1]].state.key = t[e[2]].state.key
            BY <1>3, <3>2
        <3>4. <<place[e[1]], place[e[2]]>> \in R
            BY <1>1, <3>3
        <3> QED BY <3>2, <3>3, <3>4 DEF PairsCarrying, Ascending
    <2>2. ASSUME NEW e \in PairsCarrying(A, place, R) PROVE e \in Together(C, K)
        <3>1. /\ e = <<e[1], e[2]>> /\ e[1] \in 1..n /\ e[2] \in 1..n
              /\ e[1] < e[2]
              /\ o[place[e[1]]].key = o[place[e[2]]].key
            BY DEF PairsCarrying, Ascending
        <3>2. t[e[1]].state.key = t[e[2]].state.key
            BY <1>1, <3>1
        <3>3. PICK r \in K : t[r[1]].state.key = t[e[1]].state.key
            BY <1>3, <3>1
        <3>4. e[1] \in InRun(r) /\ e[2] \in InRun(r)
            BY <1>3, <3>1, <3>2, <3>3
        <3>5. e \in C[r]
            BY <3>1, <3>4 DEF Ascending
        <3> QED BY <3>5 DEF Together
    <2> QED BY <2>1, <2>2
<1>7. Together(B, K) = PairsCarrying(A, place, Q)
    <2>1. ASSUME NEW e \in Together(B, K) PROVE e \in PairsCarrying(A, place, Q)
        <3>1. PICK r \in K : e \in B[r]
            BY DEF Together
        <3>2. /\ e = <<e[1], e[2]>> /\ e[1] \in InRun(r) /\ e[2] \in InRun(r)
              /\ e[1] < e[2] /\ t[e[1]].state = t[e[2]].state
            BY <3>1
        <3>3. e[1] \in 1..n /\ e[2] \in 1..n
            BY <1>3, <3>2
        <3>4. <<place[e[1]], place[e[2]]>> \in Q
            BY <1>1, <3>2, <3>3
        <3> QED BY <3>2, <3>3, <3>4 DEF PairsCarrying, Ascending
    <2>2. ASSUME NEW e \in PairsCarrying(A, place, Q) PROVE e \in Together(B, K)
        <3>1. /\ e = <<e[1], e[2]>> /\ e[1] \in 1..n /\ e[2] \in 1..n
              /\ e[1] < e[2]
              /\ o[place[e[1]]] = o[place[e[2]]]
            BY DEF PairsCarrying, Ascending
        <3>2. t[e[1]].state = t[e[2]].state
            BY <1>1, <3>1
        <3>3. PICK r \in K : t[r[1]].state.key = t[e[1]].state.key
            BY <1>3, <3>1
        <3>4. e[1] \in InRun(r) /\ e[2] \in InRun(r)
            BY <1>3, <3>1, <3>2, <3>3
        <3>5. e \in B[r]
            BY <3>1, <3>2, <3>4
        <3> QED BY <3>5 DEF Together
    <2> QED BY <2>1, <2>2
<1>8. PairsOf(D, R) = KeyPairs(o, n) /\ PairsOf(D, Q) = StatePairs(o, n)
    BY DEF PairsOf, Ascending, KeyPairs, StatePairs
<1>9. /\ Cardinality(PairsCarrying(A, place, R)) = Cardinality(PairsOf(D, R))
      /\ Cardinality(PairsCarrying(A, place, Q)) = Cardinality(PairsOf(D, Q))
    <2>1. /\ A \in SUBSET Nat /\ IsFiniteSet(A) /\ D \in SUBSET Nat
          /\ place \in Bijection(A, D)
        BY FS_Interval DEF Tabulates
    <2>2. /\ \A x, y \in D : <<x, y>> \in R => <<y, x>> \in R
          /\ \A x, y \in D : <<x, y>> \in Q => <<y, x>> \in Q
        OBVIOUS
    <2> HIDE DEF A, D, R, Q
    <2>3. Cardinality(PairsCarrying(A, place, R)) = Cardinality(PairsOf(D, R))
        BY <2>1, <2>2, PairsCarried
    <2>4. Cardinality(PairsCarrying(A, place, Q)) = Cardinality(PairsOf(D, Q))
        BY <2>1, <2>2, PairsCarried
    <2> QED BY <2>3, <2>4
<1> HIDE DEF C, B, A, R, Q
<1>10. /\ Total(g, K) = Cardinality(Together(C, K))
       /\ Total(h, K) = Cardinality(Together(B, K))
    <2>1. Total(g, K) = Cardinality(Together(C, K))
        BY <1>3, <1>4, <1>5, SumOfSizes
    <2>2. Total(h, K) = Cardinality(Together(B, K))
        BY <1>3, <1>4, <1>5, SumOfSizes
    <2> QED BY <2>1, <2>2
<1>11. \A r \in K : g[r] \in Nat /\ h[r] \in Nat
    BY <1>4, FS_CardinalityType
<1> QED BY <1>6, <1>7, <1>8, <1>9, <1>10, <1>11 DEF K

\* The search of the table counts what is asked of it: for each target the
\* candidates with its key and those with its state, and the pairs of candidates
\* that collide; and it finds the planted candidate.
LEMMA SearchOfMeans ==
    ASSUME NEW n \in Nat, NEW outputs, Candidates(outputs, n),
           NEW unplanted, NEW target \in 0..(n - 1)
    PROVE  SearchMeans(outputs, unplanted, target,
                       SearchOf(Table(outputs), outputs[target], unplanted, target))
<1> DEFINE D == 0..(n - 1)
           t == Table(outputs)
           planted == outputs[target]
           counts == SearchOf(t, planted, unplanted, target)
           K == Runs(t)
           Size(r) == r[2] - r[1]
           Equal(r) == Cardinality({p \in InRun(r) \X InRun(r) :
                           p[1] < p[2] /\ t[p[1]].state = t[p[2]].state})
           g == [r \in K |-> (Size(r) * (Size(r) - 1)) \div 2]
           h == [r \in K |-> Equal(r)]
           Keyed(k) == {c \in D : outputs[c].key = k}
           Being(o) == {c \in D : outputs[c] = o}
<1>1. PICK place : Tabulates(t, place, outputs, n)
    BY TableTabulates
<1>2. /\ DOMAIN t = 1..n /\ Len(t) = n
      /\ place \in [1..n -> 0..(n - 1)]
      /\ \A d \in 0..(n - 1) : \E a \in 1..n : place[a] = d
      /\ \A i \in 1..n : /\ t[i].candidate = place[i]
                         /\ t[i].state = outputs[place[i]]
                         /\ t[i].state.key \in Nat
      /\ \A a, b \in 1..n : a <= b => t[a].state.key <= t[b].state.key
    <2> HIDE DEF t
    <2> QED BY <1>1, TableAt
<1>3. place \in Bijection(1..n, 0..(n - 1))
    BY <1>1 DEF Tabulates
<1>4. Sortable(t, n)
    BY <1>2, Zenon DEF Sortable
<1>5. DOMAIN outputs = D
    BY DEF Candidates
<1> HIDE DEF t
\* Of the table, as of the candidates.
<1>6. ASSUME NEW k
      PROVE  Cardinality({p \in DOMAIN t : t[p].state.key = k}) = Cardinality(Keyed(k))
    <2> DEFINE S == Keyed(k)
    <2>1. S \in SUBSET (0..(n - 1))
        OBVIOUS
    <2>2. {p \in DOMAIN t : t[p].state.key = k} = {i \in 1..n : place[i] \in S}
        BY <1>2
    <2> HIDE DEF S
    <2>3. Cardinality({i \in 1..n : place[i] \in S}) = Cardinality(S)
        BY <1>3, <2>1, EntriesOf
    <2> QED BY <2>2, <2>3 DEF S
<1>7. ASSUME NEW o
      PROVE  Cardinality({p \in DOMAIN t : t[p].state = o}) = Cardinality(Being(o))
    <2> DEFINE S == Being(o)
    <2>1. S \in SUBSET (0..(n - 1))
        OBVIOUS
    <2>2. {p \in DOMAIN t : t[p].state = o} = {i \in 1..n : place[i] \in S}
        BY <1>2
    <2> HIDE DEF S
    <2>3. Cardinality({i \in 1..n : place[i] \in S}) = Cardinality(S)
        BY <1>3, <2>1, EntriesOf
    <2> QED BY <2>2, <2>3 DEF S
<1>8. \E p \in DOMAIN t : t[p].state = planted /\ t[p].candidate = target
    <2>1. PICK a \in 1..n : place[a] = target
        BY <1>2
    <2> QED BY <1>2, <2>1
<1>9. /\ IsFiniteSet(K)
      /\ \A r \in K :
             /\ r[1] \in 1..n /\ r[2] \in 2..(n + 1) /\ r[1] < r[2]
             /\ InRun(r) = {i \in 1..n : t[i].state.key = t[r[1]].state.key}
      /\ \A i \in 1..n : \E r \in K : t[r[1]].state.key = t[i].state.key
    BY <1>4, RunsAre
<1>10. /\ \A r \in K : g[r] \in Nat /\ h[r] \in Nat
       /\ Total(g, K) = Cardinality(KeyPairs(outputs, n))
       /\ Total(h, K) = Cardinality(StatePairs(outputs, n))
    <2>1. /\ \A r \in Runs(t) :
                 g[r] = ((r[2] - r[1]) * ((r[2] - r[1]) - 1)) \div 2
          /\ \A r \in Runs(t) :
                 h[r] = Cardinality({e \in InRun(r) \X InRun(r) :
                                        e[1] < e[2] /\ t[e[1]].state = t[e[2]].state})
        OBVIOUS
    <2> HIDE DEF g, h
    <2> QED BY <1>1, <2>1, PairsOfRuns
<1>11. MapThenSumSet(LAMBDA r : (Size(r) * (Size(r) - 1)) \div 2, K) = Total(g, K)
    <2> DEFINE term(r) == (Size(r) * (Size(r) - 1)) \div 2
               P(it) == it = [s \in SUBSET K |->
                   IF s = {} THEN 0
                   ELSE term(CHOOSE x \in s : TRUE) + it[s \ {CHOOSE x \in s : TRUE}]]
    <2>1. MapThenSumSet(LAMBDA r : (Size(r) * (Size(r) - 1)) \div 2, K)
              = (CHOOSE it : P(it))[K]
        BY DEF MapThenSumSet, MapThenFoldSet
    <2> HIDE DEF K
    <2>2. \A it : P(it) <=> Sums(it, g, K)
        BY DEF Sums
    <2> HIDE DEF P, g
    <2>3. \E it : Sums(it, g, K)
        BY <1>9, <1>10, SumExists
    <2>4. P(CHOOSE it : P(it))
        BY <2>2, <2>3
    <2>5. (CHOOSE it : P(it))[K] = Total(g, K)
        BY <1>9, <1>10, <2>2, <2>4, TotalIs
    <2> QED BY <2>1, <2>5
<1>12. MapThenSumSet(LAMBDA r : Equal(r), K) = Total(h, K)
    <2> DEFINE P(it) == it = [s \in SUBSET K |->
                   IF s = {} THEN 0
                   ELSE Equal(CHOOSE x \in s : TRUE) + it[s \ {CHOOSE x \in s : TRUE}]]
    <2> HIDE DEF Equal
    <2>1. MapThenSumSet(LAMBDA r : Equal(r), K) = (CHOOSE it : P(it))[K]
        BY DEF MapThenSumSet, MapThenFoldSet
    <2> HIDE DEF K
    <2>2. \A it : P(it) <=> Sums(it, h, K)
        BY DEF Sums
    <2> HIDE DEF P, h
    <2>3. \E it : Sums(it, h, K)
        BY <1>9, <1>10, SumExists
    <2>4. P(CHOOSE it : P(it))
        BY <2>2, <2>3
    <2>5. (CHOOSE it : P(it))[K] = Total(h, K)
        BY <1>9, <1>10, <2>2, <2>4, TotalIs
    <2> QED BY <2>1, <2>5
<1>13. {Size(r) : r \in K} = {Cardinality(Keyed(outputs[c].key)) : c \in D}
    <2>1. ASSUME NEW r \in K, NEW i \in 1..n,
                 t[r[1]].state.key = t[i].state.key
          PROVE  Size(r) = Cardinality(Keyed(outputs[place[i]].key))
        <3> DEFINE x == r[1]
                   z == r[2] - 1
                   k == t[i].state.key
        <3>1. /\ x \in Int /\ z \in Int /\ x <= z /\ z - x + 1 = Size(r)
              /\ InRun(r) = x..z
            BY <1>9 DEF InRun
        <3>2. InRun(r) = {p \in DOMAIN t : t[p].state.key = k}
            <4>1. InRun(r) = {p \in 1..n : t[p].state.key = t[r[1]].state.key}
                BY <1>9
            <4>2. t[r[1]].state.key = k
                BY <2>1
            <4> HIDE DEF k
            <4> QED BY <1>2, <4>1, <4>2
        <3>3. k = outputs[place[i]].key
            BY <1>2
        <3> HIDE DEF x, z, k, Size, Keyed
        <3>4. Cardinality(x..z) = z - x + 1
            BY <3>1, FS_Interval
        <3> QED BY <1>6, <3>1, <3>2, <3>3, <3>4
    <2>2. ASSUME NEW r \in K
          PROVE  \E c \in D : Size(r) = Cardinality(Keyed(outputs[c].key))
        <3>1. r[1] \in 1..n /\ place[r[1]] \in D
            BY <1>2, <1>9
        <3> HIDE DEF Size, Keyed
        <3> QED BY <2>1, <3>1
    <2>3. ASSUME NEW c \in D
          PROVE  \E r \in K : Size(r) = Cardinality(Keyed(outputs[c].key))
        <3>1. PICK i \in 1..n : place[i] = c
            BY <1>2
        <3>2. PICK r \in K : t[r[1]].state.key = t[i].state.key
            BY <1>9
        <3> HIDE DEF Size, Keyed
        <3> QED BY <2>1, <3>1, <3>2
    <2> HIDE DEF Size, Keyed
    <2> QED BY <2>2, <2>3
<1>14. /\ counts.planted_prefix
              = Cardinality({p \in DOMAIN t : t[p].state.key = planted.key})
       /\ counts.planted_exact
              = Cardinality({p \in DOMAIN t : t[p].state = planted})
       /\ counts.recovered
       /\ counts.unplanted_prefix
              = Cardinality({p \in DOMAIN t : t[p].state.key = unplanted.key})
       /\ counts.unplanted_exact
              = Cardinality({p \in DOMAIN t : t[p].state = unplanted})
       /\ counts.maximum_bucket = Max({Size(r) : r \in K})
    BY <1>8 DEF SearchOf
<1>15. /\ counts.collision_pairs
              = MapThenSumSet(LAMBDA r : (Size(r) * (Size(r) - 1)) \div 2, K)
       /\ counts.exact_collisions = MapThenSumSet(LAMBDA r : Equal(r), K)
    BY DEF SearchOf, InRun
<1> HIDE DEF counts, K, Size, Equal, g, h
<1>16. SearchMeans(outputs, unplanted, target, counts)
    <2>1. counts.maximum_bucket = Max({Cardinality(Keyed(outputs[c].key)) : c \in D})
        BY <1>13, <1>14
    <2>2. /\ counts.planted_prefix = Cardinality(Keyed(planted.key))
          /\ counts.planted_exact = Cardinality(Being(planted))
          /\ counts.recovered
          /\ counts.unplanted_prefix = Cardinality(Keyed(unplanted.key))
          /\ counts.unplanted_exact = Cardinality(Being(unplanted))
        BY <1>6, <1>7, <1>14
    <2>3. /\ counts.collision_pairs
                 = Cardinality({e \in D \X D :
                       e[1] < e[2] /\ outputs[e[1]].key = outputs[e[2]].key})
          /\ counts.exact_collisions
                 = Cardinality({e \in D \X D :
                       e[1] < e[2] /\ outputs[e[1]] = outputs[e[2]]})
        BY <1>10, <1>11, <1>12, <1>15 DEF KeyPairs, StatePairs
    <2> HIDE DEF D
    <2> QED BY <1>5, <2>1, <2>2, <2>3 DEF SearchMeans, Pairs, Keyed, Being
<1> QED BY <1>16 DEF counts, t

-----------------------------------------------------------------------------
(* The statistics of pairs *)

WeightsOf(pairs, among) == [i \in among |-> pairs[i].weight]
ZerosOf(pairs, among) == {i \in among : pairs[i].weight = 0}

\* What PairsMean says, by the element that is least or greatest.
Means(s, pairs, among, width, words) ==
    /\ \A i \in among : pairs[i].weight \in Nat /\ pairs[i].active \in Nat
    /\ s.total_weight = Total(WeightsOf(pairs, among), among)
    /\ s.zero_differences = Cardinality(ZerosOf(pairs, among))
    /\ s.minimum_weight \in Nat /\ s.minimum_weight <= width
    /\ \A i \in among : s.minimum_weight <= pairs[i].weight
    /\ \/ s.minimum_weight = width
       \/ \E i \in among : pairs[i].weight = s.minimum_weight
    /\ s.maximum_weight \in Nat
    /\ \A i \in among : pairs[i].weight <= s.maximum_weight
    /\ \/ s.maximum_weight = 0
       \/ \E i \in among : pairs[i].weight = s.maximum_weight
    /\ s.minimum_active_words \in Nat /\ s.minimum_active_words <= words
    /\ \A i \in among : s.minimum_active_words <= pairs[i].active
    /\ \/ s.minimum_active_words = words
       \/ \E i \in among : pairs[i].active = s.minimum_active_words

\* EmptyStats are the statistics of no pair, and Record adds one pair to them.
LEMMA EmptyMeans ==
    ASSUME NEW width \in Nat, NEW words \in Nat, NEW pairs
    PROVE  Means(EmptyStats(width, words), pairs, {}, width, words)
<1>1. ZerosOf(pairs, {}) = {} /\ Cardinality({}) = 0
    BY FS_EmptySet DEF ZerosOf
<1>2. Total(WeightsOf(pairs, {}), {}) = 0
    BY TotalEmpty
<1> QED BY <1>1, <1>2 DEF Means, EmptyStats

\* One pair more is recorded.
LEMMA RecordMeans ==
    ASSUME NEW among, IsFiniteSet(among), NEW k, k \notin among,
           NEW width \in Nat, NEW words \in Nat,
           NEW old, NEW new, \A i \in among : new[i] = old[i],
           new[k].weight \in Nat, new[k].active \in Nat,
           NEW s, Means(s, old, among, width, words), NEW place
    PROVE  Means(Record(s, new[k], place), new, among \cup {k}, width, words)
<1> DEFINE all == among \cup {k}
           g == WeightsOf(old, among)
           h == WeightsOf(new, all)
           z == ZerosOf(old, among)
           r == Record(s, new[k], place)
<1>0. \A i \in among : /\ old[i].weight \in Nat /\ old[i].active \in Nat
                       /\ new[i].weight = old[i].weight
                       /\ new[i].active = old[i].active
    BY DEF Means
<1>1. IsFiniteSet(all)
    BY FS_AddElement
<1>2. Total(h, all) = Total(g, among) + new[k].weight /\ Total(g, among) \in Nat
    <2>1. /\ \A i \in among : g[i] \in Nat /\ h[i] = g[i]
          /\ \A i \in all : h[i] \in Nat
          /\ h[k] = new[k].weight
        BY <1>0 DEF WeightsOf
    <2>2. k \in all /\ all \ {k} = among
        OBVIOUS
    <2> HIDE DEF g, h, all
    <2>3. Total(h, all) = h[k] + Total(h, all \ {k})
        BY <1>1, <2>1, <2>2, TotalSplits
    <2>4. Total(h, among) = Total(g, among)
        BY <2>1, TotalAgrees
    <2>5. Total(g, among) \in Nat
        BY <2>1, TotalSplits
    <2>6. h[k] \in Nat
        BY <2>1, <2>2
    <2>7. Total(h, all) = h[k] + Total(g, among)
        BY <2>2, <2>3, <2>4
    <2>8. Total(h, all) = Total(g, among) + h[k]
        BY <2>5, <2>6, <2>7
    <2> QED BY <2>1, <2>5, <2>8
<1>3. /\ Cardinality(ZerosOf(new, all))
             = Cardinality(z) + (IF new[k].weight = 0 THEN 1 ELSE 0)
      /\ Cardinality(z) \in Nat
    <2>1. IsFiniteSet(z) /\ k \notin z
        BY FS_Subset DEF ZerosOf
    <2>2. ZerosOf(new, all) = IF new[k].weight = 0 THEN z \cup {k} ELSE z
        BY <1>0 DEF ZerosOf
    <2> HIDE DEF z, all
    <2>3. /\ Cardinality(z \cup {k}) = Cardinality(z) + 1
          /\ Cardinality(z) \in Nat
        BY <2>1, FS_AddElement, FS_CardinalityType
    <2> QED BY <2>2, <2>3
<1>4. /\ r.total_weight = s.total_weight + new[k].weight
      /\ r.minimum_weight = IF new[k].weight < s.minimum_weight
                            THEN new[k].weight ELSE s.minimum_weight
      /\ r.maximum_weight = IF new[k].weight > s.maximum_weight
                            THEN new[k].weight ELSE s.maximum_weight
      /\ r.minimum_active_words = IF new[k].active < s.minimum_active_words
                                  THEN new[k].active
                                  ELSE s.minimum_active_words
      /\ r.zero_differences = s.zero_differences
                                 + (IF new[k].weight = 0 THEN 1 ELSE 0)
    BY DEF Record
<1> HIDE DEF g, h, z, r
<1>5. /\ r.total_weight = Total(h, all)
      /\ r.zero_differences = Cardinality(ZerosOf(new, all))
    BY <1>2, <1>3, <1>4 DEF Means, g, z
<1>6. \A i \in all : new[i].weight \in Nat /\ new[i].active \in Nat
    BY <1>0
<1>7. /\ r.minimum_weight \in Nat /\ r.minimum_weight <= width
      /\ \A i \in all : r.minimum_weight <= new[i].weight
      /\ \/ r.minimum_weight = width
         \/ \E i \in all : new[i].weight = r.minimum_weight
    BY <1>0, <1>4 DEF Means
<1>8. /\ r.maximum_weight \in Nat
      /\ \A i \in all : new[i].weight <= r.maximum_weight
      /\ \/ r.maximum_weight = 0
         \/ \E i \in all : new[i].weight = r.maximum_weight
    BY <1>0, <1>4 DEF Means
<1>9. /\ r.minimum_active_words \in Nat /\ r.minimum_active_words <= words
      /\ \A i \in all : r.minimum_active_words <= new[i].active
      /\ \/ r.minimum_active_words = words
         \/ \E i \in all : new[i].active = r.minimum_active_words
    BY <1>0, <1>4 DEF Means
<1> HIDE DEF all
<1>10. Means(r, new, all, width, words)
    BY <1>5, <1>6, <1>7, <1>8, <1>9 DEF Means, h
<1> QED BY <1>10 DEF r, all

\* Pairs that are the same have the same statistics.
LEMMA SameMeans ==
    ASSUME NEW among, IsFiniteSet(among), NEW old, NEW new,
           \A i \in among : new[i] = old[i],
           NEW width, NEW words, NEW s, Means(s, old, among, width, words)
    PROVE  Means(s, new, among, width, words)
<1>1. WeightsOf(new, among) = WeightsOf(old, among)
    BY DEF WeightsOf
<1>2. ZerosOf(new, among) = ZerosOf(old, among)
    BY DEF ZerosOf
<1> QED BY <1>1, <1>2 DEF Means

\* What Min and Max of the community modules are.
LEMMA MinIs ==
    ASSUME NEW S \in SUBSET Nat, NEW m \in S, \A x \in S : m <= x
    PROVE  Min(S) = m
<1> DEFINE P(x) == \A y \in S : x <= y
<1>1. Min(S) = CHOOSE x \in S : P(x)
    BY DEF Min
<1>2. P(m)
    OBVIOUS
<1>3. \A x \in S : P(x) => x <= m
    OBVIOUS
<1> HIDE DEF P
<1>4. PICK v \in S : v = Min(S) /\ P(v)
    BY <1>1, <1>2
<1>5. v \in Nat /\ m \in Nat /\ v <= m /\ m <= v
    BY <1>3, <1>4
<1> QED BY <1>4, <1>5

LEMMA MaxIs ==
    ASSUME NEW S \in SUBSET Nat, NEW m \in S, \A x \in S : x <= m
    PROVE  Max(S) = m
<1> DEFINE P(x) == \A y \in S : x >= y
<1>1. Max(S) = CHOOSE x \in S : P(x)
    BY DEF Max
<1>2. P(m)
    OBVIOUS
<1>3. \A x \in S : P(x) => m <= x
    OBVIOUS
<1> HIDE DEF P
<1>4. PICK v \in S : v = Max(S) /\ P(v)
    BY <1>1, <1>2
<1>5. v \in Nat /\ m \in Nat /\ m <= v /\ v <= m
    BY <1>3, <1>4
<1> QED BY <1>4, <1>5

\* Means is what PairsMean says, without Min, Max and MapThenSumSet.
LEMMA MeansPairs ==
    ASSUME NEW among, IsFiniteSet(among), NEW pairs,
           NEW width \in Nat, NEW words \in Nat,
           NEW s, Means(s, pairs, among, width, words)
    PROVE  PairsMean(s, pairs, among, width, words)
<1> DEFINE weights == {pairs[i].weight : i \in among}
           actives == {pairs[i].active : i \in among}
           g == WeightsOf(pairs, among)
<1>0. \A i \in among : pairs[i].weight \in Nat /\ pairs[i].active \in Nat
    BY DEF Means
<1>1. s.minimum_weight = Min(weights \cup {width})
    <2> DEFINE S == weights \cup {width}
    <2>1. S \in SUBSET Nat /\ s.minimum_weight \in S
          /\ \A x \in S : s.minimum_weight <= x
        BY <1>0 DEF Means
    <2> HIDE DEF S
    <2> QED BY <2>1, MinIs DEF S
<1>2. s.maximum_weight = Max(weights \cup {0})
    <2> DEFINE S == weights \cup {0}
    <2>1. S \in SUBSET Nat /\ s.maximum_weight \in S
          /\ \A x \in S : x <= s.maximum_weight
        BY <1>0 DEF Means
    <2> HIDE DEF S
    <2> QED BY <2>1, MaxIs DEF S
<1>3. s.minimum_active_words = Min(actives \cup {words})
    <2> DEFINE S == actives \cup {words}
    <2>1. S \in SUBSET Nat /\ s.minimum_active_words \in S
          /\ \A x \in S : s.minimum_active_words <= x
        BY <1>0 DEF Means
    <2> HIDE DEF S
    <2> QED BY <2>1, MinIs DEF S
<1>4. MapThenSumSet(LAMBDA i : pairs[i].weight, among) = Total(g, among)
    <2> DEFINE P(it) == it = [t \in SUBSET among |->
                   IF t = {} THEN 0
                   ELSE pairs[CHOOSE x \in t : TRUE].weight
                            + it[t \ {CHOOSE x \in t : TRUE}]]
    <2>1. MapThenSumSet(LAMBDA i : pairs[i].weight, among)
              = (CHOOSE it : P(it))[among]
        BY DEF MapThenSumSet, MapThenFoldSet
    <2>2. \A it : P(it) <=> Sums(it, g, among)
        BY DEF Sums, WeightsOf
    <2>3. \A i \in among : g[i] \in Nat
        BY <1>0 DEF WeightsOf
    <2> HIDE DEF P, g
    <2>4. \E it : Sums(it, g, among)
        BY <2>3, SumExists
    <2>5. P(CHOOSE it : P(it))
        BY <2>2, <2>4
    <2>6. (CHOOSE it : P(it))[among] = Total(g, among)
        BY <2>2, <2>3, <2>5, TotalIs
    <2> QED BY <2>1, <2>6
<1> QED BY <1>1, <1>2, <1>3, <1>4 DEF PairsMean, Means, ZerosOf

-----------------------------------------------------------------------------
(* What the statistics of a line tell of the comparisons made for it so far *)

Rows(t, n) == t = [i \in 1..n |-> t[i]]

OfPattern(t, n, p) == {i \in 1..n : t[i].pattern = p}
TrailPairs(t, n, r) == [i \in 1..n |-> t[i].pairs[r]]

\* The pairs of a trail.
TrailKinds == [1..MixRounds -> [weight : 0..511, active : Nat]]

\* The recorded place is that of the first of the lightest trails.
BestTells(n, t, s, r) ==
    \E i \in 1..n :
        /\ t[i].base = s.best[1] /\ t[i].pattern = s.best[2]
        /\ t[i].difference = BestDifference(s.best)
        /\ s.minimum_weight = t[i].pairs[r].weight
        /\ \A j \in 1..n :
               \/ t[i].pairs[r].weight < t[j].pairs[r].weight
               \/ t[i].pairs[r].weight = t[j].pairs[r].weight /\ i <= j

RoundTells(n, t, s, r) ==
    /\ Means(s.all[r], TrailPairs(t, n, r), 1..n, 512, 8)
    /\ \A p \in Patterns :
           Means(s.of[p][r], TrailPairs(t, n, r), OfPattern(t, n, p), 512, 8)
    /\ n > 0 => BestTells(n, t, s.all[r], r)

TrailsTell(n, t, s) ==
    /\ \A i \in 1..n : t[i].pairs \in TrailKinds
    /\ \A r \in 1..MixRounds : RoundTells(n, t, s, r)
    /\ s.of = [p \in Patterns |-> s.of[p]]

\* How often a projection of a case had a value, and a difference was zero.
Met(t, n, c, v) ==
    {i \in 1..n : (i - 1) \div Samples = c /\ t[i].value = v}
Vanished(t, n) == {i \in 1..n : t[i].zero}

ProbabilityTells(n, t, s) ==
    /\ \A i \in 1..n : t[i].value \in 0..(Samples - 1) /\ t[i].zero \in BOOLEAN
    /\ s.zero_differences = Cardinality(Vanished(t, n))
    /\ n % Samples # 0 =>
           /\ s.buckets \in [0..(Samples - 1) -> Nat]
           /\ \A v \in 0..(Samples - 1) :
                  s.buckets[v] = Cardinality(Met(t, n, n \div Samples, v))
    /\ s.maximum_count \in Nat
    /\ \A c \in 0..((n \div Samples) - 1), v \in 0..(Samples - 1) :
           Cardinality(Met(t, n, c, v)) <= s.maximum_count
    /\ \/ s.maximum_count = 0
       \/ \E c \in 0..((n \div Samples) - 1), v \in 0..(Samples - 1) :
              Cardinality(Met(t, n, c, v)) = s.maximum_count

Middles(t, n) == [i \in 1..n |-> t[i].middle]
Ends(t, n) == [i \in 1..n |-> t[i].end]

ReboundTells(n, t, s) ==
    /\ Means(s.middle, Middles(t, n), 1..n, 1024, 16)
    /\ Means(s.end, Ends(t, n), 1..n, 1024, 16)

Tells(name, n, t, s) ==
    /\ n \in Nat /\ n <= Comparisons(name) /\ Rows(t, n)
    /\ name \in PairChecks => Means(s, t, 1..n, 512, 8)
    /\ name = "trail_search" => TrailsTell(n, t, s)
    /\ name = "differential_probability" => ProbabilityTells(n, t, s)
    /\ name = "rebound" => ReboundTells(n, t, s)
    /\ name = "mitm" /\ n = 1 =>
           JoinMeans(t[1].forward, t[1].backward, MitmTarget, s)
    /\ name = "output_only" /\ n = 1 =>
           SearchMeans(t[1].outputs, t[1].unplanted, OutputTarget, s)

\* The inductive invariant of the statistics.
Told == check \in DOMAIN Checks => Tells(Name, step, taken, stats)

\* One comparison more.
Grown(u, t, n, e) ==
    /\ Rows(u, n + 1)
    /\ \A i \in 1..n : u[i] = t[i]
    /\ u[n + 1] = e

\* What Append does to a row, as a function.
LEMMA RowsGrow ==
    ASSUME NEW n \in Nat, NEW t, Rows(t, n), NEW e
    PROVE  Grown(Append(t, e), t, n, e)
<1> DEFINE S == {t[i] : i \in 1..n} \cup {e}
           u == Append(t, e)
<1>1. t \in Seq(S) /\ Len(t) = n
    <2>1. t \in [1..n -> S]
        BY DEF Rows
    <2>2. t \in Seq(S)
        BY <2>1
    <2> QED BY <2>1, <2>2, LenProperties
<1>2. e \in S
    OBVIOUS
<1> HIDE DEF S
<1>3. /\ u \in Seq(S) /\ Len(u) = n + 1
      /\ \A i \in 1..n : u[i] = t[i]
      /\ u[n + 1] = e
    BY <1>1, <1>2, AppendProperties
<1> HIDE DEF u
<1>4. Rows(u, n + 1)
    <2>1. u \in [1..(n + 1) -> S]
        BY <1>3, LenProperties
    <2> QED BY <2>1 DEF Rows
<1> QED BY <1>3, <1>4 DEF u, Grown

\* What the assumptions say of the sizes.
LEMMA PatternsFinite ==
    /\ IsFiniteSet(Patterns) /\ Cardinality(Patterns) \in Nat \ {0}
    /\ IsFiniteSet(Bits) /\ Cardinality(Bits) \in Nat \ {0}
    /\ Patterns \subseteq Nat /\ Cardinality(Bits) = BlockWords * WordBits
    /\ Patterns = 0..(Cardinality(Patterns) - 1)
<1> DEFINE top == Len(Rotations) + 1
           last == BlockWords * WordBits - 1
<1>1. top \in Nat \ {0}
    BY TrailAssumption, LenProperties
<1>2. last \in Nat /\ last + 1 = BlockWords * WordBits
    <2>1. /\ BlockWords \in Nat /\ WordBits \in Nat /\ 1 <= WordBits
          /\ BlockWords >= 2
        BY TrailAssumption
    <2> DEFINE product == BlockWords * WordBits
    <2>2. BlockWords * 1 <= product
        BY <2>1, TimesMonotone
    <2>3. product \in Nat
        BY <2>1
    <2> HIDE DEF product
    <2>4. product >= 2
        BY <2>1, <2>2, <2>3
    <2>5. product - 1 \in Nat /\ (product - 1) + 1 = product
        BY <2>3, <2>4
    <2> QED BY <2>5 DEF product
<1>3. Patterns = 0..top /\ Bits = 0..last
    BY DEF Patterns, Bits
<1> HIDE DEF top, last
<1>4. /\ IsFiniteSet(0..top) /\ Cardinality(0..top) = top + 1
      /\ IsFiniteSet(0..last) /\ Cardinality(0..last) = last + 1
    BY <1>1, <1>2, FS_Interval
<1> QED BY <1>1, <1>2, <1>3, <1>4

LEMMA SizesAre ==
    /\ MixRounds = 16 /\ ReducedRounds \in 2..15
    /\ Samples \in Nat \ {0} /\ Bases \in Nat \ {0}
    /\ RoundtripSamples \in Nat \ {0} /\ ReboundCandidates \in Nat \ {0}
    /\ MitmCandidates \in Nat \ {0} /\ MitmTarget \in 0..(MitmCandidates - 1)
    /\ OutputCandidates \in Nat \ {0} /\ OutputTarget \in 0..(OutputCandidates - 1)
    /\ FixedPointSamples \in Nat \ {0} /\ NearSamples \in Nat \ {0}
BY CryptanalysisAssumption

LEMMA CasesAre ==
    /\ Cases("differential_bias") = 4 /\ Cases("reduced_round") = Bases
    /\ Cases("rotational_pair") = 6 /\ Cases("additive_differential") = 4
    /\ Cases("differential_probability") = 8 /\ Cases("related_context") = 8
    /\ Cases("linear_correlation") = 1
<1>1. /\ Len(DifferentialBits) = 4 /\ Len(RotationAmounts) = 6
      /\ Len(Deltas) = 4 /\ Len(CharacteristicBits) = 8
    BY DEF DifferentialBits, RotationAmounts, Deltas, CharacteristicBits
<1>2. Len(RelatedContexts) = 8
    BY DEF RelatedContexts
<1> QED BY <1>1, <1>2 DEF Cases

CheckNames ==
    {"differential_bias", "linear_correlation", "reduced_round",
     "trail_search", "rotational_pair", "additive_differential",
     "differential_probability", "related_context", "roundtrip", "rebound",
     "mitm", "output_only", "fixed_point", "near_collision"}

\* The names of the checks and how many comparisons a line of each has.
LEMMA NamesAre ==
    /\ ToSet(Checks) = CheckNames
    /\ \A c \in 1..14 : Checks[c] \in CheckNames
BY DEF ToSet, Checks, CheckNames

LEMMA ComparisonsAre ==
    /\ \A name \in CheckNames : Comparisons(name) \in Nat
    /\ \A name \in PairChecks \cup {"differential_probability", "linear_correlation"} :
           Comparisons(name) = Cases(name) * Samples
    /\ Comparisons("trail_search") \in Nat \ {0}
    /\ Comparisons("trail_search")
           = Bases * (Cardinality(Patterns) * Cardinality(Bits))
    /\ Comparisons("mitm") = 1 /\ Comparisons("output_only") = 1
    /\ Comparisons("near_collision") = 1
    /\ Comparisons("rebound") = ReboundCandidates - 1
    /\ Comparisons("roundtrip") = 6 * RoundtripSamples
    /\ Comparisons("fixed_point") = 5 * FixedPointSamples
<1>1. ASSUME NEW a \in Nat \ {0}, NEW b \in Nat \ {0} PROVE a * b \in Nat \ {0}
    BY <1>1
<1>2. /\ Comparisons("trail_search") \in Nat \ {0}
      /\ Comparisons("trail_search")
             = Bases * (Cardinality(Patterns) * Cardinality(Bits))
    <2> DEFINE p == Cardinality(Patterns)
               b == Cardinality(Bits)
               total == p * b
    <2>1. p \in Nat \ {0} /\ b \in Nat \ {0} /\ Bases \in Nat \ {0}
        BY PatternsFinite, SizesAre
    <2>2. Comparisons("trail_search") = Bases * p * b
        BY DEF Comparisons
    <2> HIDE DEF p, b
    <2>3. Bases * p * b = Bases * (p * b)
        BY <2>1
    <2>4. total \in Nat \ {0}
        BY <1>1, <2>1
    <2> HIDE DEF total
    <2>5. Bases * total \in Nat \ {0}
        BY <1>1, <2>1, <2>4
    <2> QED BY <2>2, <2>3, <2>5 DEF total, p, b
<1>3. ASSUME NEW name \in PairChecks \cup {"differential_probability", "linear_correlation"}
      PROVE  Comparisons(name) = Cases(name) * Samples
    BY DEF Comparisons, PairChecks
<1>4. /\ Comparisons("mitm") = 1 /\ Comparisons("output_only") = 1
      /\ Comparisons("near_collision") = 1
      /\ Comparisons("rebound") = ReboundCandidates - 1
      /\ Comparisons("roundtrip") = 6 * RoundtripSamples
      /\ Comparisons("fixed_point") = (Len(FixedRounds) + 2) * FixedPointSamples
    BY DEF Comparisons
<1>5. Len(FixedRounds) = 3
    BY DEF FixedRounds
<1>6. ASSUME NEW name \in PairChecks \cup {"differential_probability", "linear_correlation"}
      PROVE  Comparisons(name) \in Nat
    <2>1. Cases(name) \in Nat
        BY CasesAre, SizesAre DEF PairChecks
    <2> QED BY <1>3, <2>1, SizesAre
<1>7. \A name \in CheckNames : Comparisons(name) \in Nat
    <2>1. /\ Comparisons("rebound") \in Nat /\ Comparisons("roundtrip") \in Nat
          /\ Comparisons("fixed_point") \in Nat
        BY <1>4, <1>5, SizesAre
    <2> QED BY <1>2, <1>4, <1>6, <2>1 DEF CheckNames, PairChecks
<1> QED BY <1>2, <1>3, <1>4, <1>5, <1>7

\* A line starts with nothing counted.
LEMMA FreshTells ==
    ASSUME NEW name \in CheckNames
    PROVE  Tells(name, 0, << >>, FreshStats(name))
<1> DEFINE none == << >>
<1>1. 0 \in Nat /\ 0 <= Comparisons(name)
    BY ComparisonsAre
<1>2. Rows(none, 0) /\ 1..0 = {}
    BY DEF Rows
<1>3. \A width, words \in Nat : \A pairs : Means(EmptyStats(width, words), pairs, 1..0, width, words)
    BY <1>2, EmptyMeans
<1>4. ASSUME name \in PairChecks
      PROVE  Means(FreshStats(name), none, 1..0, 512, 8)
    <2>1. FreshStats(name) = EmptyStats(512, 8)
        BY <1>4 DEF FreshStats, PairChecks
    <2> QED BY <1>3, <2>1
<1>5. ASSUME name = "trail_search"
      PROVE  TrailsTell(0, none, FreshStats(name))
    <2> DEFINE s == FreshStats(name)
    <2>0. FreshStats("trail_search") =
              [all |-> [r \in 1..MixRounds |-> EmptyStats(512, 8)],
               of  |-> [p \in Patterns |->
                           [r \in 1..MixRounds |-> EmptyStats(512, 8)]]]
        BY DEF FreshStats
    <2>1. /\ s.all = [r \in 1..MixRounds |-> EmptyStats(512, 8)]
          /\ s.of = [p \in Patterns |-> [r \in 1..MixRounds |-> EmptyStats(512, 8)]]
        <3>1. s = FreshStats("trail_search")
            BY <1>5
        <3> DEFINE all == [r \in 1..MixRounds |-> EmptyStats(512, 8)]
                   of == [p \in Patterns |-> all]
        <3>2. s = [all |-> all, of |-> of]
            BY <2>0, <3>1, Zenon
        <3> HIDE DEF s, all, of
        <3>3. s.all = all /\ s.of = of
            BY <3>2
        <3> QED BY <3>3 DEF all, of
    <2> HIDE DEF s, none
    <2>2. ASSUME NEW r \in 1..MixRounds PROVE RoundTells(0, none, s, r)
        <3>1. Means(s.all[r], TrailPairs(none, 0, r), 1..0, 512, 8)
            BY <1>3, <2>1
        <3>2. ASSUME NEW p \in Patterns
              PROVE  Means(s.of[p][r], TrailPairs(none, 0, r), OfPattern(none, 0, p), 512, 8)
            <4>1. OfPattern(none, 0, p) = 1..0
                BY <1>2 DEF OfPattern
            <4>2. s.of[p][r] = EmptyStats(512, 8)
                BY <2>1
            <4> QED BY <1>3, <4>1, <4>2
        <3> QED BY <3>1, <3>2 DEF RoundTells
    <2>3. s.of = [p \in Patterns |-> s.of[p]]
        BY <2>1
    <2> QED BY <1>2, <2>2, <2>3 DEF TrailsTell, s
<1>6. ASSUME name = "differential_probability"
      PROVE  ProbabilityTells(0, none, FreshStats(name))
    <2>1. FreshStats(name) = [maximum_count |-> 0, zero_differences |-> 0,
                              buckets |-> NoBuckets]
        BY <1>6 DEF FreshStats
    <2>2. /\ FreshStats(name).maximum_count = 0
          /\ FreshStats(name).zero_differences = 0
        BY <2>1
    <2>3. Vanished(none, 0) = {}
        BY <1>2 DEF Vanished
    <2>4. 0 % Samples = 0 /\ 0 \div Samples = 0 /\ 0..(0 - 1) = {}
        BY SizesAre
    <2> QED BY <1>2, <2>2, <2>3, <2>4, FS_EmptySet DEF ProbabilityTells
<1>7. ASSUME name = "rebound"
      PROVE  ReboundTells(0, none, FreshStats(name))
    <2>1. /\ FreshStats(name).middle = EmptyStats(1024, 16)
          /\ FreshStats(name).end = EmptyStats(1024, 16)
        BY <1>7 DEF FreshStats
    <2> QED BY <1>3, <2>1 DEF ReboundTells
<1> HIDE DEF none
<1>8. Tells(name, 0, none, FreshStats(name))
    BY <1>1, <1>2, <1>4, <1>5, <1>6, <1>7 DEF Tells
<1> QED BY <1>8 DEF none

\* What a comparison has to keep.
LEMMA ComparedTells ==
    ASSUME Told, NEW names, Comparing(names),
           NEW seen, NEW counted, NEW unusual, Compare(seen, counted, unusual),
           Name \in CheckNames,
           /\ Name \in PairChecks =>
                  Means(counted, Append(taken, seen), 1..(step + 1), 512, 8)
           /\ Name = "trail_search" =>
                  TrailsTell(step + 1, Append(taken, seen), counted)
           /\ Name = "differential_probability" =>
                  ProbabilityTells(step + 1, Append(taken, seen), counted)
           /\ Name = "rebound" =>
                  ReboundTells(step + 1, Append(taken, seen), counted)
           /\ Name = "mitm" =>
                  JoinMeans(seen.forward, seen.backward, MitmTarget, counted)
           /\ Name = "output_only" =>
                  SearchMeans(seen.outputs, seen.unplanted, OutputTarget, counted)
    PROVE  Told'
<1>1. /\ step \in Nat /\ step < Comparisons(Name) /\ Rows(taken, step)
    BY DEF Told, Tells, Comparing, In
<1>2. Comparisons(Name) \in Nat
    BY ComparisonsAre
<1>3. step + 1 \in Nat /\ step + 1 <= Comparisons(Name)
    BY <1>1, <1>2
<1>4. /\ Rows(Append(taken, seen), step + 1)
      /\ Append(taken, seen)[step + 1] = seen
    <2>1. Grown(Append(taken, seen), taken, step, seen)
        BY <1>1, RowsGrow
    <2> QED BY <2>1, Zenon DEF Grown
<1>5. step + 1 = 1 => Append(taken, seen)[1] = seen
    BY <1>4
<1>6. Tells(Name, step + 1, Append(taken, seen), counted)
    BY <1>3, <1>4, <1>5 DEF Tells
<1>7. /\ step' = step + 1 /\ taken' = Append(taken, seen) /\ stats' = counted
      /\ check' = check
    BY DEF Compare
<1>8. Name' = Name
    BY <1>7 DEF Name
<1> QED BY <1>6, <1>7, <1>8 DEF Told

\* The numbers up to n and the next one.
LEMMA OneMore ==
    ASSUME NEW n \in Nat
    PROVE  /\ IsFiniteSet(1..n) /\ n + 1 \notin 1..n
           /\ (1..n) \cup {n + 1} = 1..(n + 1)
<1>1. IsFiniteSet(1..n)
    BY FS_Interval
<1>2. n + 1 \notin 1..n
    OBVIOUS
<1>3. (1..n) \cup {n + 1} = 1..(n + 1)
    <2>1. \A x : x \in (1..n) \cup {n + 1} <=> x \in 1..(n + 1)
        OBVIOUS
    <2> QED BY <2>1, Zenon
<1> QED BY <1>1, <1>2, <1>3

\* A pair of outputs is counted as what it is.
LEMMA PairTells ==
    ASSUME NEW n \in Nat, NEW t, Rows(t, n), NEW width \in Nat, NEW words \in Nat,
           NEW s, Means(s, t, 1..n, width, words),
           NEW pair, pair.weight \in Nat, pair.active \in Nat, NEW place
    PROVE  Means(Record(s, pair, place), Append(t, pair), 1..(n + 1), width, words)
<1> DEFINE among == 1..n
           k == n + 1
           new == Append(t, pair)
<1>1. IsFiniteSet(among) /\ k \notin among /\ among \cup {k} = 1..(n + 1)
    BY OneMore
<1>2. (\A i \in among : new[i] = t[i]) /\ new[k] = pair
    <2>1. Grown(new, t, n, pair)
        BY RowsGrow
    <2> QED BY <2>1, Zenon DEF Grown
<1> HIDE DEF among, k, new
<1>4. Means(s, t, among, width, words)
    BY DEF among
<1>5. Means(Record(s, new[k], place), new, among \cup {k}, width, words)
    BY <1>1, <1>2, <1>4, RecordMeans
<1> QED BY <1>1, <1>2, <1>5 DEF new

-----------------------------------------------------------------------------
(* The trail search *)

\* What RecordTrail counts.
TrailCounted(counted, s, pairs, place) ==
    /\ counted.all = [r \in 1..MixRounds |-> Record(s.all[r], pairs[r], place)]
    /\ counted.of = [s.of EXCEPT ![place[2]] =
                        [r \in 1..MixRounds |-> Record(@[r], pairs[r], place)]]

\* A trail more, recorded in all the statistics and in those of its pattern.
LEMMA TrailTells ==
    ASSUME NEW n \in Nat, NEW t, Rows(t, n), NEW s, TrailsTell(n, t, s),
           NEW seen, NEW place, seen.pairs \in TrailKinds,
           seen.pattern \in Patterns,
           /\ place[1] = seen.base /\ place[2] = seen.pattern
           /\ BestDifference(place) = seen.difference,
           NEW counted, TrailCounted(counted, s, seen.pairs, place)
    PROVE  TrailsTell(n + 1, Append(t, seen), counted)
<1> DEFINE k == n + 1
           u == Append(t, seen)
           among == 1..n
           all == 1..k
<1>1. (\A i \in among : u[i] = t[i]) /\ u[k] = seen
    <2>1. Grown(u, t, n, seen)
        BY RowsGrow
    <2> QED BY <2>1, Zenon DEF Grown
<1>2. IsFiniteSet(among) /\ k \notin among /\ among \cup {k} = all
    BY OneMore
<1>3. \A i \in among : i <= k
    OBVIOUS
<1>4. /\ \A i \in among : t[i].pairs \in TrailKinds
      /\ \A r \in 1..MixRounds : RoundTells(n, t, s, r)
      /\ s.of = [p \in Patterns |-> s.of[p]]
    BY DEF TrailsTell
<1>5. \A i \in all : u[i].pairs \in TrailKinds
    BY <1>1, <1>2, <1>4
<1>6. \A pairs \in TrailKinds : \A r \in 1..MixRounds :
          pairs[r].weight \in 0..511 /\ pairs[r].active \in Nat
    <2> DEFINE kind == [weight : 0..511, active : Nat]
    <2>1. \A x \in kind : x.weight \in 0..511 /\ x.active \in Nat
        OBVIOUS
    <2>2. TrailKinds = [1..MixRounds -> kind]
        BY DEF TrailKinds
    <2> HIDE DEF kind
    <2>3. \A pairs \in TrailKinds : \A r \in 1..MixRounds : pairs[r] \in kind
        BY <2>2
    <2> QED BY <2>1, <2>3, Zenon
<1>9. /\ counted.all = [r \in 1..MixRounds |->
                             Record(s.all[r], seen.pairs[r], place)]
      /\ counted.of = [s.of EXCEPT ![place[2]] =
                          [r \in 1..MixRounds |->
                              Record(@[r], seen.pairs[r], place)]]
    BY DEF TrailCounted
<1>7. counted.of = [p \in Patterns |-> counted.of[p]]
    BY <1>4, <1>9
<1>8. ASSUME NEW r \in 1..MixRounds
      PROVE  RoundTells(k, u, counted, r)
    <2> DEFINE old == TrailPairs(t, n, r)
               new == TrailPairs(u, k, r)
               pair == seen.pairs[r]
               before == s.all[r]
               after == counted.all[r]
    <2>1. /\ Means(before, old, among, 512, 8)
          /\ \A p \in Patterns : Means(s.of[p][r], old, OfPattern(t, n, p), 512, 8)
          /\ n > 0 => BestTells(n, t, before, r)
        BY <1>4 DEF RoundTells
    <2>2. (\A i \in among : new[i] = old[i]) /\ new[k] = pair
        <3>1. \A i \in among : old[i] = t[i].pairs[r]
            BY DEF TrailPairs
        <3>2. \A i \in all : new[i] = u[i].pairs[r]
            BY DEF TrailPairs
        <3>3. k \in all /\ \A i \in among : i \in all
            BY <1>2
        <3> HIDE DEF old, new, u, k, among, all
        <3> QED BY <1>1, <3>1, <3>2, <3>3
    <2>3. pair.weight \in 0..511 /\ pair.weight \in Nat /\ pair.active \in Nat
        <3>1. pair \in [weight : 0..511, active : Nat]
            <4> DEFINE kind == [weight : 0..511, active : Nat]
            <4>1. seen.pairs \in [1..MixRounds -> kind]
                BY DEF TrailKinds
            <4> HIDE DEF kind
            <4>2. pair \in kind
                BY <4>1
            <4> QED BY <4>2 DEF kind
        <3>2. ASSUME NEW x \in [weight : 0..511, active : Nat]
              PROVE  x.weight \in 0..511 /\ x.weight \in Nat /\ x.active \in Nat
            <4>1. x.weight \in 0..511 /\ x.active \in Nat
                OBVIOUS
            <4>2. \A w \in 0..511 : w \in Nat
                OBVIOUS
            <4> QED BY <4>1, <4>2, Zenon
        <3> HIDE DEF pair
        <3> QED BY <3>1, <3>2, Zenon
    <2>4. after = Record(before, pair, place)
        BY <1>9
    <2> HIDE DEF old, new, pair, before, after, among, all, k, u
    <2> DEFINE width == 512
               words == 8
    <2>9. /\ new[k].weight \in Nat /\ new[k].active \in Nat
          /\ width \in Nat /\ words \in Nat
        BY <2>2, <2>3
    <2>5. Means(after, new, all, 512, 8)
        <3>2. Means(before, old, among, width, words)
            BY <2>1
        <3> HIDE DEF width, words
        <3>3. Means(Record(before, new[k], place), new, among \cup {k}, width, words)
            BY <1>2, <2>2, <2>9, <3>2, RecordMeans
        <3>1. Means(Record(before, new[k], place), new, among \cup {k}, 512, 8)
            BY <3>3 DEF width, words
        <3> QED BY <1>2, <2>2, <2>4, <3>1
    <2>6. ASSUME NEW p \in Patterns
          PROVE  Means(counted.of[p][r], new, OfPattern(u, k, p), 512, 8)
        <3> DEFINE Old == OfPattern(t, n, p)
                   New == OfPattern(u, k, p)
        <3>1. /\ IsFiniteSet(Old) /\ k \notin Old
              /\ \A i \in Old : new[i] = old[i]
            <4>1. Old \in SUBSET among
                BY DEF OfPattern, among
            <4> HIDE DEF Old
            <4> QED BY <1>2, <2>2, <4>1, FS_Subset
        <3>2. New = IF p = seen.pattern THEN Old \cup {k} ELSE Old
            <4>1. \A i : i \in New <=> i \in all /\ u[i].pattern = p
                BY DEF OfPattern, all
            <4>2. \A i : i \in Old <=> i \in among /\ t[i].pattern = p
                BY DEF OfPattern, among
            <4>3. \A i : i \in all <=> i \in among \/ i = k
                BY <1>2
            <4>4. \A i : i \in New <=> i \in Old \/ (i = k /\ seen.pattern = p)
                BY <1>1, <4>1, <4>2, <4>3
            <4> HIDE DEF New, Old
            <4> QED BY <4>4
        <3> HIDE DEF Old, New
        <3>3. Means(s.of[p][r], old, Old, 512, 8)
            BY <2>1 DEF Old
        <3>4. CASE p = seen.pattern
            <4>1. counted.of[p][r] = Record(s.of[p][r], new[k], place)
                BY <1>4, <1>9, <2>2, <3>4 DEF pair
            <4>2. Means(Record(s.of[p][r], new[k], place), new, Old \cup {k}, 512, 8)
                <5> DEFINE mean == s.of[p][r]
                <5>1. Means(mean, old, Old, width, words)
                    BY <3>3
                <5> HIDE DEF width, words, mean
                <5>2. Means(Record(mean, new[k], place), new, Old \cup {k}, width, words)
                    BY <2>9, <3>1, <5>1, RecordMeans
                <5> QED BY <5>2 DEF width, words, mean
            <4> QED BY <3>2, <3>4, <4>1, <4>2 DEF New
        <3>5. CASE p # seen.pattern
            <4>1. counted.of[p] = s.of[p]
                BY <1>4, <1>9, <3>5
            <4>2. Means(s.of[p][r], new, Old, 512, 8)
                BY <3>1, <3>3, SameMeans
            <4> QED BY <3>2, <3>5, <4>1, <4>2 DEF New
        <3> QED BY <3>4, <3>5
    <2>7. BestTells(k, u, after, r)
        <3>0. /\ \A j \in all : u[j].pairs[r] = new[j]
              /\ \A j \in among : t[j].pairs[r] = old[j]
            BY DEF new, old, TrailPairs, all, among
        <3>1. /\ after.minimum_weight = IF pair.weight < before.minimum_weight
                                        THEN pair.weight ELSE before.minimum_weight
              /\ after.best = IF pair.weight < before.minimum_weight
                              THEN place ELSE before.best
            BY <2>4 DEF Record
        <3>2. /\ before.minimum_weight \in Nat
              /\ \A i \in among : /\ old[i].weight \in Nat
                                  /\ before.minimum_weight <= old[i].weight
              /\ \/ before.minimum_weight = 512
                 \/ \E i \in among : old[i].weight = before.minimum_weight
            BY <2>1 DEF Means
        <3>3. /\ k \in all /\ \A i \in among : i \in all
              /\ \A j \in all : j = k \/ j \in among
            BY <1>2
        <3>4. CASE pair.weight < before.minimum_weight
            <4>1. /\ u[k].base = after.best[1] /\ u[k].pattern = after.best[2]
                  /\ u[k].difference = BestDifference(after.best)
                BY <1>1, <3>1, <3>4
            <4>2. after.minimum_weight = u[k].pairs[r].weight
                BY <2>2, <3>0, <3>1, <3>3, <3>4
            <4>3. ASSUME NEW j \in all
                  PROVE  \/ u[k].pairs[r].weight < u[j].pairs[r].weight
                         \/ u[k].pairs[r].weight = u[j].pairs[r].weight /\ k <= j
                <5>1. CASE j = k
                    BY <5>1 DEF k
                <5>2. CASE j \in among
                    <6>1. new[k].weight < new[j].weight
                        BY <2>2, <2>3, <3>2, <3>4, <5>2
                    <6> QED BY <3>0, <3>3, <6>1
                <5> QED BY <3>3, <5>1, <5>2
            <4> QED BY <3>3, <4>1, <4>2, <4>3 DEF BestTells, all
        <3>5. CASE ~(pair.weight < before.minimum_weight)
            <4>1. n > 0
                <5> SUFFICES ASSUME n = 0 PROVE FALSE
                    OBVIOUS
                <5>1. among = {}
                    BY DEF among
                <5>2. before.minimum_weight = 512
                    BY <3>2, <5>1
                <5>3. \A w \in 0..511 : w < 512
                    OBVIOUS
                <5>4. pair.weight < 512
                    BY <2>3, <5>3, Zenon
                <5> QED BY <3>5, <5>2, <5>4
            <4>2. PICK i \in 1..n :
                      /\ t[i].base = before.best[1] /\ t[i].pattern = before.best[2]
                      /\ t[i].difference = BestDifference(before.best)
                      /\ before.minimum_weight = t[i].pairs[r].weight
                      /\ \A j \in 1..n :
                             \/ t[i].pairs[r].weight < t[j].pairs[r].weight
                             \/ t[i].pairs[r].weight = t[j].pairs[r].weight /\ i <= j
                BY <2>1, <4>1 DEF BestTells
            <4>3. i \in among /\ i \in all /\ i <= k /\ i \in Nat
                BY <3>3 DEF among, k
            <4>4. /\ u[i].base = after.best[1] /\ u[i].pattern = after.best[2]
                  /\ u[i].difference = BestDifference(after.best)
                BY <1>1, <3>1, <3>5, <4>2, <4>3
            <4>5. after.minimum_weight = u[i].pairs[r].weight
                BY <2>2, <3>0, <3>1, <3>3, <3>5, <4>2, <4>3
            <4>6. ASSUME NEW j \in all
                  PROVE  \/ u[i].pairs[r].weight < u[j].pairs[r].weight
                         \/ u[i].pairs[r].weight = u[j].pairs[r].weight /\ i <= j
                <5>0. u[i].pairs[r] = t[i].pairs[r] /\ u[i].pairs[r].weight \in Nat
                    BY <2>2, <3>0, <3>2, <4>3
                <5>1. CASE j = k
                    <6>1. u[j].pairs[r] = pair
                        BY <2>2, <3>0, <3>3, <5>1
                    <6>2. before.minimum_weight <= pair.weight
                        BY <2>3, <3>2, <3>5
                    <6>3. u[i].pairs[r].weight <= u[j].pairs[r].weight
                        BY <4>2, <5>0, <6>1, <6>2
                    <6>4. u[j].pairs[r].weight \in Nat
                        BY <2>3, <6>1
                    <6>5. \/ u[i].pairs[r].weight < u[j].pairs[r].weight
                          \/ u[i].pairs[r].weight = u[j].pairs[r].weight
                        BY <5>0, <6>3, <6>4
                    <6> QED BY <4>3, <5>1, <6>5
                <5>2. CASE j \in among
                    <6>1. u[j].pairs[r] = t[j].pairs[r]
                        BY <2>2, <3>0, <3>3, <5>2
                    <6> QED BY <4>2, <5>0, <5>2, <6>1 DEF among
                <5> QED BY <3>3, <5>1, <5>2
            <4> QED BY <4>3, <4>4, <4>5, <4>6 DEF BestTells, all
        <3> QED BY <3>4, <3>5
    <2> QED BY <2>5, <2>6, <2>7 DEF RoundTells, after, new, all
<1> HIDE DEF k, u, all
<1> QED BY <1>5, <1>7, <1>8 DEF TrailsTell, k, u, all

-----------------------------------------------------------------------------
(* The projections *)

\* The greatest number of a row is one of it.
LEMMA MostIs ==
    ASSUME NEW m \in Nat, NEW f \in [0..m -> Nat]
    PROVE  /\ Max(Range(f)) \in Nat
           /\ \A v \in 0..m : f[v] <= Max(Range(f))
           /\ \E v \in 0..m : f[v] = Max(Range(f))
<1> DEFINE L == {e \in Nat \X Nat : e[1] <= e[2]}
           s == [j \in 1..(m + 1) |-> f[j - 1]]
<1>1. \A x, y \in Nat : <<x, y>> \in L <=> x <= y
    OBVIOUS
<1>2. s \in [1..(m + 1) -> Nat]
    OBVIOUS
<1>3. /\ \A j \in 1..(m + 1) : j - 1 \in 0..m /\ s[j] = f[j - 1]
      /\ \A v \in 0..m : v + 1 \in 1..(m + 1) /\ s[v + 1] = f[v]
    OBVIOUS
<1> HIDE DEF L, s
<1>4. Compares(L, Nat)
    BY <1>1 DEF Compares
<1>5. PICK k \in 1..(m + 1) : GreatestAt(k, s, m, L)
    BY <1>2, <1>4, GreatestExists
<1>6. ASSUME NEW v \in 0..m
      PROVE  f[v] <= f[k - 1]
    <2>1. <<s[v + 1], s[k]>> \in L /\ s[v + 1] \in Nat /\ s[k] \in Nat
        BY <1>2, <1>3, <1>5 DEF GreatestAt
    <2>2. s[v + 1] <= s[k]
        BY <1>1, <2>1
    <2> QED BY <1>3, <2>2
<1>7. k - 1 \in 0..m
    BY <1>3
<1>8. /\ Range(f) \in SUBSET Nat /\ f[k - 1] \in Range(f)
      /\ \A x \in Range(f) : x <= f[k - 1]
    BY <1>6, <1>7 DEF Range
<1>9. Max(Range(f)) = f[k - 1]
    BY <1>8, MaxIs
<1> QED BY <1>6, <1>7, <1>9

\* Where a comparison is among the samples of the cases.
LEMMA CaseOf ==
    ASSUME NEW n \in Nat
    PROVE  /\ n \div Samples \in Nat /\ n % Samples \in 0..(Samples - 1)
           /\ n % Samples = Samples - 1 =>
                  (n + 1) \div Samples = (n \div Samples) + 1 /\ (n + 1) % Samples = 0
           /\ n % Samples # Samples - 1 =>
                  /\ (n + 1) \div Samples = n \div Samples
                  /\ (n + 1) % Samples # 0
           /\ n % Samples = 0 =>
                  \A i \in 1..n : (i - 1) \div Samples # n \div Samples
           /\ \A i \in 1..n : (i - 1) \div Samples \in 0..(n \div Samples)
<1> DEFINE b == Samples
           q == n \div b
           r == n % b
<1>1. b \in Nat \ {0}
    BY SizesAre
<1>2. q \in Nat /\ r \in 0..(b - 1) /\ n = b * q + r
    BY <1>1, DivMod
<1>3. ASSUME r = b - 1
      PROVE  (n + 1) \div b = q + 1 /\ (n + 1) % b = 0
    <2>1. n + 1 = (q + 1) * b + 0 /\ 0 \in 0..(b - 1) /\ q + 1 \in Nat
        <3> HIDE DEF q, r, b
        <3>1. (q + 1) * b = b * q + b
            BY <1>1, <1>2
        <3> DEFINE whole == b * q
                   next == (q + 1) * b
        <3>2. whole \in Nat /\ next = whole + b /\ n = whole + r
            BY <1>1, <1>2, <3>1
        <3> HIDE DEF whole, next
        <3>3. n + 1 = next + 0 /\ 0 \in 0..(b - 1) /\ q + 1 \in Nat
            BY <1>1, <1>2, <1>3, <3>2
        <3> QED BY <3>3 DEF next
    <2>2. ((q + 1) * b + 0) \div b = q + 1 /\ ((q + 1) * b + 0) % b = 0
        BY <1>1, <2>1, DivModUnique
    <2> HIDE DEF q, r, b
    <2> QED BY <2>1, <2>2
<1>4. ASSUME r # b - 1
      PROVE  (n + 1) \div b = q /\ (n + 1) % b # 0
    <2> HIDE DEF q, r, b
    <2>1. n + 1 = q * b + (r + 1) /\ r + 1 \in 0..(b - 1)
        <3> DEFINE whole == b * q
        <3>1. whole \in Nat /\ whole = q * b /\ n = whole + r
            BY <1>1, <1>2
        <3> HIDE DEF whole
        <3>2. n + 1 = whole + (r + 1) /\ r + 1 \in 0..(b - 1)
            BY <1>1, <1>2, <1>4, <3>1
        <3> QED BY <3>1, <3>2
    <2>2. (q * b + (r + 1)) \div b = q /\ (q * b + (r + 1)) % b = r + 1
        BY <1>1, <1>2, <2>1, DivModUnique
    <2>3. r + 1 # 0
        BY <1>1, <1>2
    <2> QED BY <2>1, <2>2, <2>3
<1>5. ASSUME NEW i \in 1..n
      PROVE  /\ (i - 1) \div b \in 0..q
             /\ r = 0 => (i - 1) \div b # q
    <2> DEFINE j == i - 1
               c == j \div b
               o == j % b
    <2>1. j \in Nat /\ j < n
        OBVIOUS
    <2>2. c \in Nat /\ o \in 0..(b - 1) /\ j = b * c + o
        BY <1>1, <2>1, DivMod
    <2> HIDE DEF j, c, o, q, r, b
    <2>3. ASSUME q + 1 <= c PROVE FALSE
        <3> DEFINE here == b * q
                   there == b * c
                   next == b * (q + 1)
        <3>1. next <= there /\ next = here + b /\ here \in Nat /\ there \in Nat
            BY <1>1, <1>2, <2>2, <2>3, TimesMonotone
        <3>2. n = here + r /\ j = there + o
            BY <1>2, <2>2
        <3> HIDE DEF here, there, next
        <3> QED BY <1>1, <1>2, <2>1, <2>2, <3>1, <3>2
    <2>4. ASSUME r = 0, c = q PROVE FALSE
        <3> DEFINE here == b * q
        <3>1. here \in Nat /\ n = here + r /\ j = here + o
            BY <1>1, <1>2, <2>2, <2>4
        <3> HIDE DEF here
        <3> QED BY <1>1, <1>2, <2>1, <2>2, <2>4, <3>1
    <2>5. c \in 0..q
        BY <1>2, <2>2, <2>3
    <2> QED BY <2>4, <2>5 DEF c, j
<1> HIDE DEF q, r, b
<1>6. /\ q \in Nat /\ r \in 0..(b - 1)
      /\ r = b - 1 => (n + 1) \div b = q + 1 /\ (n + 1) % b = 0
      /\ r # b - 1 => (n + 1) \div b = q /\ (n + 1) % b # 0
      /\ r = 0 => \A i \in 1..n : (i - 1) \div b # q
      /\ \A i \in 1..n : (i - 1) \div b \in 0..q
    BY <1>2, <1>3, <1>4, <1>5, Zenon
<1> QED BY <1>6, Zenon DEF q, r, b

\* A projection is counted among those of its case.
LEMMA ProjectionTells ==
    ASSUME step \in Nat, Rows(taken, step), ProbabilityTells(step, taken, stats),
           NEW value \in 0..(Samples - 1), NEW zero \in BOOLEAN
    PROVE  ProbabilityTells(step + 1,
                            Append(taken, [value |-> value, zero |-> zero]),
                            CountProjection(value, zero))
<1> DEFINE n == step
           t == taken
           s == stats
           e == [value |-> value, zero |-> zero]
           k == n + 1
           u == Append(t, e)
           q == n \div Samples
           V == 0..(Samples - 1)
           counted == CountProjection(value, zero)
           before == IF Sample = 0 THEN NoBuckets ELSE stats.buckets
           buckets == [before EXCEPT ![value] = @ + 1]
           most == Max(Range(buckets))
<1>0. /\ e.value = value /\ e.zero = zero
      /\ n \in Nat /\ k \in Nat
    OBVIOUS
<1>1. (\A i \in 1..n : u[i] = t[i]) /\ u[k] = e
    <2>1. Grown(u, t, n, e)
        BY RowsGrow
    <2> QED BY <2>1, Zenon DEF Grown
<1>2. IsFiniteSet(1..n) /\ k \notin 1..n /\ (1..n) \cup {k} = 1..k
    BY OneMore
<1>3. /\ counted.maximum_count = IF Sample = Samples - 1 /\ most > s.maximum_count
                                 THEN most ELSE s.maximum_count
      /\ counted.zero_differences = s.zero_differences + (IF zero THEN 1 ELSE 0)
      /\ counted.buckets = buckets
    BY DEF CountProjection
<1>4. /\ \A i \in 1..n : t[i].value \in V /\ t[i].zero \in BOOLEAN
      /\ s.zero_differences = Cardinality(Vanished(t, n))
      /\ n % Samples # 0 =>
             /\ s.buckets \in [V -> Nat]
             /\ \A v \in V : s.buckets[v] = Cardinality(Met(t, n, q, v))
      /\ s.maximum_count \in Nat
      /\ \A c \in 0..(q - 1), v \in V : Cardinality(Met(t, n, c, v)) <= s.maximum_count
      /\ \/ s.maximum_count = 0
         \/ \E c \in 0..(q - 1), v \in V : Cardinality(Met(t, n, c, v)) = s.maximum_count
    BY DEF ProbabilityTells
<1>5. /\ q \in Nat /\ Sample \in V /\ n % Samples = Sample
      /\ Sample = Samples - 1 => k \div Samples = q + 1 /\ k % Samples = 0
      /\ Sample # Samples - 1 => k \div Samples = q /\ k % Samples # 0
      /\ Sample = 0 => \A i \in 1..n : (i - 1) \div Samples # q
      /\ \A i \in 1..n : (i - 1) \div Samples \in 0..q
    BY CaseOf DEF Sample
<1>6. (k - 1) \div Samples = q
    <2>1. k - 1 = n
        OBVIOUS
    <2> QED BY <2>1, Zenon
<1>7. Samples - 1 \in Nat /\ Samples \in Nat
    BY SizesAre
<1> HIDE DEF e, u, q, k, counted, before, buckets, most, V
<1>8. ASSUME NEW c, NEW v
      PROVE  Met(u, k, c, v) = IF c = q /\ v = value THEN Met(t, n, c, v) \cup {k}
                               ELSE Met(t, n, c, v)
    <2> DEFINE Old == Met(t, n, c, v)
               New == Met(u, k, c, v)
    <2>1. \A i : i \in New <=> i \in 1..k /\ (i - 1) \div Samples = c /\ u[i].value = v
        BY DEF Met
    <2>2. \A i : i \in Old <=> i \in 1..n /\ (i - 1) \div Samples = c /\ t[i].value = v
        BY DEF Met
    <2>3. \A i : i \in 1..k <=> i \in 1..n \/ i = k
        BY <1>2
    <2> HIDE DEF Old, New
    <2>4. \A i : i \in New <=> i \in Old \/ (i = k /\ q = c /\ value = v)
        BY <1>0, <1>1, <1>6, <2>1, <2>2, <2>3, Zenon
    <2>5. New = IF c = q /\ v = value THEN Old \cup {k} ELSE Old
        BY <2>4
    <2> QED BY <2>5 DEF Old, New
<1>9. ASSUME NEW c, NEW v
      PROVE  /\ IsFiniteSet(Met(t, n, c, v)) /\ k \notin Met(t, n, c, v)
             /\ Cardinality(Met(t, n, c, v)) \in Nat
             /\ Cardinality(Met(t, n, c, v) \cup {k}) = Cardinality(Met(t, n, c, v)) + 1
    <2>1. Met(t, n, c, v) \in SUBSET (1..n)
        BY DEF Met
    <2>2. IsFiniteSet(Met(t, n, c, v)) /\ k \notin Met(t, n, c, v)
        BY <1>2, <2>1, FS_Subset
    <2> QED BY <2>2, FS_AddElement, FS_CardinalityType
<1>10. counted.zero_differences = Cardinality(Vanished(u, k))
    <2> DEFINE Old == Vanished(t, n)
               New == Vanished(u, k)
    <2>1. \A i : i \in New <=> i \in 1..k /\ u[i].zero
        BY DEF Vanished
    <2>2. \A i : i \in Old <=> i \in 1..n /\ t[i].zero
        BY DEF Vanished
    <2>3. \A i : i \in 1..k <=> i \in 1..n \/ i = k
        BY <1>2
    <2>4. Old \in SUBSET (1..n)
        BY DEF Vanished
    <2> HIDE DEF Old, New
    <2>5. \A i : i \in New <=> i \in Old \/ (i = k /\ zero)
        BY <1>0, <1>1, <2>1, <2>2, <2>3, Zenon
    <2>6. New = IF zero THEN Old \cup {k} ELSE Old
        BY <2>5
    <2>7. IsFiniteSet(Old) /\ k \notin Old
        BY <1>2, <2>4, FS_Subset
    <2>8. Cardinality(Old \cup {k}) = Cardinality(Old) + 1 /\ Cardinality(Old) \in Nat
        BY <2>7, FS_AddElement, FS_CardinalityType
    <2>9. s.zero_differences = Cardinality(Old)
        BY <1>4 DEF Old
    <2>10. counted.zero_differences = Cardinality(New)
        BY <1>3, <2>6, <2>8, <2>9
    <2> QED BY <2>10 DEF New
\* The buckets are those of the case, with this projection.
<1>11. /\ before \in [V -> Nat]
       /\ \A v \in V : before[v] = Cardinality(Met(t, n, q, v))
    <2>1. CASE Sample = 0
        <3>1. before = [v \in V |-> 0]
            BY <2>1 DEF before, NoBuckets, V
        <3>2. ASSUME NEW v \in V PROVE Cardinality(Met(t, n, q, v)) = 0
            <4>1. Met(t, n, q, v) = {}
                BY <1>5, <2>1 DEF Met
            <4> QED BY <4>1, FS_EmptySet
        <3> QED BY <3>1, <3>2
    <2>2. CASE Sample # 0
        <3>1. before = s.buckets
            BY <2>2 DEF before
        <3> QED BY <1>4, <1>5, <2>2, <3>1
    <2> QED BY <2>1, <2>2
<1>12. /\ buckets \in [V -> Nat]
       /\ \A v \in V : buckets[v] = Cardinality(Met(u, k, q, v))
    <2>0. value \in V
        BY DEF V
    <2>1. buckets \in [V -> Nat]
        BY <1>11, <2>0 DEF buckets
    <2>2. ASSUME NEW v \in V PROVE buckets[v] = Cardinality(Met(u, k, q, v))
        <3>1. buckets[v] = IF v = value THEN before[v] + 1 ELSE before[v]
            BY <1>11, <2>0 DEF buckets
        <3>2. before[v] = Cardinality(Met(t, n, q, v))
            BY <1>11
        <3>3. CASE v = value
            <4>1. Met(u, k, q, v) = Met(t, n, q, v) \cup {k}
                BY <1>8, <3>3
            <4> QED BY <1>9, <3>1, <3>2, <3>3, <4>1
        <3>4. CASE v # value
            <4>1. Met(u, k, q, v) = Met(t, n, q, v)
                BY <1>8, <3>4
            <4> QED BY <3>1, <3>2, <3>4, <4>1
        <3> QED BY <3>3, <3>4
    <2> QED BY <2>1, <2>2
<1>13. /\ most \in Nat
       /\ \A v \in V : buckets[v] <= most
       /\ \E v \in V : buckets[v] = most
    BY <1>7, <1>12, MostIs DEF V, most
\* The cases before are as they were.
<1>14. \A c \in 0..(q - 1), v \in V : Met(u, k, c, v) = Met(t, n, c, v)
    <2>1. \A c \in 0..(q - 1) : c # q
        BY <1>5
    <2> QED BY <1>8, <2>1
<1>15. \A i \in 1..k : u[i].value \in V /\ u[i].zero \in BOOLEAN
    <2>1. value \in V
        BY DEF V
    <2>2. \A i \in 1..k : i \in 1..n \/ i = k
        BY <1>2
    <2> QED BY <1>0, <1>1, <1>4, <2>1, <2>2
<1>16. CASE Sample = Samples - 1
    <2>1. k \div Samples = q + 1 /\ k % Samples = 0
        BY <1>5, <1>16
    <2>2. (q + 1) - 1 = q
        BY <1>5
    <2>3. counted.maximum_count = IF most > s.maximum_count THEN most ELSE s.maximum_count
        BY <1>3, <1>16
    <2>4. \A c \in 0..q : c = q \/ c \in 0..(q - 1)
        BY <1>5
    <2>5. q \in 0..q /\ \A c \in 0..(q - 1) : c \in 0..q
        BY <1>5
    <2>6. ASSUME NEW c \in 0..q, NEW v \in V
          PROVE  /\ Cardinality(Met(u, k, c, v)) \in Nat
                 /\ \/ c = q /\ Cardinality(Met(u, k, c, v)) <= most
                    \/ c # q /\ Cardinality(Met(u, k, c, v)) <= s.maximum_count
        <3>1. CASE c = q
            <4>1. /\ buckets[v] \in Nat /\ buckets[v] <= most
                  /\ buckets[v] = Cardinality(Met(u, k, q, v))
                BY <1>12, <1>13
            <4>2. Cardinality(Met(u, k, c, v)) = buckets[v]
                BY <3>1, <4>1, Zenon
            <4> QED BY <3>1, <4>1, <4>2
        <3>2. CASE c # q
            <4>1. Met(u, k, c, v) = Met(t, n, c, v)
                BY <1>14, <2>4, <3>2
            <4> QED BY <1>4, <1>9, <2>4, <3>2, <4>1
        <3> QED BY <3>1, <3>2
    <2>7. counted.maximum_count \in Nat
        BY <1>4, <1>13, <2>3
    <2>8. \A c \in 0..q, v \in V : Cardinality(Met(u, k, c, v)) <= counted.maximum_count
        BY <1>4, <1>13, <2>3, <2>6
    <2>9. \/ counted.maximum_count = 0
          \/ \E c \in 0..q, v \in V : Cardinality(Met(u, k, c, v)) = counted.maximum_count
        <3>1. CASE most > s.maximum_count
            <4>1. PICK v \in V : buckets[v] = most
                BY <1>13
            <4>2. Cardinality(Met(u, k, q, v)) = counted.maximum_count
                BY <1>12, <2>3, <3>1, <4>1
            <4> QED BY <2>5, <4>2
        <3>2. CASE ~(most > s.maximum_count) /\ s.maximum_count # 0
            <4>1. PICK c \in 0..(q - 1), v \in V :
                      Cardinality(Met(t, n, c, v)) = s.maximum_count
                BY <1>4, <3>2
            <4>2. Cardinality(Met(u, k, c, v)) = counted.maximum_count
                BY <1>14, <2>3, <3>2, <4>1
            <4> QED BY <2>5, <4>2
        <3>3. CASE ~(most > s.maximum_count) /\ s.maximum_count = 0
            BY <2>3, <3>3
        <3> QED BY <3>1, <3>2, <3>3
    <2>10. ProbabilityTells(k, u, counted)
        BY <1>10, <1>15, <2>1, <2>2, <2>7, <2>8, <2>9 DEF ProbabilityTells, V
    <2> QED BY <2>10 DEF k, u, e, counted
<1>17. CASE Sample # Samples - 1
    <2>1. k \div Samples = q /\ k % Samples # 0
        BY <1>5, <1>17
    <2>2. counted.maximum_count = s.maximum_count
        BY <1>3, <1>17
    <2>3. \A c \in 0..(q - 1), v \in V : Cardinality(Met(u, k, c, v)) <= counted.maximum_count
        BY <1>4, <1>14, <2>2
    <2>4. \/ counted.maximum_count = 0
          \/ \E c \in 0..(q - 1), v \in V :
                 Cardinality(Met(u, k, c, v)) = counted.maximum_count
        BY <1>4, <1>14, <2>2
    <2>5. counted.maximum_count \in Nat
        BY <1>4, <2>2
    <2>6. /\ counted.buckets \in [V -> Nat]
          /\ \A v \in V : counted.buckets[v] = Cardinality(Met(u, k, q, v))
        BY <1>3, <1>12
    <2>7. ProbabilityTells(k, u, counted)
        BY <1>10, <1>15, <2>1, <2>3, <2>4, <2>5, <2>6 DEF ProbabilityTells, V
    <2> QED BY <2>7 DEF k, u, e, counted
<1> QED BY <1>16, <1>17

-----------------------------------------------------------------------------
(* The steps *)

\* One pair more in a row of pairs.
LEMMA RowMeans ==
    ASSUME NEW n \in Nat, NEW old, NEW new, \A i \in 1..n : new[i] = old[i],
           NEW pair, pair.weight \in Nat, pair.active \in Nat, new[n + 1] = pair,
           NEW width \in Nat, NEW words \in Nat, NEW place,
           NEW before, Means(before, old, 1..n, width, words),
           NEW all, all = 1..(n + 1)
    PROVE  Means(Record(before, pair, place), new, all, width, words)
<1> DEFINE among == 1..n
           k == n + 1
<1>1. IsFiniteSet(among) /\ k \notin among /\ among \cup {k} = 1..(n + 1)
    BY OneMore
<1>2. \A i \in among : new[i] = old[i]
    OBVIOUS
<1>3. Means(before, old, among, width, words) /\ new[k] = pair
    OBVIOUS
<1> HIDE DEF among, k
<1>4. new[k].weight \in Nat /\ new[k].active \in Nat
    BY <1>3
<1>5. Means(Record(before, new[k], place), new, among \cup {k}, width, words)
    BY <1>1, <1>2, <1>3, <1>4, RecordMeans
<1> QED BY <1>1, <1>3, <1>5

\* The two differences of a rebound are counted one by the other.
LEMMA ReboundCounts ==
    ASSUME NEW n \in Nat, NEW t, Rows(t, n), NEW s, ReboundTells(n, t, s),
           NEW seen, NEW middle, NEW end,
           seen.middle = middle, seen.end = end,
           middle.weight \in Nat, middle.active \in Nat,
           end.weight \in Nat, end.active \in Nat,
           NEW place, NEW counted,
           counted.middle = Record(s.middle, middle, place),
           counted.end = Record(s.end, end, place)
    PROVE  ReboundTells(n + 1, Append(t, seen), counted)
<1> DEFINE k == n + 1
           u == Append(t, seen)
           m == s.middle
           e == s.end
<1>1. (\A i \in 1..n : u[i] = t[i]) /\ u[k] = seen
    <2>1. Grown(u, t, n, seen)
        BY RowsGrow
    <2> QED BY <2>1, Zenon DEF Grown
<1>2. k \in 1..k /\ \A i \in 1..n : i \in 1..k
    OBVIOUS
<1> DEFINE width == 1024
           words == 16
           all == 1..k
<1>3. width \in Nat /\ words \in Nat /\ all = 1..(n + 1)
    OBVIOUS
<1>4. /\ Means(m, Middles(t, n), 1..n, width, words)
      /\ Means(e, Ends(t, n), 1..n, width, words)
    BY DEF ReboundTells
<1> HIDE DEF u, m, e, width, words, all
<1>5. /\ \A i \in 1..n : Middles(u, k)[i] = Middles(t, n)[i]
      /\ \A i \in 1..n : Ends(u, k)[i] = Ends(t, n)[i]
      /\ Middles(u, k)[n + 1] = middle /\ Ends(u, k)[n + 1] = end
    BY <1>1, <1>2 DEF Middles, Ends
<1> DEFINE M == Middles(u, k)
           E == Ends(u, k)
           M0 == Middles(t, n)
           E0 == Ends(t, n)
<1> HIDE DEF M, E, M0, E0
<1>6. Means(Record(m, middle, place), M, all, width, words)
    <2>1. Means(m, M0, 1..n, width, words) /\ (\A i \in 1..n : M[i] = M0[i])
          /\ M[n + 1] = middle
        BY <1>4, <1>5 DEF M, M0
    <2> QED BY <1>3, <2>1, RowMeans
<1>7. Means(Record(e, end, place), E, all, width, words)
    <2>1. Means(e, E0, 1..n, width, words) /\ (\A i \in 1..n : E[i] = E0[i])
          /\ E[n + 1] = end
        BY <1>4, <1>5 DEF E, E0
    <2> QED BY <1>3, <2>1, RowMeans
<1> QED BY <1>6, <1>7 DEF ReboundTells, k, u, m, e, M, E, width, words, all

\* The trails are those of the code's own pairs.
LEMMA TrailsAreKinds ==
    ASSUME step \in Nat, Rows(taken, step), TrailsTell(step, taken, stats),
           NEW base, NEW difference, NEW pairs \in Trails(base, difference)
    PROVE  pairs \in TrailKinds
<1> DEFINE K == [weight : 0..511, active : Nat]
           R == 1..MixRounds
<1>1. /\ Pair(0, 0) \in K /\ \A r \in R : Usual(r) \in K
      /\ \A p \in UnusualTrail : p \in K
    BY DEF Pair, Usual, Unusual, UnusualTrail
<1>2. UsualTrail \in [R -> K]
    BY <1>1 DEF UsualTrail
<1>3. [r \in R |-> Pair(0, 0)] \in [R -> K]
    BY <1>1
<1>4. \A r \in OddRounds, p \in UnusualTrail : [UsualTrail EXCEPT ![r] = p] \in [R -> K]
    <2>1. ASSUME NEW r, NEW p \in K PROVE [UsualTrail EXCEPT ![r] = p] \in [R -> K]
        <3> HIDE DEF R, K
        <3> QED BY <1>2
    <2>2. \A p \in UnusualTrail : p \in K
        BY <1>1
    <2> HIDE DEF R, K
    <2> QED BY <2>1, <2>2, Zenon
<1>5. ASSUME NEW x \in ToSet(taken) PROVE x.pairs \in [R -> K]
    <2>1. PICK i \in DOMAIN taken : x = taken[i]
        BY DEF ToSet
    <2>2. DOMAIN taken = 1..step
        BY DEF Rows
    <2> QED BY <2>1, <2>2 DEF TrailsTell, TrailKinds
<1> HIDE DEF K, R
<1>6. CASE difference = {}
    <2>1. pairs = [r \in R |-> Pair(0, 0)]
        BY <1>6 DEF Trails, R
    <2>2. pairs \in [R -> K]
        BY <1>3, <2>1, Zenon
    <2> QED BY <2>2 DEF TrailKinds, K, R
<1>7. CASE difference # {} /\ \E x \in ToSet(taken) : pairs = x.pairs
    <2>1. pairs \in [R -> K]
        BY <1>5, <1>7, Zenon
    <2> QED BY <2>1 DEF TrailKinds, K, R
<1>8. CASE difference # {} /\ ~\E x \in ToSet(taken) : pairs = x.pairs
    <2>1. \/ pairs = UsualTrail
          \/ \E r \in OddRounds, p \in UnusualTrail : pairs = [UsualTrail EXCEPT ![r] = p]
        <3> DEFINE before == {x \in ToSet(taken) : x.base = base /\ x.difference = difference}
        <3>1. CASE before # {}
            <4>1. pairs \in {x.pairs : x \in before}
                BY <1>8, <3>1 DEF Trails
            <4> QED BY <1>8, <4>1
        <3>2. CASE before = {}
            BY <1>8, <3>2 DEF Trails
        <3> QED BY <3>1, <3>2
    <2>2. pairs \in [R -> K]
        BY <1>2, <1>4, <2>1, Zenon
    <2> QED BY <2>2 DEF TrailKinds, K, R
<1> QED BY <1>6, <1>7, <1>8

\* The pattern of a trail is one of the patterns.
LEMMA TrailPatternIs ==
    ASSUME step \in Nat
    PROVE  TrailPattern \in Patterns
<1> DEFINE p == Cardinality(Patterns)
           b == Cardinality(Bits)
           q == step \div b
<1>1. p \in Nat \ {0} /\ b \in Nat \ {0} /\ Patterns = 0..(p - 1)
    BY PatternsFinite
<1>2. q \in Nat
    <2> HIDE DEF b
    <2> QED BY <1>1, DivMod
<1>3. q % p \in 0..(p - 1)
    <2> HIDE DEF q, p
    <2> QED BY <1>1, <1>2, DivMod
<1>4. TrailPattern = q % p
    BY DEF TrailPattern
<1> QED BY <1>1, <1>3, <1>4, Zenon

\* A line is printed, and the next starts with nothing counted.
LEMMA PrintedTells ==
    ASSUME Printed
    PROVE  Told'
<1>1. check \in DOMAIN Checks /\ check' = check /\ Name' = Name
    BY DEF Printed, PrintLines, Name
<1>2. step' = 0 /\ taken' = << >> /\ stats' = FreshStats(Name)
    BY DEF Printed, PrintLines
<1>3. Name \in CheckNames
    BY <1>1, NamesAre, ChecksLength DEF Name
<1>4. Tells(Name, 0, << >>, FreshStats(Name))
    BY <1>3, FreshTells
<1> QED BY <1>1, <1>2, <1>4 DEF Told

\* A check that returns leaves the next one with nothing counted.
LEMMA ReturnedTells ==
    ASSUME Returned
    PROVE  Told'
<1>1. check \in DOMAIN Checks /\ \E passed : Return(passed)
    BY DEF Returned
<1>2. /\ check \in 1..14 /\ check' = check + 1 /\ step' = 0 /\ taken' = << >>
      /\ check < 14 => stats' = FreshStats(Checks[check + 1])
    BY <1>1, ChecksLength DEF Return
<1>3. Checks' = Checks /\ DOMAIN Checks = 1..14
    BY ChecksLength DEF Checks
<1>4. ASSUME check' \in DOMAIN Checks
      PROVE  Tells(Name', step', taken', stats')
    <2>1. check < 14 /\ check + 1 \in 1..14
        BY <1>2, <1>3, <1>4
    <2>2. Checks[check + 1] \in CheckNames /\ Name' = Checks[check + 1]
        BY <1>2, <2>1, NamesAre DEF Name
    <2>3. Tells(Checks[check + 1], 0, << >>, FreshStats(Checks[check + 1]))
        BY <2>2, FreshTells
    <2> QED BY <1>2, <2>1, <2>2, <2>3
<1> QED BY <1>3, <1>4 DEF Told

\* A pair is counted.
LEMMA CountedPairTells ==
    ASSUME Told, NEW names, Comparing(names), Name \in PairChecks,
           NEW inputs, NEW rounds, NEW oddities,
           NEW pair \in Outputs(inputs, rounds, oddities), CountPair(pair, inputs)
    PROVE  Told'
<1> DEFINE place == <<Case, 0, Sample, 0>>
           counted == Record(stats, pair, place)
<1>1. pair.weight \in Nat /\ pair.active \in Nat
    BY DEF Outputs, Pair, Usual, Unusual
<1>2. /\ Name \in CheckNames
      /\ Name \notin {"trail_search", "differential_probability", "rebound",
                      "mitm", "output_only"}
    BY DEF CheckNames, PairChecks
<1>3. step \in Nat /\ Rows(taken, step) /\ Means(stats, taken, 1..step, 512, 8)
    BY DEF Told, Tells, Comparing, In
<1>4. Means(counted, Append(taken, pair), 1..(step + 1), 512, 8)
    <2> DEFINE width == 512
               words == 8
    <2>1. width \in Nat /\ words \in Nat /\ Means(stats, taken, 1..step, width, words)
        BY <1>3
    <2> HIDE DEF width, words, place
    <2>2. Means(Record(stats, pair, place), Append(taken, pair), 1..(step + 1), width, words)
        BY <1>1, <1>3, <2>1, PairTells
    <2> QED BY <2>2 DEF width, words
<1>5. Compare(pair, counted, OddPair(pair, inputs))
    BY DEF CountPair
<1> HIDE DEF counted
<1> QED BY <1>2, <1>4, <1>5, ComparedTells

\* The steps of each check keep what is told.
LEMMA ComparedPairTells ==
    ASSUME Told, NEW name, name \in PairChecks, NEW inputs, ComparePair(name, inputs)
    PROVE  Told'
<1>1. Comparing({name}) /\ Name = name /\ Comparing(PairChecks)
    BY DEF ComparePair, Comparing, In
<1>2. CASE Return(FALSE)
    BY <1>1, <1>2, Refused, ReturnedTells
<1>3. CASE ~Return(FALSE)
    <2>1. PICK pair \in Outputs(inputs, Rounds, Oddities) : CountPair(pair, inputs)
        BY <1>3 DEF ComparePair
    <2> QED BY <1>1, <2>1, CountedPairTells
<1> QED BY <1>2, <1>3

LEMMA ComparedTrailTells ==
    ASSUME Told, CompareTrail
    PROVE  Told'
<1>1. Comparing({"trail_search"}) /\ Name = "trail_search"
    BY DEF CompareTrail, Comparing, In
<1>2. CASE Return(FALSE)
    BY <1>1, <1>2, Refused, ReturnedTells
<1>3. CASE ~Return(FALSE)
    <2> DEFINE bit_b == PairedBit(TrailBit, TrailPattern)
               difference == TrailDifference(TrailPattern, TrailBit, bit_b)
               place == <<TrailBase, TrailPattern, TrailBit, bit_b>>
               Seen(pairs) == [base |-> TrailBase, pattern |-> TrailPattern,
                               difference |-> difference, pairs |-> pairs]
    <2>1. PICK pairs \in Trails(TrailBase, difference) :
              Compare(Seen(pairs), RecordTrail(pairs, place),
                      difference # {} /\ pairs # UsualTrail)
        BY <1>3 DEF CompareTrail
    <2> DEFINE seen == Seen(pairs)
               counted == RecordTrail(pairs, place)
    <2>2. /\ seen.base = TrailBase /\ seen.pattern = TrailPattern
          /\ seen.difference = difference /\ seen.pairs = pairs
        OBVIOUS
    <2>3. /\ place[1] = TrailBase /\ place[2] = TrailPattern
          /\ BestDifference(place) = difference
        BY DEF BestDifference
    <2>4. TrailCounted(counted, stats, seen.pairs, place)
        <3>1. TrailCounted(counted, stats, pairs, place)
            BY Zenon DEF RecordTrail, TrailCounted
        <3> QED BY <2>2, <3>1, Zenon
    <2>5. step \in Nat /\ Rows(taken, step) /\ TrailsTell(step, taken, stats)
        BY <1>1 DEF Told, Tells, Comparing, In
    <2>6. pairs \in TrailKinds
        BY <2>5, TrailsAreKinds
    <2>7. TrailPattern \in Patterns
        BY <2>5, TrailPatternIs
    <2>8. Compare(seen, counted, difference # {} /\ pairs # UsualTrail)
        BY <2>1
    <2> HIDE DEF seen, place, counted, difference
    <2>9. TrailsTell(step + 1, Append(taken, seen), counted)
        BY <2>2, <2>3, <2>4, <2>5, <2>6, <2>7, TrailTells
    <2>10. /\ Name \in CheckNames
           /\ Name \notin PairChecks \cup {"differential_probability", "rebound",
                                           "mitm", "output_only"}
        BY <1>1 DEF CheckNames, PairChecks
    <2> QED BY <1>1, <2>8, <2>9, <2>10, ComparedTells
<1> QED BY <1>2, <1>3

LEMMA ProbabilityStepTells ==
    ASSUME Told, CheckProbability
    PROVE  Told'
<1>1. CASE Comparing({"differential_probability"})
    <2>1. Name = "differential_probability"
        BY <1>1 DEF Comparing, In
    <2>2. CASE Return(FALSE)
        BY <1>1, <2>2, Refused, ReturnedTells
    <2>3. CASE ~Return(FALSE)
        <3>1. step < Comparisons(Name) /\ step \in Nat /\ Comparisons(Name) \in Nat
            BY <1>1, <2>1, ComparisonsAre DEF Comparing, Told, Tells, In, CheckNames
        <3>2. ~Reporting({"differential_probability"})
            BY <3>1 DEF Reporting
        <3>3. PICK value \in {0, Sample}, zero \in BOOLEAN :
                  \E unusual : Compare([value |-> value, zero |-> zero],
                                       CountProjection(value, zero), unusual)
            BY <2>3, <3>2 DEF CheckProbability
        <3> DEFINE seen == [value |-> value, zero |-> zero]
                   counted == CountProjection(value, zero)
        <3>4. PICK unusual : Compare(seen, counted, unusual)
            BY <3>3
        <3>5. value \in 0..(Samples - 1)
            <4>1. Sample \in 0..(Samples - 1) /\ 0 \in 0..(Samples - 1)
                BY <3>1, SizesAre, CaseOf DEF Sample
            <4> QED BY <4>1
        <3>6. Rows(taken, step) /\ ProbabilityTells(step, taken, stats)
            BY <1>1, <2>1 DEF Told, Tells, Comparing, In
        <3>7. ProbabilityTells(step + 1, Append(taken, seen), counted)
            BY <3>1, <3>5, <3>6, ProjectionTells
        <3> HIDE DEF seen, counted
        <3>8. /\ Name \in CheckNames
              /\ Name \notin PairChecks \cup {"trail_search", "rebound",
                                              "mitm", "output_only"}
            BY <2>1 DEF CheckNames, PairChecks
        <3> QED BY <1>1, <3>4, <3>7, <3>8, ComparedTells
    <2> QED BY <2>2, <2>3
<1>2. CASE ~Comparing({"differential_probability"})
    BY <1>2, LineIsPrinted, PrintedTells DEF CheckProbability
<1> QED BY <1>1, <1>2

LEMMA ReboundStepTells ==
    ASSUME Told, CheckRebound
    PROVE  Told'
<1>1. CASE Comparing({"rebound"})
    <2>1. Name = "rebound"
        BY <1>1 DEF Comparing, In
    <2>2. CASE Return(FALSE)
        BY <1>1, <2>2, Refused, ReturnedTells
    <2>3. CASE ~Return(FALSE)
        <3>1. step < Comparisons(Name) /\ step \in Nat /\ Comparisons(Name) \in Nat
            BY <1>1, <2>1, ComparisonsAre DEF Comparing, Told, Tells, In, CheckNames
        <3>2. ~Reporting({"rebound"})
            BY <3>1 DEF Reporting
        <3> DEFINE Seen(middle, end) == [middle |-> middle, end |-> end]
                   place == <<0, 0, 0, 0>>
                   Counted(middle, end) ==
                       [middle |-> Record(stats.middle, middle, place),
                        low_middle |-> stats.low_middle
                            + (IF middle.weight <= 256 THEN 1 ELSE 0),
                        end |-> Record(stats.end, end, place)]
        <3>3. PICK middle \in {Pair(0, 0)} \cup WidePairs,
                   end \in {Pair(0, 0)} \cup WidePairs :
                  \E unusual : Compare(Seen(middle, end), Counted(middle, end), unusual)
            BY <2>3, <3>2 DEF CheckRebound
        <3> DEFINE seen == Seen(middle, end)
                   counted == Counted(middle, end)
        <3>4. PICK unusual : Compare(seen, counted, unusual)
            BY <3>3
        <3>5. /\ middle.weight \in Nat /\ middle.active \in Nat
              /\ end.weight \in Nat /\ end.active \in Nat
            BY DEF Pair, WidePairs, Wide
        <3>6. Rows(taken, step) /\ ReboundTells(step, taken, stats)
            BY <1>1, <2>1 DEF Told, Tells, Comparing, In
        <3>7. /\ seen.middle = middle /\ seen.end = end
              /\ counted.middle = Record(stats.middle, middle, place)
              /\ counted.end = Record(stats.end, end, place)
            OBVIOUS
        <3> HIDE DEF seen, counted, place
        <3>8. ReboundTells(step + 1, Append(taken, seen), counted)
            BY <3>1, <3>5, <3>6, <3>7, ReboundCounts
        <3>9. /\ Name \in CheckNames
              /\ Name \notin PairChecks \cup {"trail_search", "differential_probability",
                                              "mitm", "output_only"}
            BY <2>1 DEF CheckNames, PairChecks
        <3> QED BY <1>1, <3>4, <3>8, <3>9, ComparedTells
    <2> QED BY <2>2, <2>3
<1>2. CASE ~Comparing({"rebound"})
    BY <1>2, LineIsPrinted, PrintedTells DEF CheckRebound
<1> QED BY <1>1, <1>2

\* States have keys to sort them by.
LEMMA StatesAreCandidates ==
    ASSUME NEW n \in Nat, NEW o \in [0..(n - 1) -> TableStates]
    PROVE  Candidates(o, n)
BY CryptanalysisAssumption DEF Candidates

LEMMA MitmStepTells ==
    ASSUME Told, CheckMitm
    PROVE  Told'
<1>1. CASE Comparing({"mitm"})
    <2>1. Name = "mitm"
        BY <1>1 DEF Comparing, In
    <2>2. CASE PrintLine(FALSE)
        BY <1>1, <2>2, LineFails, PrintedTells
    <2>3. CASE ~PrintLine(FALSE)
        <3>1. step < Comparisons(Name) /\ step \in Nat /\ Comparisons(Name) \in Nat
            BY <1>1, <2>1, ComparisonsAre DEF Comparing, Told, Tells, In, CheckNames
        <3>2. ~Reporting({"mitm"})
            BY <3>1 DEF Reporting
        <3>3. PICK forward, backward \in [0..(MitmCandidates - 1) -> TableStates] :
                  \E unusual :
                      Compare([forward |-> forward, backward |-> backward],
                              JoinOf(Table(forward), backward, MitmTarget), unusual)
            BY <2>3, <3>2 DEF CheckMitm
        <3> DEFINE seen == [forward |-> forward, backward |-> backward]
                   counted == JoinOf(Table(forward), backward, MitmTarget)
        <3>4. PICK unusual : Compare(seen, counted, unusual)
            BY <3>3
        <3>5. seen.forward = forward /\ seen.backward = backward
            OBVIOUS
        <3>6. /\ MitmCandidates \in Nat /\ MitmTarget \in 0..(MitmCandidates - 1)
              /\ Candidates(forward, MitmCandidates)
              /\ Candidates(backward, MitmCandidates)
            BY SizesAre, StatesAreCandidates
        <3>7. JoinMeans(forward, backward, MitmTarget, counted)
            BY <3>6, JoinOfMeans
        <3> HIDE DEF seen, counted
        <3>8. JoinMeans(seen.forward, seen.backward, MitmTarget, counted)
            BY <3>5, <3>7
        <3>9. /\ Name \in CheckNames
              /\ Name \notin PairChecks \cup {"trail_search", "differential_probability",
                                              "rebound", "output_only"}
            BY <2>1 DEF CheckNames, PairChecks
        <3> QED BY <1>1, <3>4, <3>8, <3>9, ComparedTells
    <2> QED BY <2>2, <2>3
<1>2. CASE ~Comparing({"mitm"})
    BY <1>2, LineIsPrinted, PrintedTells DEF CheckMitm
<1> QED BY <1>1, <1>2

LEMMA OutputStepTells ==
    ASSUME Told, CheckOutputs
    PROVE  Told'
<1>1. CASE Comparing({"output_only"})
    <2>1. Name = "output_only"
        BY <1>1 DEF Comparing, In
    <2>2. CASE Return(FALSE)
        BY <1>1, <2>2, Refused, ReturnedTells
    <2>3. CASE ~Return(FALSE)
        <3>1. step < Comparisons(Name) /\ step \in Nat /\ Comparisons(Name) \in Nat
            BY <1>1, <2>1, ComparisonsAre DEF Comparing, Told, Tells, In, CheckNames
        <3>2. ~Reporting({"output_only"})
            BY <3>1 DEF Reporting
        <3>3. PICK outputs \in [0..(OutputCandidates - 1) -> TableStates],
                   unplanted \in TableStates :
                  \E unusual :
                      Compare([outputs |-> outputs, unplanted |-> unplanted],
                              SearchOf(Table(outputs), outputs[OutputTarget],
                                       unplanted, OutputTarget), unusual)
            BY <2>3, <3>2 DEF CheckOutputs
        <3> DEFINE seen == [outputs |-> outputs, unplanted |-> unplanted]
                   counted == SearchOf(Table(outputs), outputs[OutputTarget],
                                       unplanted, OutputTarget)
        <3>4. PICK unusual : Compare(seen, counted, unusual)
            BY <3>3
        <3>5. seen.outputs = outputs /\ seen.unplanted = unplanted
            OBVIOUS
        <3>6. /\ OutputCandidates \in Nat /\ OutputTarget \in 0..(OutputCandidates - 1)
              /\ Candidates(outputs, OutputCandidates)
            BY SizesAre, StatesAreCandidates
        <3>7. SearchMeans(outputs, unplanted, OutputTarget, counted)
            BY <3>6, SearchOfMeans
        <3> HIDE DEF seen, counted
        <3>8. SearchMeans(seen.outputs, seen.unplanted, OutputTarget, counted)
            BY <3>5, <3>7
        <3>9. /\ Name \in CheckNames
              /\ Name \notin PairChecks \cup {"trail_search", "differential_probability",
                                              "rebound", "mitm"}
            BY <2>1 DEF CheckNames, PairChecks
        <3> QED BY <1>1, <3>4, <3>8, <3>9, ComparedTells
    <2> QED BY <2>2, <2>3
<1>2. CASE ~Comparing({"output_only"})
    BY <1>2, LineIsPrinted, PrintedTells DEF CheckOutputs
<1> QED BY <1>1, <1>2

\* Checks of which nothing is told.
LEMMA PlainStepTells ==
    ASSUME Told, NEW name, Comparing({name}),
           name \in {"linear_correlation", "roundtrip", "fixed_point", "near_collision"},
           NEW seen, NEW counted, NEW unusual, Compare(seen, counted, unusual)
    PROVE  Told'
<1>1. Name = name
    BY DEF Comparing, In
<1>2. /\ Name \in CheckNames
      /\ Name \notin PairChecks \cup {"trail_search", "differential_probability",
                                      "rebound", "mitm", "output_only"}
    BY <1>1 DEF CheckNames, PairChecks
<1> QED BY <1>2, ComparedTells

\* Every step keeps what is told of the line.
LEMMA ToldPreserved ==
    ASSUME Told, [Next]_vars
    PROVE  Told'
<1>1. CASE DifferentialBias
    <2> DEFINE inputs == << {}, {DifferentialBits[Case + 1]} >>
    <2>1. CASE Comparing({"differential_bias"})
        <3>1. Name \in PairChecks
            BY <2>1 DEF Comparing, In, PairChecks
        <3>2. CASE Return(FALSE)
            BY <2>1, <3>2, Refused, ReturnedTells
        <3>3. CASE ~Return(FALSE)
            <4>1. CASE \E pair \in Outputs(inputs, Rounds, Oddities) : CountPair(pair, inputs)
                BY <2>1, <3>1, <4>1, CountedPairTells
            <4>2. CASE ReportPairs("differential_bias",
                           LAMBDA s, even : /\ even /\ s.minimum_weight >= 160
                                            /\ s.maximum_weight <= 352)
                BY <4>2, LineIsPrinted, PrintedTells DEF ReportPairs
            <4> QED BY <1>1, <3>3, <4>1, <4>2 DEF DifferentialBias
        <3> QED BY <3>2, <3>3
    <2>2. CASE ~Comparing({"differential_bias"})
        BY <1>1, <2>2, LineIsPrinted, PrintedTells DEF DifferentialBias, ReportPairs
    <2> QED BY <2>1, <2>2
<1>2. CASE ReducedRoundSearch
    <2>0. "reduced_round" \in PairChecks
        BY DEF PairChecks
    <2> QED BY <1>2, <2>0, ComparedPairTells, LineIsPrinted, PrintedTells, Zenon
            DEF ReducedRoundSearch, ReportPairs
<1>3. CASE RotationalPair
    <2>0. "rotational_pair" \in PairChecks
        BY DEF PairChecks
    <2> QED BY <1>3, <2>0, ComparedPairTells, LineIsPrinted, PrintedTells, Zenon
            DEF RotationalPair, ReportPairs
<1>4. CASE AdditiveDifferential
    <2>0. "additive_differential" \in PairChecks
        BY DEF PairChecks
    <2> QED BY <1>4, <2>0, ComparedPairTells, LineIsPrinted, PrintedTells, Zenon
            DEF AdditiveDifferential, ReportPairs
<1>5. CASE RelatedContext
    <2>0. "related_context" \in PairChecks
        BY DEF PairChecks
    <2> QED BY <1>5, <2>0, ComparedPairTells, LineIsPrinted, PrintedTells, Zenon
            DEF RelatedContext, ReportPairs
<1>6. CASE CheckLinear
    BY <1>6, PlainStepTells, Refused, ReturnedTells, LineIsPrinted, PrintedTells, Zenon
       DEF CheckLinear
<1>7. CASE CheckProbability
    BY <1>7, ProbabilityStepTells
<1>8. CASE CompareTrail
    BY <1>8, ComparedTrailTells
<1>9. CASE ReportTrails
    BY <1>9, ReportedTrails, PrintedTells
<1>10. CASE CheckRoundtrip
    BY <1>10, PlainStepTells, Refused, ReturnedTells, LineIsPrinted, PrintedTells, Zenon
       DEF CheckRoundtrip
<1>11. CASE CheckRebound
    BY <1>11, ReboundStepTells
<1>12. CASE CheckMitm
    BY <1>12, MitmStepTells
<1>13. CASE CheckOutputs
    BY <1>13, OutputStepTells
<1>14. CASE CheckFixedPoints
    BY <1>14, PlainStepTells, Refused, ReturnedTells, LineIsPrinted, PrintedTells, Zenon
       DEF CheckFixedPoints
<1>15. CASE CheckNearCollisions
    BY <1>15, PlainStepTells, LineIsPrinted, PrintedTells, Zenon DEF CheckNearCollisions
<1>16. CASE ReturnAll
    <2>1. Returned
        BY <1>16, Zenon DEF ReturnAll, In, Returned
    <2> QED BY <2>1, ReturnedTells
<1>17. CASE Exited \/ UNCHANGED vars
    <2>1. UNCHANGED vars
        BY <1>17 DEF Exited
    <2>2. Name' = Name
        BY <2>1 DEF vars, Name
    <2> QED BY <2>1, <2>2 DEF vars, Told
<1> QED BY <1>1, <1>2, <1>3, <1>4, <1>5, <1>6, <1>7, <1>8, <1>9, <1>10, <1>11,
           <1>12, <1>13, <1>14, <1>15, <1>16, <1>17 DEF Next

LEMMA ToldInit == Init => Told
<1> SUFFICES ASSUME Init PROVE Told
    OBVIOUS
<1>1. check = 1 /\ step = 0 /\ taken = << >> /\ stats = FreshStats(Checks[1])
    BY DEF Init
<1>2. Name = Checks[1] /\ Checks[1] \in CheckNames
    BY <1>1, NamesAre DEF Name
<1>3. Tells(Name, 0, << >>, FreshStats(Name))
    BY <1>2, FreshTells
<1> QED BY <1>1, <1>2, <1>3 DEF Told

-----------------------------------------------------------------------------
(* What is told of all the comparisons of a line is exact. *)

\* A line that is reported is told of all its comparisons.
LEMMA ReportedTells ==
    ASSUME Told, NEW names, Reporting(names)
    PROVE  /\ Name \in names /\ step = Comparisons(Name) /\ step \in Nat
           /\ Tells(Name, step, taken, stats)
           /\ DOMAIN taken = 1..step /\ IsFiniteSet(1..step)
<1>1. /\ check \in DOMAIN Checks /\ Name \in names /\ step = Comparisons(Name)
    BY DEF Reporting, In
<1>2. Tells(Name, step, taken, stats)
    BY <1>1 DEF Told
<1>3. step \in Nat /\ Rows(taken, step)
    BY <1>2 DEF Tells
<1>4. DOMAIN taken = 1..step
    BY <1>3 DEF Rows
<1> QED BY <1>1, <1>2, <1>3, <1>4, FS_Interval

\* So each part of StatisticsExact holds.
LEMMA PairsAreExact ==
    ASSUME Told
    PROVE  PairsExact
<1> SUFFICES ASSUME Reporting(PairChecks)
             PROVE  PairsMean(stats, taken, DOMAIN taken, 512, 8)
    BY DEF PairsExact
<1> DEFINE width == 512
           words == 8
           among == DOMAIN taken
<1>1. /\ IsFiniteSet(among) /\ width \in Nat /\ words \in Nat
      /\ Means(stats, taken, among, width, words)
    BY ReportedTells DEF Tells
<1> HIDE DEF width, words, among
<1>2. PairsMean(stats, taken, among, width, words)
    BY <1>1, MeansPairs
<1> QED BY <1>2 DEF width, words, among

LEMMA RoundIsExact ==
    ASSUME Told, Reporting({"trail_search"}), NEW r \in 1..MixRounds
    PROVE  RoundExact(r)
<1> DEFINE width == 512
           words == 8
           among == DOMAIN taken
           pairs == [i \in among |-> taken[i].pairs[r]]
           Of(p) == {i \in among : taken[i].pattern = p}
           all == stats.all[r]
<1>1. /\ step \in Nat /\ step > 0 /\ among = 1..step /\ IsFiniteSet(among)
      /\ TrailsTell(step, taken, stats)
    BY ReportedTells, ComparisonsAre DEF Tells
<1>2. RoundTells(step, taken, stats, r)
    BY <1>1 DEF TrailsTell
<1>3. /\ TrailPairs(taken, step, r) = pairs
      /\ \A p : OfPattern(taken, step, p) = Of(p)
    BY <1>1 DEF TrailPairs, OfPattern
<1>4. /\ Means(all, pairs, among, width, words)
      /\ \A p \in Patterns : Means(stats.of[p][r], pairs, Of(p), width, words)
      /\ BestTells(step, taken, all, r)
    <2>1. /\ Means(stats.all[r], TrailPairs(taken, step, r), 1..step, 512, 8)
          /\ \A p \in Patterns :
                 Means(stats.of[p][r], TrailPairs(taken, step, r),
                       OfPattern(taken, step, p), 512, 8)
          /\ BestTells(step, taken, stats.all[r], r)
        BY <1>1, <1>2 DEF RoundTells
    <2> HIDE DEF pairs, Of, among
    <2> QED BY <1>1, <1>3, <2>1
<1>5. width \in Nat /\ words \in Nat /\ \A p : IsFiniteSet(Of(p))
    <2>1. \A p : Of(p) \in SUBSET among
        OBVIOUS
    <2> HIDE DEF Of, among
    <2> QED BY <1>1, <2>1, FS_Subset
<1>6. ASSUME NEW i \in among
      PROVE  taken[i].pairs[r].weight \in Nat
    <2>1. taken[i].pairs \in TrailKinds
        BY <1>1 DEF TrailsTell
    <2>2. taken[i].pairs[r] \in [weight : 0..511, active : Nat]
        BY <2>1 DEF TrailKinds
    <2>3. \A x \in [weight : 0..511, active : Nat] : x.weight \in Nat
        OBVIOUS
    <2> QED BY <2>2, <2>3, Zenon
<1>7. PICK i \in among :
          /\ taken[i].base = all.best[1] /\ taken[i].pattern = all.best[2]
          /\ taken[i].difference = BestDifference(all.best)
          /\ \A j \in among :
                 \/ taken[i].pairs[r].weight < taken[j].pairs[r].weight
                 \/ taken[i].pairs[r].weight = taken[j].pairs[r].weight /\ i <= j
    BY <1>1, <1>4 DEF BestTells
<1> DEFINE heavier(j) == taken[j].pairs[r].weight - taken[i].pairs[r].weight
<1>8. \A j \in among : heavier(j) > 0 \/ (heavier(j) = 0 /\ j >= i)
    <2> SUFFICES ASSUME NEW j \in among
                 PROVE  heavier(j) > 0 \/ (heavier(j) = 0 /\ j >= i)
        OBVIOUS
    <2>1. /\ taken[i].pairs[r].weight \in Nat /\ taken[j].pairs[r].weight \in Nat
          /\ i \in Nat /\ j \in Nat
        BY <1>1, <1>6
    <2> QED BY <1>7, <2>1
<1> HIDE DEF pairs, Of, among, width, words, all
<1>9. PairsMean(all, pairs, among, width, words)
    BY <1>1, <1>4, <1>5, MeansPairs
<1>10. ASSUME NEW p \in Patterns
       PROVE  PairsMean(stats.of[p][r], pairs, Of(p), width, words)
    <2> DEFINE s == stats.of[p][r]
               some == Of(p)
    <2>1. Means(s, pairs, some, width, words) /\ IsFiniteSet(some)
        BY <1>4, <1>5
    <2> HIDE DEF s, some
    <2>2. PairsMean(s, pairs, some, width, words)
        BY <1>5, <2>1, MeansPairs
    <2> QED BY <2>2 DEF s, some
<1> QED BY <1>7, <1>8, <1>9, <1>10
        DEF RoundExact, pairs, Of, among, width, words, all

LEMMA ProjectionsAreExact ==
    ASSUME Told
    PROVE  ProjectionsExact
<1> SUFFICES ASSUME Reporting({"differential_probability"})
             PROVE  ProjectionsExact
    BY DEF ProjectionsExact
<1> DEFINE C == 0..(Cases(Name) - 1)
           V == 0..(Samples - 1)
           Count(c, v) == Cardinality(Met(taken, step, c, v))
           S == {Count(c, v) : c \in C, v \in V}
           m == stats.maximum_count
<1>1. /\ step \in Nat /\ step = Comparisons(Name) /\ DOMAIN taken = 1..step
      /\ IsFiniteSet(1..step) /\ Name = "differential_probability"
      /\ ProbabilityTells(step, taken, stats)
    BY ReportedTells DEF Tells
<1>2. Cases(Name) = 8 /\ step = Cases(Name) * Samples
    BY <1>1, CasesAre, ComparisonsAre
<1>3. step \div Samples = Cases(Name)
    <2>1. step = 8 * Samples + 0 /\ 0 \in 0..(Samples - 1)
        BY <1>2, SizesAre
    <2>2. (8 * Samples + 0) \div Samples = 8
        BY <2>1, SizesAre, DivModUnique
    <2> QED BY <1>2, <2>1, <2>2, Zenon
<1>4. /\ m \in Nat
      /\ \A c \in C, v \in V : Count(c, v) <= m
      /\ m = 0 \/ \E c \in C, v \in V : Count(c, v) = m
    BY <1>1, <1>3 DEF ProbabilityTells
<1>5. \A c \in C, v \in V : Count(c, v) \in Nat
    <2>1. \A c, v : Met(taken, step, c, v) \in SUBSET (1..step)
        BY DEF Met
    <2> QED BY <1>1, <2>1, FS_Subset, FS_CardinalityType
<1>6. 0 \in C /\ 0 \in V
    BY <1>2, SizesAre
<1>7. S \in SUBSET Nat /\ \A x \in S : x <= m
    <2> HIDE DEF C, V, Count, m
    <2> QED BY <1>4, <1>5
<1>8. m \in S
    <2> HIDE DEF C, V, Count, m
    <2>1. CASE m = 0
        <3>1. Count(0, 0) \in Nat /\ Count(0, 0) <= 0
            BY <1>4, <1>5, <1>6, <2>1
        <3>2. Count(0, 0) = m
            BY <2>1, <3>1
        <3> QED BY <1>6, <3>2
    <2>2. CASE m # 0
        BY <1>4, <2>2
    <2> QED BY <2>1, <2>2
<1>9. m = Max(S)
    <2> HIDE DEF S, m
    <2> QED BY <1>7, <1>8, MaxIs
<1>10. stats.zero_differences = Cardinality({i \in DOMAIN taken : taken[i].zero})
    BY <1>1 DEF ProbabilityTells, Vanished
<1> DEFINE D(c, v) == Cardinality({i \in DOMAIN taken :
                                      /\ (i - 1) \div Samples = c
                                      /\ taken[i].value = v})
           T == {D(c, v) : c \in C, v \in V}
<1>11. \A c, v : Count(c, v) = D(c, v)
    BY <1>1 DEF Met
<1>12. S = T
    <2> HIDE DEF C, V, Count, D
    <2>1. \A x : x \in S <=> \E c \in C, v \in V : x = Count(c, v)
        OBVIOUS
    <2>2. \A x : x \in T <=> \E c \in C, v \in V : x = D(c, v)
        OBVIOUS
    <2> HIDE DEF S, T
    <2>3. \A x : x \in S <=> x \in T
        BY <1>11, <2>1, <2>2, Zenon
    <2> QED BY <2>3
<1>13. m = Max(T)
    <2> HIDE DEF S, T, m
    <2> QED BY <1>9, <1>12
<1> QED BY <1>10, <1>13 DEF ProjectionsExact

LEMMA ReboundIsExact ==
    ASSUME Told
    PROVE  ReboundExact
<1> SUFFICES ASSUME Reporting({"rebound"})
             PROVE  ReboundExact
    BY DEF ReboundExact
<1> DEFINE width == 1024
           words == 16
           among == DOMAIN taken
           M == [i \in among |-> taken[i].middle]
           E == [i \in among |-> taken[i].end]
           m == stats.middle
           e == stats.end
<1>1. /\ among = 1..step /\ IsFiniteSet(among) /\ width \in Nat /\ words \in Nat
      /\ ReboundTells(step, taken, stats)
    BY ReportedTells DEF Tells
<1>2. Means(m, M, among, width, words) /\ Means(e, E, among, width, words)
    <2>1. Middles(taken, step) = M /\ Ends(taken, step) = E
        BY <1>1 DEF Middles, Ends
    <2>2. /\ Means(m, Middles(taken, step), 1..step, width, words)
          /\ Means(e, Ends(taken, step), 1..step, width, words)
        BY <1>1 DEF ReboundTells
    <2> HIDE DEF width, words, among, M, E, m, e
    <2> QED BY <1>1, <2>1, <2>2
<1> HIDE DEF width, words, among, M, E, m, e
<1>3. PairsMean(m, M, among, width, words) /\ PairsMean(e, E, among, width, words)
    BY <1>1, <1>2, MeansPairs
<1> QED BY <1>3 DEF ReboundExact, width, words, among, M, E, m, e

LEMMA SearchesAreExact ==
    ASSUME Told
    PROVE  SearchesExact
<1>1. ASSUME Reporting({"mitm"})
      PROVE  JoinMeans(taken[1].forward, taken[1].backward, MitmTarget, stats)
    BY <1>1, ReportedTells, ComparisonsAre DEF Tells
<1>2. ASSUME Reporting({"output_only"})
      PROVE  SearchMeans(taken[1].outputs, taken[1].unplanted, OutputTarget, stats)
    BY <1>2, ReportedTells, ComparisonsAre DEF Tells
<1> QED BY <1>1, <1>2 DEF SearchesExact

\* The lines of StatisticsExact tell of the comparisons that were made for them:
\* the totals, extremes and places of the pairs of outputs, of the projections,
\* and of what is found in the sorted tables, for any number of samples and
\* candidates, and whatever the function returns.
THEOREM StatisticsTell == Spec => []StatisticsExact
<1>1. Told => StatisticsExact
    <2> SUFFICES ASSUME Told PROVE StatisticsExact
        OBVIOUS
    <2>1. TrailsExact
        BY RoundIsExact DEF TrailsExact
    <2> QED BY <2>1, PairsAreExact, ProjectionsAreExact, ReboundIsExact,
               SearchesAreExact DEF StatisticsExact
<1>2. Told /\ [Next]_vars => Told'
    BY ToldPreserved
<1> QED BY <1>1, <1>2, ToldInit, PTL DEF Spec

-----------------------------------------------------------------------------
(* The verdict of the trail search, from its statistics *)

\* It has one line, before which nothing was cleared.
LEMMA OneTrailLine ==
    ASSUME IInv, Name = "trail_search", ~AllPrinted
    PROVE  ~bad => all_ok
<1>1. Len(LineRounds(Name)) = 1
    BY DEF LineRounds
<1>2. line \in Nat \ {0} /\ ~(line > Len(LineRounds(Name)))
    BY DEF AllPrinted, IInv
<1>3. line = 1
    BY <1>1, <1>2
<1> QED BY <1>3 DEF IInv

\* What it compares of the statistics is what it would of the trails.
LEMMA GainIsOfTrails ==
    ASSUME TrailsExact, Reporting({"trail_search"})
    PROVE  stats.all[MixRounds].minimum_weight
               >= stats.all[1].minimum_weight + 128
           <=> Lightest(MixRounds) >= Lightest(1) + 128
<1>1. ASSUME NEW r \in 1..MixRounds
      PROVE  stats.all[r].minimum_weight = Lightest(r)
    <2> DEFINE pairs == [i \in DOMAIN taken |-> taken[i].pairs[r]]
    <2>1. PairsMean(stats.all[r], pairs, DOMAIN taken, 512, 8)
        BY Zenon DEF TrailsExact, RoundExact
    <2>2. stats.all[r].minimum_weight
              = Min({pairs[i].weight : i \in DOMAIN taken} \cup {512})
        <3> HIDE DEF pairs
        <3> QED BY <2>1, Zenon DEF PairsMean
    <2>3. {pairs[i].weight : i \in DOMAIN taken}
              = {taken[i].pairs[r].weight : i \in DOMAIN taken}
        OBVIOUS
    <2> QED BY <2>2, <2>3, Zenon DEF Lightest
<1>2. 1 \in 1..MixRounds /\ MixRounds \in 1..MixRounds
    BY CryptanalysisAssumption
<1> QED BY <1>1, <1>2, Zenon

\* No other step of the check prints a line.
LEMMA TrailLineIsReported ==
    ASSUME IInv, Next, check \in DOMAIN Checks, line' = line + 1,
           Name = "trail_search"
    PROVE  ReportTrails
<1>1. line \in Nat \ {0} /\ ~(line = line + 1) /\ ~(1 = line + 1)
    BY DEF IInv
<1>2. \A names : Comparing(names) \/ Reporting(names) => Name \in names
    BY Zenon DEF Comparing, Reporting, In
<1>3. ~CompareTrail
    <2>1. \A passed : ~Return(passed)
        BY <1>1, Zenon DEF Return
    <2>2. \A seen, counted, unusual : ~Compare(seen, counted, unusual)
        BY <1>1, Zenon DEF Compare
    <2> QED BY <2>1, <2>2, Zenon DEF CompareTrail
<1>4. ~ReturnAll /\ ~Exited
    BY <1>1, Zenon DEF ReturnAll, Return, Exited, vars
<1>5. /\ ~DifferentialBias /\ ~ReducedRoundSearch /\ ~RotationalPair
      /\ ~AdditiveDifferential /\ ~RelatedContext
    BY <1>2 DEF DifferentialBias, ReducedRoundSearch, RotationalPair,
                AdditiveDifferential, RelatedContext, ComparePair, ReportPairs
<1>6. /\ ~CheckLinear /\ ~CheckProbability /\ ~CheckRoundtrip
      /\ ~CheckRebound /\ ~CheckMitm /\ ~CheckOutputs
      /\ ~CheckFixedPoints /\ ~CheckNearCollisions
    BY <1>2 DEF CheckLinear, CheckProbability, CheckRoundtrip, CheckRebound,
                CheckMitm, CheckOutputs, CheckFixedPoints, CheckNearCollisions
<1> QED BY <1>3, <1>4, <1>5, <1>6 DEF Next

\* So the line of the trail search, with no FAIL, clears all_ok for too small a
\* gain and for nothing else.
LEMMA TrailLineTells ==
    ASSUME IInv, TrailsExact, Next, check \in DOMAIN Checks,
           line' = line + 1, Name = "trail_search", ~bad'
    PROVE  all_ok' <=> Lightest(MixRounds) >= Lightest(1) + 128
<1> DEFINE Lines(even) ==
        /\ \A r \in 1..MixRounds : GoodTrail(stats.all[r], r, even)
        /\ \A p \in Patterns, r \in Reports :
               GoodTrail(stats.of[p][r], r, TRUE)
    Gain == stats.all[MixRounds].minimum_weight
                >= stats.all[1].minimum_weight + 128
<1>1. ReportTrails
    BY TrailLineIsReported
<1>2. PICK even \in BOOLEAN : PrintLines(Lines(even), Gain)
    BY <1>1, Zenon DEF ReportTrails
<1>3. Reporting({"trail_search"})
    BY <1>1, Zenon DEF ReportTrails
<1>4. Gain <=> Lightest(MixRounds) >= Lightest(1) + 128
    BY <1>3, GainIsOfTrails
<1>5. ~bad => all_ok
    BY <1>3, OneTrailLine, Zenon DEF Reporting
<1> HIDE DEF Lines, Gain
<1>6. /\ all_ok' = (all_ok /\ (Lines(even) /\ Gain))
      /\ bad' = (bad \/ ~Lines(even))
    BY <1>2, Zenon DEF PrintLines, AllOk
<1> QED BY <1>4, <1>5, <1>6, Zenon

\* A check that passes has printed all its lines, none is FAIL, and each was
\* printed after all the comparisons it counts; the trail search with no FAIL
\* fails exactly when its trails gain too little weight; and the program
\* succeeds exactly when all checks have passed: for any samples, candidates,
\* limits and rounds, and whatever the function returns.
THEOREM VerdictsTell == Spec => PassCoversReport
<1> DEFINE Step ==
       /\ line' = line + 1 =>
              /\ step = Comparisons(Name) \/ bad'
              /\ Name = "trail_search" /\ ~bad' =>
                     (all_ok' <=> Lightest(MixRounds) >= Lightest(1) + 128)
       /\ check' # check =>
              /\ ok' => ok /\ all_ok /\ ~bad /\ AllPrinted
              /\ ok /\ ~bad /\ AllPrinted =>
                     ok' \/ (Name = "trail_search" /\ ~all_ok)
       /\ check' > Len(Checks) => (exit_code' = 0 <=> ok')
<1>1. IInv /\ StatisticsExact /\ [Next]_vars => [Step]_vars
    <2> SUFFICES ASSUME IInv, StatisticsExact, Next PROVE Step \/ UNCHANGED vars
        OBVIOUS
    <2>1. CASE UNCHANGED verdict
        <3>1. line' = line /\ check' = check /\ ok' = ok /\ exit_code' = exit_code
            BY <2>1 DEF verdict
        <3>2. ~(line' = line + 1)
            BY <3>1 DEF IInv
        <3>3. Len(Checks)' = Len(Checks)
            BY DEF Checks
        <3> QED BY <3>1, <3>2, <3>3 DEF IInv
    <2>2. CASE Printed
        <3>1. check' = check /\ (step = Comparisons(Name) \/ bad')
            BY <2>2, Zenon DEF Printed, PrintLines
        <3>2. ~(check > Len(Checks)) /\ Len(Checks)' = Len(Checks)
            BY <2>2, ChecksLength DEF Printed, Checks
        <3>3. line' = line + 1 /\ Name = "trail_search" /\ ~bad' =>
                  (all_ok' <=> Lightest(MixRounds) >= Lightest(1) + 128)
            BY <2>2, TrailLineTells, Zenon DEF Printed, StatisticsExact
        <3> QED
            BY <3>1, <3>2, <3>3, Zenon
    <2>3. CASE Returned
        <3>1. ~(line' = line + 1)
            BY <2>3, ReturnSets DEF IInv
        <3>2. check' > Len(Checks) => ~(check < Len(Checks))
            BY <2>3, ReturnSets, ChecksLength
        <3>3. check' > Len(Checks) => (exit_code' = 0 <=> ok')
            <4>1. 1 # 0
                OBVIOUS
            <4> QED
                BY <2>3, <3>2, <4>1, ReturnSets, Zenon
        <3>4. check \in DOMAIN Checks
            BY <2>3, Zenon DEF Returned
        <3>5. /\ ok' => ok /\ all_ok /\ ~bad /\ AllPrinted
              /\ ok /\ ~bad /\ AllPrinted =>
                     ok' \/ (Name = "trail_search" /\ ~all_ok)
            BY <2>3, <3>4, ReturnSets, Zenon DEF IInv
        <3> QED
            BY <3>1, <3>3, <3>5, Zenon
    <2> QED
        BY <2>1, <2>2, <2>3, StepKinds
<1>2. QED
    BY <1>1, InvInit, InvPreserved, StatisticsTell, PTL DEF Spec, PassCoversReport

-----------------------------------------------------------------------------
(* Runs in which nothing is out of the ordinary *)

\* What was compared for a line when nothing was.
Ordinary(name, rounds, n, t, s) ==
    /\ name \in PairChecks => \A i \in 1..n : t[i] = Usual(rounds)
    /\ name = "trail_search" => \A i \in 1..n : t[i].pairs = UsualTrail
    /\ name = "differential_probability" =>
           \A i \in 1..n : t[i].value = (i - 1) % Samples /\ ~t[i].zero
    /\ name = "rebound" =>
           /\ \A i \in 1..n : t[i].middle = Wide /\ t[i].end = Wide
           /\ s.low_middle = 0
    /\ name = "mitm" /\ n = 1 =>
           /\ {t[1].forward, t[1].backward}
                  \subseteq [0..(MitmCandidates - 1) -> TableStates]
           /\ t[1].backward[MitmTarget] = t[1].forward[MitmTarget]
           /\ ~OddJoin(t[1].forward, t[1].backward)
    /\ name = "output_only" /\ n = 1 =>
           /\ t[1].outputs \in [0..(OutputCandidates - 1) -> TableStates]
           /\ ~OddOutputs(t[1].outputs, t[1].unplanted)
    /\ name = "fixed_point" => s = FreshStats("fixed_point")
    /\ name = "near_collision" /\ n = 1 =>
           s.collisions256 = 0 /\ s.collisions512 = 0

\* The inductive invariant of a run without misfortune.
Uneventful ==
    ~odd => /\ ok /\ all_ok
            /\ check \in DOMAIN Checks =>
                   Ordinary(Name, Rounds, step, taken, stats)

\* A line starts with nothing compared.
LEMMA FreshOrdinary ==
    ASSUME NEW name \in CheckNames, NEW rounds, NEW t
    PROVE  Ordinary(name, rounds, 0, t, FreshStats(name))
<1>1. 1..0 = {} /\ 0 # 1
    OBVIOUS
<1>2. ASSUME name = "rebound" PROVE FreshStats(name).low_middle = 0
    <2>1. FreshStats(name) = [middle |-> EmptyStats(1024, 16), low_middle |-> 0,
                              end |-> EmptyStats(1024, 16)]
        BY <1>2 DEF FreshStats
    <2> QED BY <2>1
<1> QED BY <1>1, <1>2 DEF Ordinary

\* Every line asks for rounds the compression function takes, whole or in parts.
LEMMA RoundsOf ==
    ASSUME NEW name \in CheckNames, NEW l \in Nat \ {0}, ~(l > Len(LineRounds(name)))
    PROVE  /\ CoreTakes(LineRounds(name)[l])
           /\ name = "differential_bias" => LineRounds(name)[l] >= 2
           /\ name = "rebound" =>
                  LET r == LineRounds(name)[l]
                      split == r \div 2
                  IN  WindowTaken(0, split) /\ WindowTaken(split, r - split)
           /\ name = "mitm" =>
                  LET r == LineRounds(name)[l]
                      split == MitmSplits[l]
                  IN  /\ WindowTaken(0, r) /\ WindowTaken(0, split)
                      /\ WindowTaken(split, r - split)
<1> DEFINE q == LineRounds(name)
<1>0. MixRounds = 16 /\ ReducedRounds \in 2..15
    BY SizesAre
<1>1. CASE name \in {"differential_bias", "linear_correlation"}
    <2>1. q = << ReducedRounds, MixRounds >>
        BY <1>1 DEF LineRounds
    <2>2. Len(q) = 2 /\ q[1] = ReducedRounds /\ q[2] = MixRounds
        BY <2>1
    <2>3. l \in 1..2
        BY <2>2
    <2> QED BY <1>0, <1>1, <2>2, <2>3 DEF CoreTakes
<1>2. CASE name = "reduced_round"
    <2>1. q = [r \in 1..MixRounds |-> r]
        BY <1>2 DEF LineRounds
    <2>2. Len(q) = 16
        <3>1. q \in Seq(Nat) /\ DOMAIN q = 1..16
            BY <1>0, <2>1
        <3> QED BY <3>1, LenProperties
    <2>3. l \in 1..16 /\ q[l] = l
        BY <1>0, <2>1, <2>2
    <2> QED BY <1>0, <1>2, <2>3 DEF CoreTakes
<1>3. CASE name \in {"rotational_pair", "additive_differential",
                     "differential_probability", "related_context"}
    <2>1. q = << 1, 2, 4, ReducedRounds, MixRounds >>
        BY <1>3 DEF LineRounds
    <2>2. /\ Len(q) = 5 /\ q[1] = 1 /\ q[2] = 2 /\ q[3] = 4
          /\ q[4] = ReducedRounds /\ q[5] = MixRounds
        BY <2>1
    <2>3. l \in 1..5
        BY <2>2
    <2> QED BY <1>0, <1>3, <2>2, <2>3 DEF CoreTakes
<1>4. CASE name = "rebound"
    <2>1. q = << 4, 8, 16 >>
        BY <1>4 DEF LineRounds
    <2>2. Len(q) = 3 /\ q[1] = 4 /\ q[2] = 8 /\ q[3] = 16
        BY <2>1
    <2>3. l \in 1..3
        BY <2>2
    <2>4. q[l] \in {4, 8, 16}
        BY <2>2, <2>3
    <2> QED BY <1>0, <1>4, <2>4 DEF CoreTakes, WindowTaken
<1>5. CASE name = "mitm"
    <2>1. q = << 8, 16, 16, 16, 16, 16 >>
        BY <1>5 DEF LineRounds
    <2>2. /\ Len(q) = 6 /\ q[1] = 8
          /\ \A i \in 2..6 : q[i] = 16
        BY <2>1
    <2>3. l \in 1..6
        BY <2>2
    <2>4. /\ MitmSplits[1] = 4 /\ MitmSplits[2] = 1 /\ MitmSplits[3] = 4
          /\ MitmSplits[4] = 8 /\ MitmSplits[5] = 12 /\ MitmSplits[6] = 15
        BY DEF MitmSplits
    <2>5. MitmSplits[l] \in 1..15 /\ (q[l] = 16 \/ (q[l] = 8 /\ MitmSplits[l] = 4))
        BY <2>2, <2>3, <2>4
    <2>6. ASSUME NEW r \in {8, 16}, NEW split \in 1..15, split < r
          PROVE  /\ WindowTaken(0, r) /\ WindowTaken(0, split)
                 /\ WindowTaken(split, r - split)
        BY <1>0, <2>6 DEF WindowTaken
    <2>7. q[l] \in {8, 16} /\ MitmSplits[l] \in 1..15 /\ MitmSplits[l] < q[l]
        BY <2>5
    <2>8. CoreTakes(q[l])
        BY <1>0, <2>7 DEF CoreTakes
    <2> HIDE DEF q
    <2>9. /\ WindowTaken(0, q[l]) /\ WindowTaken(0, MitmSplits[l])
          /\ WindowTaken(MitmSplits[l], q[l] - MitmSplits[l])
        BY <2>6, <2>7
    <2>10. name # "differential_bias" /\ name # "rebound"
        BY <1>5
    <2> QED BY <2>8, <2>9, <2>10, Zenon DEF q
<1>6. CASE name = "output_only"
    <2>1. q = << 4, ReducedRounds, MixRounds >>
        BY <1>6 DEF LineRounds
    <2>2. Len(q) = 3 /\ q[1] = 4 /\ q[2] = ReducedRounds /\ q[3] = MixRounds
        BY <2>1
    <2>3. l \in 1..3
        BY <2>2
    <2> QED BY <1>0, <1>6, <2>2, <2>3 DEF CoreTakes
<1>7. CASE name \in {"trail_search", "roundtrip", "fixed_point", "near_collision"}
    <2>1. q = << MixRounds >>
        BY <1>7 DEF LineRounds
    <2>2. Len(q) = 1 /\ q[1] = MixRounds
        BY <2>1
    <2>3. l = 1
        BY <2>2
    <2> QED BY <1>0, <1>7, <2>2, <2>3 DEF CoreTakes
<1> QED BY <1>1, <1>2, <1>3, <1>4, <1>5, <1>6, <1>7 DEF CheckNames

\* No check compares equal inputs.
LEMMA InputsDiffer ==
    /\ \A c \in 0..3 : {} # {DifferentialBits[c + 1]}
    /\ \A c \in 0..5 : 0 # RotationAmounts[c + 1] % 64
    /\ \A c \in 0..3 : {} # Deltas[c + 1]
    /\ \A c \in 0..7 : RelatedContexts[c + 1][1] # RelatedContexts[c + 1][2]
    /\ \A c \in 0..7 : Characteristic(c) # {}
<1>1. \A c \in 0..5 : 0 # RotationAmounts[c + 1] % 64
    <2>1. /\ RotationAmounts[1] = 1 /\ RotationAmounts[2] = 8
          /\ RotationAmounts[3] = 16 /\ RotationAmounts[4] = 24
          /\ RotationAmounts[5] = 32 /\ RotationAmounts[6] = 63
        BY DEF RotationAmounts
    <2>2. \A a \in 1..63 : 0 # a % 64
        OBVIOUS
    <2>3. \A c \in 0..5 : c + 1 \in 1..6
        OBVIOUS
    <2>4. \A c \in 1..6 : RotationAmounts[c] \in 1..63
        BY <2>1
    <2> QED BY <2>2, <2>3, <2>4
<1>2. \A c \in 0..3 : {} # Deltas[c + 1]
    BY DEF Deltas
<1>3. \A c \in 0..7 : RelatedContexts[c + 1][1] # RelatedContexts[c + 1][2]
    <2>1. \A a, b, c, d, e, f : a # d \/ b # e \/ c # f =>
              Context(a, b, c) # Context(d, e, f)
        BY DEF Context
    <2>2. {"leaf data"} # {"leaf header"}
        OBVIOUS
    <2>3. /\ RelatedContexts[1] = << Context("n", "leaf", {"leaf data"}),
                   Context("n + 1", "leaf", {"leaf data"}) >>
          /\ RelatedContexts[2] = << Context("n", "leaf", {"leaf data"}),
                   Context("n ^ top", "leaf", {"leaf data"}) >>
          /\ RelatedContexts[3] = << Context("n", "leaf", {"leaf data"}),
                   Context("n", "node", {"node child"}) >>
          /\ RelatedContexts[4] = << Context("n", "leaf", {"leaf data"}),
                   Context("n", "output 256", {"output", "final"}) >>
          /\ RelatedContexts[5] = << Context("n", "output 256", {"output", "final"}),
                   Context("n", "output 512", {"output", "final"}) >>
          /\ RelatedContexts[6] = << Context("n", "leaf", {"leaf data"}),
                   Context("n", "leaf", {"leaf header"}) >>
          /\ RelatedContexts[7] = << Context("n", "leaf", {"leaf data"}),
                   Context("n", "leaf ^ 1", {"leaf data"}) >>
          /\ RelatedContexts[8] = << Context("n", "leaf", {"leaf data"}),
                   Context("n + 1", "leaf ^ 1", {"node child"}) >>
        BY DEF RelatedContexts
    <2>4. \A c \in 1..8 : RelatedContexts[c][1] # RelatedContexts[c][2]
        <3> DEFINE Differ(c) == RelatedContexts[c][1] # RelatedContexts[c][2]
        <3>1. \A c, x, y : RelatedContexts[c] = <<x, y>> /\ x # y => Differ(c)
            OBVIOUS
        <3> HIDE DEF Differ
        <3>2. /\ Context("n", "leaf", {"leaf data"})
                  # Context("n + 1", "leaf", {"leaf data"})
              /\ Context("n", "leaf", {"leaf data"})
                  # Context("n ^ top", "leaf", {"leaf data"})
              /\ Context("n", "leaf", {"leaf data"})
                  # Context("n", "node", {"node child"})
              /\ Context("n", "leaf", {"leaf data"})
                  # Context("n", "output 256", {"output", "final"})
              /\ Context("n", "output 256", {"output", "final"})
                  # Context("n", "output 512", {"output", "final"})
              /\ Context("n", "leaf", {"leaf data"})
                  # Context("n", "leaf", {"leaf header"})
              /\ Context("n", "leaf", {"leaf data"})
                  # Context("n", "leaf ^ 1", {"leaf data"})
              /\ Context("n", "leaf", {"leaf data"})
                  # Context("n + 1", "leaf ^ 1", {"node child"})
            BY <2>1, <2>2
        <3>3. /\ Differ(1) /\ Differ(2) /\ Differ(3) /\ Differ(4)
              /\ Differ(5) /\ Differ(6) /\ Differ(7) /\ Differ(8)
            BY <2>3, <3>1, <3>2, Zenon
        <3>4. \A c \in 1..8 : c = 1 \/ c = 2 \/ c = 3 \/ c = 4 \/ c = 5 \/ c = 6
                              \/ c = 7 \/ c = 8
            OBVIOUS
        <3>5. \A c \in 1..8 : Differ(c)
            BY <3>3, <3>4, Zenon
        <3> QED BY <3>5 DEF Differ
    <2>5. \A c \in 0..7 : c + 1 \in 1..8
        OBVIOUS
    <2> QED BY <2>4, <2>5, Zenon
<1>4. \A c \in 0..7 : Characteristic(c) # {}
    <2>1. \A c \in 1..8 : /\ CharacteristicBits[c][1] # CharacteristicBits[c][2]
        BY DEF CharacteristicBits, None
    <2>2. \A a, b : a # b => Flip(Flip({}, a), b) # {}
        BY DEF Flip
    <2>3. \A a : Flip({}, a) # {}
        BY DEF Flip
    <2>4. \A c \in 0..7 : c + 1 \in 1..8
        OBVIOUS
    <2> QED BY <2>1, <2>2, <2>3, <2>4 DEF Characteristic
<1> QED BY <1>1, <1>2, <1>3, <1>4

\* So no step is refused.
LEMMA LineIsGood ==
    ASSUME IInv, NEW names, Comparing(names) \/ Reporting(names)
    PROVE  /\ check \in DOMAIN Checks /\ Name \in names /\ Name \in CheckNames
           /\ CoreTakes(Rounds)
           /\ Name = "differential_bias" => Rounds >= 2
           /\ Name = "rebound" => /\ WindowTaken(0, Rounds \div 2)
                                  /\ WindowTaken(Rounds \div 2, Rounds - (Rounds \div 2))
           /\ Name = "mitm" => /\ WindowTaken(0, Rounds)
                               /\ WindowTaken(0, MitmSplits[line])
                               /\ WindowTaken(MitmSplits[line],
                                              Rounds - MitmSplits[line])
<1>1. check \in DOMAIN Checks /\ Name \in names /\ ~(line > Len(LineRounds(Name)))
    BY DEF Comparing, Reporting, In, AllPrinted
<1>2. Name \in CheckNames
    BY <1>1, NamesAre, ChecksLength DEF Name
<1>3. line \in Nat \ {0}
    BY DEF IInv
<1> QED BY <1>1, <1>2, <1>3, RoundsOf DEF Rounds

\* What a step has to keep when it compares, prints a line or ends a check.
LEMMA ComparedWell ==
    ASSUME Uneventful, NEW names, Comparing(names),
           NEW seen, NEW counted, NEW unusual, Compare(seen, counted, unusual),
           ~odd /\ ~unusual /\ Ordinary(Name, Rounds, step, taken, stats) =>
               Ordinary(Name, Rounds, step + 1, Append(taken, seen), counted)
    PROVE  Uneventful'
<1>1. /\ step' = step + 1 /\ taken' = Append(taken, seen) /\ stats' = counted
      /\ odd' = (odd \/ unusual) /\ check' = check /\ line' = line
      /\ ok' = ok /\ all_ok' = all_ok
    BY DEF Compare
<1>2. Name' = Name /\ Rounds' = Rounds /\ check \in DOMAIN Checks
    BY <1>1 DEF Name, Rounds, Comparing, In
<1>3. SUFFICES ASSUME ~odd' PROVE /\ ok' /\ all_ok'
                                  /\ Ordinary(Name', Rounds', step', taken', stats')
    BY DEF Uneventful
<1>4. ~odd /\ ~unusual
    BY <1>1, <1>3
<1> QED BY <1>1, <1>2, <1>4 DEF Uneventful

\* A line that is not FAIL.
LEMMA PrintedWell ==
    ASSUME Uneventful, IInv, NEW names, Comparing(names) \/ Reporting(names),
           NEW lines, NEW rest, PrintLines(lines, rest),
           ~odd' => ~odd /\ lines /\ rest
    PROVE  Uneventful'
<1>1. /\ step' = 0 /\ taken' = << >> /\ stats' = FreshStats(Name)
      /\ all_ok' = (all_ok /\ (lines /\ rest)) /\ ok' = ok /\ check' = check
    BY DEF PrintLines, AllOk
<1>2. Name' = Name /\ Name \in CheckNames
    BY <1>1, LineIsGood DEF Name
<1>3. Ordinary(Name', Rounds', step', taken', stats')
    BY <1>1, <1>2, FreshOrdinary
<1> QED BY <1>1, <1>3 DEF Uneventful

LEMMA ReportedWell ==
    ASSUME Uneventful, IInv, NEW names, Reporting(names), NEW good, PrintLine(good),
           ~odd' => ~odd /\ good
    PROVE  Uneventful'
<1>1. PrintLines(good, TRUE)
    BY DEF PrintLine
<1> QED BY <1>1, PrintedWell

\* A check that returns after its last line.
LEMMA ReturnedWell ==
    ASSUME Uneventful, ReturnAll
    PROVE  Uneventful'
<1>1. /\ check \in DOMAIN Checks /\ Return(all_ok) /\ odd' = odd
    BY DEF ReturnAll, In
<1>2. /\ check' = check + 1 /\ step' = 0 /\ taken' = << >>
      /\ check < Len(Checks) => stats' = FreshStats(Checks[check + 1])
      /\ all_ok' = TRUE /\ ok' = (ok /\ all_ok)
    BY <1>1 DEF Return
<1>3. ASSUME check' \in DOMAIN Checks
      PROVE  Ordinary(Name', Rounds', step', taken', stats')
    <2>1. check < 14 /\ check + 1 \in 1..14 /\ check < Len(Checks)
        BY <1>1, <1>2, <1>3, ChecksLength
    <2>2. Checks[check + 1] \in CheckNames /\ Name' = Checks[check + 1]
        BY <1>2, <2>1, NamesAre DEF Name
    <2>3. \A rounds : Ordinary(Checks[check + 1], rounds, 0, << >>,
                               FreshStats(Checks[check + 1]))
        BY <2>2, FreshOrdinary
    <2> QED BY <1>2, <2>1, <2>2, <2>3
<1>4. Checks' = Checks
    BY DEF Checks
<1> QED BY <1>1, <1>2, <1>3, <1>4 DEF Uneventful

\* After something odd everything may happen.
LEMMA OddlyFailed ==
    ASSUME odd'
    PROVE  Uneventful'
BY DEF Uneventful

\* One more ordinary comparison.
LEMMA OneMoreOf ==
    ASSUME Told, NEW names, Comparing(names), NEW seen
    PROVE  /\ step \in Nat /\ step < Comparisons(Name)
           /\ \A i \in 1..step : Append(taken, seen)[i] = taken[i]
           /\ Append(taken, seen)[step + 1] = seen
           /\ \A i \in 1..(step + 1) : i \in 1..step \/ i = step + 1
<1>1. step \in Nat /\ step < Comparisons(Name) /\ Rows(taken, step)
    BY DEF Told, Tells, Comparing, In
<1>2. Grown(Append(taken, seen), taken, step, seen)
    BY <1>1, RowsGrow
<1>3. /\ \A i \in 1..step : Append(taken, seen)[i] = taken[i]
      /\ Append(taken, seen)[step + 1] = seen
    BY <1>2, Zenon DEF Grown
<1>4. \A i \in 1..(step + 1) : i \in 1..step \/ i = step + 1
    BY <1>1
<1> QED BY <1>1, <1>3, <1>4, Zenon

\* The statistics of pairs that are all alike.
LEMMA EvenMeans ==
    ASSUME NEW among, NEW pairs, NEW width, NEW words, NEW weight \in Nat \ {0},
           NEW s, Means(s, pairs, among, width, words),
           \A i \in among : pairs[i].weight = weight /\ pairs[i].active = words
    PROVE  /\ s.zero_differences = 0
           /\ s.minimum_weight = weight \/ s.minimum_weight = width
           /\ s.maximum_weight = weight \/ s.maximum_weight = 0
           /\ s.minimum_active_words = words
<1>1. ZerosOf(pairs, among) = {}
    BY DEF ZerosOf
<1>2. s.zero_differences = 0
    BY <1>1, FS_EmptySet DEF Means
<1> QED BY <1>2 DEF Means

\* Where a comparison is in the loops of its check.
LEMMA CaseIs ==
    ASSUME NEW k \in Nat, step \in Nat, step < k * Samples
    PROVE  Case \in 0..(k - 1) /\ Sample \in 0..(Samples - 1)
<1> DEFINE b == Samples
           q == step \div b
           r == step % b
<1>1. b \in Nat \ {0}
    BY SizesAre
<1>2. q \in Nat /\ r \in 0..(b - 1) /\ step = b * q + r
    BY <1>1, DivMod
<1>3. step < k * b
    OBVIOUS
<1> HIDE DEF q, r, b
<1>4. ASSUME k <= q PROVE FALSE
    <2> DEFINE whole == k * b
               there == b * q
    <2>1. whole <= there /\ whole \in Nat /\ there \in Nat
        <3>1. k * b <= q * b /\ q * b = b * q
            BY <1>1, <1>2, <1>4, TimesMonotone
        <3> QED BY <1>1, <1>2, <3>1
    <2>2. step = there + r /\ step < whole
        BY <1>2, <1>3
    <2> HIDE DEF whole, there
    <2> QED BY <1>1, <1>2, <2>1, <2>2
<1>5. q \in 0..(k - 1)
    BY <1>2, <1>4
<1> QED BY <1>2, <1>5 DEF Case, Sample, q, r, b

\* A usual pair is one more pair like the others.
LEMMA CountedWell ==
    ASSUME Told, Uneventful, NEW names, Comparing(names), Name \in PairChecks,
           NEW inputs, inputs[1] # inputs[2],
           NEW pair \in Outputs(inputs, Rounds, Oddities), CountPair(pair, inputs)
    PROVE  Uneventful'
<1> DEFINE counted == Record(stats, pair, <<Case, 0, Sample, 0>>)
           u == Append(taken, pair)
<1>1. Compare(pair, counted, OddPair(pair, inputs))
    BY DEF CountPair
<1>2. ASSUME ~OddPair(pair, inputs), Ordinary(Name, Rounds, step, taken, stats)
      PROVE  Ordinary(Name, Rounds, step + 1, u, counted)
    <2>1. pair = Usual(Rounds)
        BY <1>2 DEF OddPair
    <2>2. \A i \in 1..step : taken[i] = Usual(Rounds)
        BY <1>2 DEF Ordinary
    <2>3. \A i \in 1..(step + 1) : u[i] = Usual(Rounds)
        BY <2>1, <2>2, OneMoreOf
    <2>4. Name \notin {"trail_search", "differential_probability", "rebound",
                       "mitm", "output_only", "fixed_point", "near_collision"}
        BY DEF PairChecks
    <2> HIDE DEF u, counted
    <2> QED BY <2>3, <2>4 DEF Ordinary
<1> HIDE DEF counted
<1> QED BY <1>1, <1>2, ComparedWell

LEMMA ComparedPairWell ==
    ASSUME Told, Uneventful, IInv, NEW name \in PairChecks,
           NEW inputs, Comparing({name}) => inputs[1] # inputs[2],
           ComparePair(name, inputs)
    PROVE  Uneventful'
<1>1. Comparing({name}) /\ Name = name
    BY DEF ComparePair, Comparing, In
<1>2. CoreTakes(Rounds)
    BY <1>1, LineIsGood
<1>3. PICK pair \in Outputs(inputs, Rounds, Oddities) : CountPair(pair, inputs)
    BY <1>2 DEF ComparePair
<1> QED BY <1>1, <1>3, CountedWell

\* The pairs of a line are good when all are usual.
LEMMA PairsAreGood ==
    ASSUME Told, Uneventful, ~odd, IInv, NEW name \in PairChecks, Reporting({name})
    PROVE  /\ stats.zero_differences = 0 /\ stats.minimum_active_words = 8
           /\ Rounds # 1 => stats.minimum_weight >= 160 /\ stats.maximum_weight <= 352
<1> DEFINE width == 512
           words == 8
           among == 1..step
           weight == Usual(Rounds).weight
<1>1. check \in DOMAIN Checks /\ Name = name
    BY DEF Reporting, In
<1>2. Means(stats, taken, among, width, words)
    BY <1>1, ReportedTells DEF Tells
<1>3. \A i \in among : taken[i] = Usual(Rounds)
    BY <1>1 DEF Uneventful, Ordinary
<1>4. /\ Usual(Rounds).active = words
      /\ weight \in {120, 256} /\ weight \in Nat \ {0}
      /\ Rounds # 1 => weight = 256
    BY DEF Usual, Pair
<1>5. \A i \in among : taken[i].weight = weight /\ taken[i].active = words
    BY <1>3, <1>4
<1> HIDE DEF width, words, among, weight
<1>6. /\ stats.zero_differences = 0
      /\ stats.minimum_weight = weight \/ stats.minimum_weight = width
      /\ stats.maximum_weight = weight \/ stats.maximum_weight = 0
      /\ stats.minimum_active_words = words
    BY <1>2, <1>4, <1>5, EvenMeans
<1>7. ASSUME Rounds # 1
      PROVE  stats.minimum_weight >= 160 /\ stats.maximum_weight <= 352
    <2>1. weight = 256
        BY <1>4, <1>7
    <2> QED BY <1>6, <2>1 DEF width
<1> QED BY <1>6, <1>7 DEF words

\* The checks of pairs, each step.
LEMMA DifferentialWell ==
    ASSUME Told, Uneventful, IInv, DifferentialBias
    PROVE  Uneventful'
<1> DEFINE inputs == << {}, {DifferentialBits[Case + 1]} >>
<1>0. "differential_bias" \in PairChecks
    BY DEF PairChecks
<1>1. CASE ReportPairs("differential_bias",
                   LAMBDA s, even : /\ even /\ s.minimum_weight >= 160
                                    /\ s.maximum_weight <= 352)
    <2>1. PICK even \in BOOLEAN :
              /\ odd' = (odd \/ ~even)
              /\ PrintLine(/\ even /\ stats.minimum_weight >= 160
                           /\ stats.maximum_weight <= 352)
        BY <1>1 DEF ReportPairs
    <2>2. Reporting({"differential_bias"})
        BY <1>1 DEF ReportPairs
    <2>3. Rounds # 1
        <3>1. Name = "differential_bias"
            BY <2>2 DEF Reporting, In
        <3> QED BY <2>2, <3>1, LineIsGood
    <2>4. ~odd' => /\ ~odd
                   /\ even /\ stats.minimum_weight >= 160 /\ stats.maximum_weight <= 352
        BY <1>0, <2>1, <2>2, <2>3, PairsAreGood
    <2> QED BY <2>1, <2>2, <2>4, ReportedWell
<1>2. CASE ~ReportPairs("differential_bias",
                   LAMBDA s, even : /\ even /\ s.minimum_weight >= 160
                                    /\ s.maximum_weight <= 352)
    <2>1. Comparing({"differential_bias"}) /\ Name = "differential_bias"
        BY <1>2 DEF DifferentialBias, Comparing, In
    <2>2. CoreTakes(Rounds)
        BY <2>1, LineIsGood
    <2>3. PICK pair \in Outputs(inputs, Rounds, Oddities) :
              IF pair.weight = 0
              THEN odd' = (odd \/ OddPair(pair, inputs)) /\ Return(FALSE)
              ELSE CountPair(pair, inputs)
        BY <1>2, <2>2 DEF DifferentialBias
    <2>4. inputs[1] # inputs[2]
        OBVIOUS
    <2>5. CASE pair.weight = 0
        <3>1. Usual(Rounds).weight # 0
            BY DEF Usual, Pair
        <3>2. OddPair(pair, inputs)
            BY <2>4, <2>5, <3>1 DEF OddPair
        <3>3. odd'
            BY <2>3, <2>5, <3>2
        <3> QED BY <3>3, OddlyFailed
    <2>6. CASE pair.weight # 0
        <3>1. CountPair(pair, inputs)
            BY <2>3, <2>6
        <3> HIDE DEF inputs
        <3> QED BY <1>0, <2>1, <2>3, <2>4, <3>1, CountedWell
    <2> QED BY <2>5, <2>6
<1> QED BY <1>1, <1>2

\* Weak is good for usual pairs.
LEMMA WeakIsGood ==
    ASSUME Told, Uneventful, ~odd, IInv, NEW name \in PairChecks, Reporting({name})
    PROVE  Weak(stats, TRUE)
BY PairsAreGood DEF Weak, Near

LEMMA WeakLinesWell ==
    ASSUME Told, Uneventful, IInv, NEW name \in PairChecks, ReportPairs(name, Weak)
    PROVE  Uneventful'
<1>1. PICK even \in BOOLEAN : odd' = (odd \/ ~even) /\ PrintLine(Weak(stats, even))
    BY DEF ReportPairs
<1>2. Reporting({name})
    BY DEF ReportPairs
<1>3. ASSUME ~odd' PROVE ~odd /\ Weak(stats, even)
    <2>1. ~odd /\ even = TRUE
        BY <1>1, <1>3
    <2>2. Weak(stats, TRUE)
        BY <1>2, <2>1, WeakIsGood
    <2> QED BY <2>1, <2>2
<1> QED BY <1>1, <1>2, <1>3, ReportedWell

LEMMA ReducedWell ==
    ASSUME Told, Uneventful, IInv, ReducedRoundSearch
    PROVE  Uneventful'
<1>0. "reduced_round" \in PairChecks
    BY DEF PairChecks
<1>1. CASE ComparePair("reduced_round", << {}, {Sample} >>)
    <2> DEFINE inputs == << {}, {Sample} >>
    <2>1. inputs[1] # inputs[2]
        OBVIOUS
    <2> HIDE DEF inputs
    <2>2. ComparePair("reduced_round", inputs)
        BY <1>1 DEF inputs
    <2> QED BY <1>0, <2>1, <2>2, ComparedPairWell
<1>2. CASE ~ComparePair("reduced_round", << {}, {Sample} >>)
    <2>1. PICK even \in BOOLEAN :
              /\ odd' = (odd \/ ~even)
              /\ PrintLine(/\ stats.zero_differences = 0
                           /\ Rounds >= 2 => even /\ stats.minimum_weight >= 160)
        BY <1>2 DEF ReducedRoundSearch, ReportPairs
    <2>2. Reporting({"reduced_round"})
        BY <1>2 DEF ReducedRoundSearch, ReportPairs
    <2>3. ~odd' => /\ ~odd
                   /\ stats.zero_differences = 0
                   /\ Rounds >= 2 => even /\ stats.minimum_weight >= 160
        <3> SUFFICES ASSUME ~odd'
                     PROVE  /\ ~odd
                            /\ stats.zero_differences = 0
                            /\ Rounds >= 2 => even /\ stats.minimum_weight >= 160
            OBVIOUS
        <3>1. ~odd /\ even = TRUE
            BY <2>1
        <3>2. /\ stats.zero_differences = 0
              /\ Rounds # 1 => stats.minimum_weight >= 160
            BY <1>0, <2>2, <3>1, PairsAreGood
        <3>3. Rounds >= 2 => Rounds # 1
            OBVIOUS
        <3> QED BY <3>1, <3>2, <3>3
    <2> QED BY <2>1, <2>2, <2>3, ReportedWell
<1> QED BY <1>1, <1>2

\* The three checks that have cases of different inputs.
LEMMA CasesWell ==
    ASSUME Told, Uneventful, IInv,
           RotationalPair \/ AdditiveDifferential \/ RelatedContext
    PROVE  Uneventful'
<1>0. {"rotational_pair", "additive_differential", "related_context"} \subseteq PairChecks
    BY DEF PairChecks
<1>1. ASSUME NEW name \in {"rotational_pair", "additive_differential", "related_context"},
             Comparing({name})
      PROVE  Case \in 0..(Cases(name) - 1)
    <2>1. Name = name /\ step < Comparisons(name) /\ step \in Nat
        BY <1>1 DEF Comparing, In, Told, Tells
    <2>2. Comparisons(name) = Cases(name) * Samples /\ Cases(name) \in Nat
        BY <1>0, ComparisonsAre, CasesAre
    <2> QED BY <2>1, <2>2, CaseIs
<1>2. CASE ReportPairs("rotational_pair", Weak) \/ ReportPairs("additive_differential", Weak)
               \/ ReportPairs("related_context", Weak)
    BY <1>0, <1>2, WeakLinesWell, Zenon
<1>3. CASE ComparePair("rotational_pair", << 0, RotationAmounts[Case + 1] % 64 >>)
    <2> DEFINE inputs == << 0, RotationAmounts[Case + 1] % 64 >>
    <2>1. Comparing({"rotational_pair"}) => inputs[1] # inputs[2]
        BY <1>1, CasesAre, InputsDiffer
    <2> HIDE DEF inputs
    <2>2. ComparePair("rotational_pair", inputs)
        BY <1>3 DEF inputs
    <2> QED BY <1>0, <2>1, <2>2, ComparedPairWell
<1>4. CASE ComparePair("additive_differential", << {}, Deltas[Case + 1] >>)
    <2> DEFINE inputs == << {}, Deltas[Case + 1] >>
    <2>1. Comparing({"additive_differential"}) => inputs[1] # inputs[2]
        BY <1>1, CasesAre, InputsDiffer
    <2> HIDE DEF inputs
    <2>2. ComparePair("additive_differential", inputs)
        BY <1>4 DEF inputs
    <2> QED BY <1>0, <2>1, <2>2, ComparedPairWell
<1>5. CASE ComparePair("related_context", RelatedContexts[Case + 1])
    <2> DEFINE inputs == RelatedContexts[Case + 1]
    <2>1. Comparing({"related_context"}) => inputs[1] # inputs[2]
        BY <1>1, CasesAre, InputsDiffer
    <2> HIDE DEF inputs
    <2>2. ComparePair("related_context", inputs)
        BY <1>5 DEF inputs
    <2> QED BY <1>0, <2>1, <2>2, ComparedPairWell
<1> QED BY <1>2, <1>3, <1>4, <1>5, Zenon
        DEF RotationalPair, AdditiveDifferential, RelatedContext

\* The correlations, of which nothing is counted.
LEMMA LinearWell ==
    ASSUME Told, Uneventful, IInv, CheckLinear
    PROVE  Uneventful'
<1>1. CASE Comparing({"linear_correlation"}) /\ Compare("sample", stats, FALSE)
    <2>1. Name = "linear_correlation"
        BY <1>1 DEF Comparing, In
    <2>2. \A t, s : Ordinary(Name, Rounds, step + 1, t, s)
        BY <2>1 DEF Ordinary, PairChecks
    <2> QED BY <1>1, <2>2, ComparedWell
<1>2. CASE Comparing({"linear_correlation"}) /\ ~Compare("sample", stats, FALSE)
    <2>1. CoreTakes(Rounds)
        BY <1>2, LineIsGood
    <2>2. ~Reporting({"linear_correlation"})
        <3>1. Name = "linear_correlation" /\ step < Comparisons(Name)
            BY <1>2 DEF Comparing, In
        <3>2. step \in Nat
            BY <1>2 DEF Comparing, In, Told, Tells
        <3> QED BY <3>1, <3>2 DEF Reporting
    <2> QED BY <1>2, <2>1, <2>2 DEF CheckLinear
<1>3. CASE ~Comparing({"linear_correlation"})
    <2>1. PICK even \in BOOLEAN : odd' = (odd \/ ~even) /\ PrintLine(even)
        BY <1>3 DEF CheckLinear
    <2>2. Reporting({"linear_correlation"})
        BY <1>3 DEF CheckLinear
    <2>3. ~odd' => ~odd /\ even
        BY <2>1
    <2> QED BY <2>1, <2>2, <2>3, ReportedWell
<1> QED BY <1>1, <1>2, <1>3

\* In the samples of a case a projection whose values are all different has
\* each value once at most.
LEMMA ProbabilityIsGood ==
    ASSUME Told, Uneventful, ~odd, IInv, Reporting({"differential_probability"})
    PROVE  /\ stats.zero_differences = 0
           /\ stats.maximum_count <= ProjectionLimit
<1>1. check \in DOMAIN Checks /\ Name = "differential_probability" /\ step \in Nat
    BY ReportedTells DEF Reporting, In
<1>2. ProbabilityTells(step, taken, stats)
    BY <1>1, ReportedTells DEF Tells
<1>3. \A i \in 1..step : taken[i].value = (i - 1) % Samples /\ ~taken[i].zero
    BY <1>1 DEF Uneventful, Ordinary
<1>4. stats.zero_differences = 0
    <2>1. Vanished(taken, step) = {}
        BY <1>3 DEF Vanished
    <2> QED BY <1>2, <2>1, FS_EmptySet DEF ProbabilityTells
<1>5. ASSUME NEW c, NEW v
      PROVE  Cardinality(Met(taken, step, c, v)) <= 1
    <2> DEFINE S == Met(taken, step, c, v)
    <2>1. ASSUME NEW i \in S, NEW j \in S PROVE i = j
        <3> DEFINE a == i - 1
                   b == j - 1
        <3>1. /\ i \in 1..step /\ j \in 1..step
              /\ a \div Samples = c /\ b \div Samples = c
              /\ taken[i].value = v /\ taken[j].value = v
            BY DEF Met
        <3>2. a \in Nat /\ b \in Nat /\ Samples \in Nat \ {0}
            BY <1>1, <3>1, SizesAre
        <3>3. a % Samples = v /\ b % Samples = v
            BY <1>3, <3>1
        <3> HIDE DEF a, b
        <3>4. /\ a = (Samples * (a \div Samples)) + (a % Samples)
              /\ b = (Samples * (b \div Samples)) + (b % Samples)
            BY <3>2, DivMod
        <3>5. a = b
            BY <3>1, <3>3, <3>4, Zenon
        <3> QED BY <1>1, <3>1, <3>5 DEF a, b
    <2>2. CASE S = {}
        BY <2>2, FS_EmptySet
    <2>3. CASE S # {}
        <3>1. PICK i : i \in S
            BY <2>3
        <3>2. S = {i}
            BY <2>1, <3>1
        <3> HIDE DEF S
        <3>3. Cardinality(S) = 1
            BY <3>2, FS_Singleton
        <3> QED BY <3>3 DEF S
    <2> QED BY <2>2, <2>3
<1>6. stats.maximum_count \in Nat
      /\ (stats.maximum_count = 0 \/ stats.maximum_count <= 1)
    BY <1>2, <1>5 DEF ProbabilityTells
<1>7. ProjectionLimit \in Nat /\ ProjectionLimit > 0
    BY CryptanalysisAssumption
<1> QED BY <1>4, <1>6, <1>7

\* A usual projection is the number of its sample.
LEMMA ProbabilityWell ==
    ASSUME Told, Uneventful, IInv, CheckProbability
    PROVE  Uneventful'
<1>1. CASE Comparing({"differential_probability"})
    <2>1. Name = "differential_probability" /\ step \in Nat /\ step < Comparisons(Name)
        BY <1>1 DEF Comparing, In, Told, Tells
    <2>2. CoreTakes(Rounds)
        BY <1>1, LineIsGood
    <2>3. ~Reporting({"differential_probability"})
        BY <2>1 DEF Reporting
    <2>4. PICK value \in {0, Sample}, zero \in BOOLEAN :
              Compare([value |-> value, zero |-> zero], CountProjection(value, zero),
                      value # Sample \/ (zero /\ Characteristic(Case) # {}))
        BY <1>1, <2>2, <2>3 DEF CheckProbability
    <2> DEFINE seen == [value |-> value, zero |-> zero]
               counted == CountProjection(value, zero)
               unusual == value # Sample \/ (zero /\ Characteristic(Case) # {})
               u == Append(taken, seen)
    <2>5. Characteristic(Case) # {}
        <3>1. step < 8 * Samples
            BY <2>1, ComparisonsAre, CasesAre
        <3>2. Case \in 0..(8 - 1)
            BY <2>1, <3>1, CaseIs
        <3> QED BY <3>2, InputsDiffer
    <2>6. ASSUME ~unusual, Ordinary(Name, Rounds, step, taken, stats)
          PROVE  Ordinary(Name, Rounds, step + 1, u, counted)
        <3>1. seen.value = step % Samples /\ ~seen.zero
            BY <2>5, <2>6 DEF Sample
        <3>2. (step + 1) - 1 = step
            BY <2>1
        <3> HIDE DEF seen, unusual
        <3>3. \A i \in 1..step : taken[i].value = (i - 1) % Samples /\ ~taken[i].zero
            BY <2>1, <2>6 DEF Ordinary
        <3>4. /\ \A i \in 1..step : u[i] = taken[i]
              /\ u[step + 1] = seen
              /\ \A i \in 1..(step + 1) : i \in 1..step \/ i = step + 1
            BY <1>1, OneMoreOf
        <3> HIDE DEF u, counted
        <3>5. ASSUME NEW i \in 1..(step + 1)
              PROVE  u[i].value = (i - 1) % Samples /\ ~u[i].zero
            <4>1. CASE i \in 1..step
                BY <3>3, <3>4, <4>1
            <4>2. CASE i = step + 1
                BY <3>1, <3>2, <3>4, <4>2, Zenon
            <4> QED BY <3>4, <4>1, <4>2
        <3> QED BY <2>1, <3>5 DEF Ordinary, PairChecks
    <2>7. Compare(seen, counted, unusual)
        BY <2>4
    <2> HIDE DEF seen, counted, unusual
    <2> QED BY <1>1, <2>6, <2>7, ComparedWell
<1>2. CASE ~Comparing({"differential_probability"})
    <2> DEFINE good == /\ stats.zero_differences = 0
                       /\ Rounds = 1 \/ stats.maximum_count <= ProjectionLimit
    <2>1. Reporting({"differential_probability"}) /\ odd' = odd
        BY <1>2 DEF CheckProbability
    <2>2. PrintLine(good)
        BY <1>2 DEF CheckProbability
    <2>3. ~odd' => ~odd /\ good
        BY <2>1, ProbabilityIsGood
    <2> HIDE DEF good
    <2> QED BY <2>1, <2>2, <2>3, ReportedWell
<1> QED BY <1>1, <1>2

\* A trail never compares a block with itself, so that a zero difference is odd.
LEMMA TrailBitIs ==
    ASSUME step \in Nat
    PROVE  TrailBit \in Bits
<1> DEFINE b == Cardinality(Bits)
<1>1. b \in Nat \ {0} /\ b = BlockWords * WordBits
    BY PatternsFinite
<1>2. step % b \in 0..(b - 1)
    <2> HIDE DEF b
    <2> QED BY <1>1, DivMod
<1>3. Bits = 0..(b - 1)
    BY <1>1 DEF Bits
<1> QED BY <1>2, <1>3, Zenon DEF TrailBit

LEMMA ComparedTrailWell ==
    ASSUME Told, Uneventful, IInv, CompareTrail
    PROVE  Uneventful'
<1> DEFINE bit_b == PairedBit(TrailBit, TrailPattern)
           difference == TrailDifference(TrailPattern, TrailBit, bit_b)
           place == <<TrailBase, TrailPattern, TrailBit, bit_b>>
           Seen(pairs) == [base |-> TrailBase, pattern |-> TrailPattern,
                           difference |-> difference, pairs |-> pairs]
<1>1. Comparing({"trail_search"})
    BY DEF CompareTrail
<1>2. Name = "trail_search" /\ step \in Nat
    BY <1>1 DEF Comparing, In, Told, Tells
<1>3. MixRounds = TrailRounds /\ ~(ReducedRounds >= TrailRounds)
    BY SizesAre DEF TrailRounds
<1>4. PICK pairs \in Trails(TrailBase, difference) :
          Compare(Seen(pairs), RecordTrail(pairs, place),
                  difference # {} /\ pairs # UsualTrail)
    BY <1>3 DEF CompareTrail
<1>5. difference # {}
    BY <1>2, TrailBitIs, TrailPatternIs, TrailsDiffer
<1> DEFINE seen == Seen(pairs)
           counted == RecordTrail(pairs, place)
           u == Append(taken, seen)
<1>6. seen.pairs = pairs
    OBVIOUS
<1>7. Compare(seen, counted, pairs # UsualTrail)
    BY <1>4, <1>5
<1> HIDE DEF difference, place, seen, counted
<1>8. ASSUME ~(pairs # UsualTrail), Ordinary(Name, Rounds, step, taken, stats)
      PROVE  Ordinary(Name, Rounds, step + 1, u, counted)
    <2>1. /\ \A i \in 1..step : u[i] = taken[i]
          /\ u[step + 1] = seen
          /\ \A i \in 1..(step + 1) : i \in 1..step \/ i = step + 1
        BY <1>1, OneMoreOf
    <2>2. \A i \in 1..step : taken[i].pairs = UsualTrail
        BY <1>2, <1>8 DEF Ordinary
    <2> HIDE DEF u
    <2>3. \A i \in 1..(step + 1) : u[i].pairs = UsualTrail
        BY <1>6, <1>8, <2>1, <2>2
    <2> QED BY <1>2, <2>3 DEF Ordinary, PairChecks
<1> HIDE DEF u
<1> QED BY <1>1, <1>7, <1>8, ComparedWell DEF u

\* A line of the trail search is good when all its trails are usual.
LEMMA UsualTrailIsGood ==
    ASSUME NEW n, NEW t, \A i \in 1..n : t[i].pairs = UsualTrail,
           NEW r \in 1..MixRounds, NEW among, \A i \in among : i \in 1..n,
           NEW s, Means(s, TrailPairs(t, n, r), among, 512, 8)
    PROVE  GoodTrail(s, r, TRUE)
<1> DEFINE row == TrailPairs(t, n, r)
           wide == 512
           all == 8
           weight == Usual(r).weight
<1>1. Usual(r).active = all /\ weight \in {120, 256} /\ (r # 1 => weight = 256)
    BY DEF Usual, Pair
<1>2. \A i \in among : row[i] = Usual(r)
    BY DEF TrailPairs, UsualTrail
<1>3. \A i \in among : row[i].weight = weight /\ row[i].active = all
    BY <1>1, <1>2
<1>4. Means(s, row, among, wide, all)
    OBVIOUS
<1> HIDE DEF row, wide, all, weight
<1>5. weight \in Nat \ {0}
    BY <1>1
<1>6. /\ s.zero_differences = 0
      /\ s.minimum_weight = weight \/ s.minimum_weight = wide
      /\ s.maximum_weight = weight \/ s.maximum_weight = 0
      /\ s.minimum_active_words = all
    BY <1>3, <1>4, <1>5, EvenMeans
<1>7. r # 1 => s.minimum_weight >= 160
    BY <1>1, <1>6 DEF wide
<1> QED BY <1>6, <1>7 DEF GoodTrail, Near, all

\* Usual trails give good lines, and the gain of 128 over the rounds.
LEMMA ReportedTrailsWell ==
    ASSUME Told, Uneventful, IInv, ReportTrails
    PROVE  Uneventful'
<1> DEFINE Lines(even) ==
        /\ \A r \in 1..MixRounds : GoodTrail(stats.all[r], r, even)
        /\ \A p \in Patterns, r \in Reports :
               GoodTrail(stats.of[p][r], r, TRUE)
    Gain == stats.all[MixRounds].minimum_weight
                >= stats.all[1].minimum_weight + 128
<1>1. PICK even \in BOOLEAN : odd' = (odd \/ ~even) /\ PrintLines(Lines(even), Gain)
    BY Zenon DEF ReportTrails
<1>2. Reporting({"trail_search"})
    BY Zenon DEF ReportTrails
<1>3. ASSUME ~odd' PROVE ~odd /\ Lines(even) /\ Gain
    <2>1. ~odd /\ even = TRUE
        BY <1>1, <1>3
    <2>2. /\ check \in DOMAIN Checks /\ Name = "trail_search"
          /\ TrailsTell(step, taken, stats) /\ step > 0
        <3>1. /\ check \in DOMAIN Checks /\ Name = "trail_search"
              /\ step = Comparisons("trail_search")
            BY <1>2 DEF Reporting, In
        <3>2. Tells("trail_search", step, taken, stats)
            BY <1>2, <3>1, ReportedTells
        <3>3. TrailsTell(step, taken, stats)
            BY <3>2 DEF Tells
        <3>4. step > 0
            <4>1. step \in Nat \ {0}
                BY <3>1, ComparisonsAre
            <4> QED BY <4>1
        <3> QED BY <3>1, <3>3, <3>4
    <2>3. \A i \in 1..step : taken[i].pairs = UsualTrail
        BY <2>1, <2>2 DEF Uneventful, Ordinary
    <2>4. ASSUME NEW r \in 1..MixRounds, NEW among, \A i \in among : i \in 1..step,
                 NEW s, Means(s, TrailPairs(taken, step, r), among, 512, 8)
          PROVE  GoodTrail(s, r, TRUE)
        BY <2>2, <2>3, <2>4, UsualTrailIsGood
    <2>5. \A r \in 1..MixRounds : RoundTells(step, taken, stats, r)
        BY <2>2 DEF TrailsTell
    <2>6. ASSUME NEW r \in 1..MixRounds
          PROVE  /\ GoodTrail(stats.all[r], r, TRUE)
                 /\ \A p \in Patterns : GoodTrail(stats.of[p][r], r, TRUE)
        <3>1. /\ Means(stats.all[r], TrailPairs(taken, step, r), 1..step, 512, 8)
              /\ \A p \in Patterns :
                     Means(stats.of[p][r], TrailPairs(taken, step, r),
                           OfPattern(taken, step, p), 512, 8)
            BY <2>5 DEF RoundTells
        <3>2. \A p : \A i \in OfPattern(taken, step, p) : i \in 1..step
            BY DEF OfPattern
        <3>3. GoodTrail(stats.all[r], r, TRUE)
            BY <2>4, <3>1, Zenon
        <3>4. \A p \in Patterns : GoodTrail(stats.of[p][r], r, TRUE)
            BY <2>4, <3>1, <3>2, Zenon
        <3> QED BY <3>3, <3>4
    <2>7. \A r \in Reports : r \in 1..MixRounds
        BY SizesAre DEF Reports
    <2>8. Lines(even)
        BY <2>1, <2>6, <2>7
    <2>9. Gain
        <3>1. 1 \in 1..MixRounds /\ 16 \in 1..MixRounds /\ MixRounds = 16
            BY SizesAre
        <3>2. ASSUME NEW r \in 1..MixRounds
              PROVE  stats.all[r].minimum_weight = Usual(r).weight
            <4>1. BestTells(step, taken, stats.all[r], r)
                BY <2>2, <2>5 DEF RoundTells
            <4>2. PICK i \in 1..step : stats.all[r].minimum_weight = taken[i].pairs[r].weight
                BY <4>1 DEF BestTells
            <4> QED BY <2>3, <4>2 DEF UsualTrail
        <3>3. Usual(1).weight = 120 /\ Usual(16).weight = 256
            BY DEF Usual, Pair
        <3> QED BY <3>1, <3>2, <3>3
    <2> QED BY <2>1, <2>8, <2>9
<1> HIDE DEF Lines, Gain
<1> QED BY <1>1, <1>2, <1>3, PrintedWell

\* All the windows of the rounds are taken.
LEMMA RoundtripWell ==
    ASSUME Told, Uneventful, IInv, CheckRoundtrip
    PROVE  Uneventful'
<1>1. CASE Comparing({"roundtrip"})
    <2>1. \A w \in Windows : WindowTaken(w[1], w[2] - w[1])
        BY SizesAre DEF Windows, WindowTaken
    <2>2. ~Reporting({"roundtrip"})
        <3>1. Name = "roundtrip" /\ step \in Nat /\ step < Comparisons(Name)
            BY <1>1 DEF Comparing, In, Told, Tells
        <3> QED BY <3>1 DEF Reporting
    <2>3. Compare("sample",
                  [windows |-> stats.windows + Cardinality(Windows),
                   outputs |-> stats.outputs + MixRounds], FALSE)
        BY <2>1, <2>2 DEF CheckRoundtrip
    <2>4. Name = "roundtrip"
        BY <1>1 DEF Comparing, In
    <2>5. \A t, s : Ordinary(Name, Rounds, step + 1, t, s)
        BY <2>4 DEF Ordinary, PairChecks
    <2> QED BY <1>1, <2>3, <2>5, ComparedWell
<1>2. CASE ~Comparing({"roundtrip"})
    <2>1. Reporting({"roundtrip"}) /\ PrintLine(TRUE) /\ odd' = odd
        BY <1>2 DEF CheckRoundtrip
    <2> QED BY <2>1, ReportedWell
<1> QED BY <1>1, <1>2

\* Two candidates never have the same block.
LEMMA DigitsAre ==
    ASSUME NEW b \in Nat \ {0}, NEW m \in Nat \ {0}, NEW c \in Nat, c < b * m
    PROVE  /\ c \div b \in Nat
           /\ (c \div b) % m = c \div b
           /\ c = (b * (c \div b)) + (c % b)
<1> DEFINE q == c \div b
<1>1. q \in Nat /\ c % b \in 0..(b - 1) /\ c = (b * q) + (c % b)
    BY DivMod
<1> HIDE DEF q
<1>2. q < m
    <2>1. ASSUME m <= q PROVE FALSE
        <3>1. b * m <= b * q
            BY <1>1, <2>1, TimesMonotone
        <3>2. b * q \in Nat /\ b * m \in Nat
            BY <1>1
        <3> QED BY <1>1, <3>1, <3>2
    <2> QED BY <1>1, <2>1
<1>3. q % m = q
    BY <1>1, <1>2
<1> QED BY <1>1, <1>3 DEF q

LEMMA BlocksDiffer ==
    ASSUME NEW c \in Nat, c < ByteValues * MaskValues,
           NEW d \in Nat, d < ByteValues * MaskValues,
           CandidateBlock(c) = CandidateBlock(d)
    PROVE  c = d
<1>1. ByteValues \in Nat \ {0} /\ MaskValues \in Nat \ {0}
    BY TrailAssumption
<1>2. c % ByteValues = d % ByteValues
      /\ (c \div ByteValues) % MaskValues = (d \div ByteValues) % MaskValues
    BY DEF CandidateBlock
<1>3. /\ (c \div ByteValues) % MaskValues = c \div ByteValues
      /\ c = (ByteValues * (c \div ByteValues)) + (c % ByteValues)
    BY <1>1, DigitsAre
<1>4. /\ (d \div ByteValues) % MaskValues = d \div ByteValues
      /\ d = (ByteValues * (d \div ByteValues)) + (d % ByteValues)
    BY <1>1, DigitsAre
<1> QED BY <1>2, <1>3, <1>4, Zenon

LEMMA OutputBlocksDiffer ==
    ASSUME NEW c \in Nat, c < ByteValues * ByteValues,
           NEW d \in Nat, d < ByteValues * ByteValues,
           OutputCandidateBlock(c) = OutputCandidateBlock(d)
    PROVE  c = d
<1>1. ByteValues \in Nat \ {0}
    BY TrailAssumption
<1>2. c % ByteValues = d % ByteValues
      /\ (c \div ByteValues) % ByteValues = (d \div ByteValues) % ByteValues
    BY DEF OutputCandidateBlock
<1>3. /\ (c \div ByteValues) % ByteValues = c \div ByteValues
      /\ c = (ByteValues * (c \div ByteValues)) + (c % ByteValues)
    BY <1>1, DigitsAre
<1>4. /\ (d \div ByteValues) % ByteValues = d \div ByteValues
      /\ d = (ByteValues * (d \div ByteValues)) + (d % ByteValues)
    BY <1>1, DigitsAre
<1> QED BY <1>2, <1>3, <1>4, Zenon

\* There are fewer candidates than blocks, in each search.
LEMMA CandidatesDiffer ==
    /\ \A c, d \in 0..(MitmCandidates - 1) :
           CandidateBlock(c) = CandidateBlock(d) => c = d
    /\ \A c \in 1..(ReboundCandidates - 1) : CandidateBlock(c) # CandidateBlock(0)
    /\ \A c, d \in 0..(OutputCandidates - 1) :
           OutputCandidateBlock(c) = OutputCandidateBlock(d) => c = d
<1> DEFINE masks == ByteValues * MaskValues
           bytes == ByteValues * ByteValues
<1>1. masks \in Nat /\ bytes \in Nat
    BY TrailAssumption
<1>2. /\ MitmCandidates <= masks /\ ReboundCandidates <= masks
      /\ OutputCandidates <= bytes
    BY CryptanalysisAssumption
<1>3. /\ \A c, d \in Nat : c < masks /\ d < masks =>
             (CandidateBlock(c) = CandidateBlock(d) => c = d)
      /\ \A c, d \in Nat : c < bytes /\ d < bytes =>
             (OutputCandidateBlock(c) = OutputCandidateBlock(d) => c = d)
    BY BlocksDiffer, OutputBlocksDiffer
<1> HIDE DEF masks, bytes
<1>4. \A c \in 0..(MitmCandidates - 1) : c \in Nat /\ c < masks
    BY <1>1, <1>2, SizesAre
<1>5. \A c \in 0..(ReboundCandidates - 1) : c \in Nat /\ c < masks
    BY <1>1, <1>2, SizesAre
<1>6. \A c \in 0..(OutputCandidates - 1) : c \in Nat /\ c < bytes
    BY <1>1, <1>2, SizesAre
<1>7. \A c \in 1..(ReboundCandidates - 1) :
          /\ c \in 0..(ReboundCandidates - 1) /\ 0 \in 0..(ReboundCandidates - 1)
          /\ c # 0
    BY SizesAre
<1> QED BY <1>3, <1>4, <1>5, <1>6, <1>7, Zenon

\* The statistics of work states that are all usual.
LEMMA WideIsGood ==
    ASSUME NEW n, NEW row, \A i \in 1..n : row[i] = Wide,
           NEW s, Means(s, row, 1..n, 1024, 16)
    PROVE  /\ s.minimum_weight >= 320 /\ s.minimum_weight >= 256
           /\ s.minimum_active_words = 16 /\ s.zero_differences = 0
<1> DEFINE among == 1..n
           wide == 1024
           all == 16
           weight == 512
<1>1. \A i \in among : row[i].weight = weight /\ row[i].active = all
    BY DEF Wide, Pair
<1>2. Means(s, row, among, wide, all) /\ weight \in Nat \ {0}
    OBVIOUS
<1> HIDE DEF among, wide, all, weight
<1>3. /\ s.zero_differences = 0
      /\ s.minimum_weight = weight \/ s.minimum_weight = wide
      /\ s.minimum_active_words = all
    BY <1>1, <1>2, EvenMeans
<1> QED BY <1>3 DEF wide, all, weight

\* No candidate is the base block itself, so all the pairs are usual.
LEMMA ReboundWell ==
    ASSUME Told, Uneventful, IInv, CheckRebound
    PROVE  Uneventful'
<1>1. CASE Comparing({"rebound"})
    <2>1. Name = "rebound" /\ step \in Nat /\ step < Comparisons(Name)
        BY <1>1 DEF Comparing, In, Told, Tells
    <2>2. ~Reporting({"rebound"})
        BY <2>1 DEF Reporting
    <2>3. /\ WindowTaken(0, Rounds \div 2)
          /\ WindowTaken(Rounds \div 2, Rounds - (Rounds \div 2))
        BY <1>1, <2>1, LineIsGood
    <2>4. CandidateBlock(step + 1) # CandidateBlock(0)
        <3>1. step + 1 \in 1..(ReboundCandidates - 1)
            BY <2>1, ComparisonsAre, SizesAre
        <3> QED BY <3>1, CandidatesDiffer
    <2> DEFINE place == <<0, 0, 0, 0>>
               Counted(middle, end) ==
                   [middle |-> Record(stats.middle, middle, place),
                    low_middle |-> stats.low_middle
                                       + (IF middle.weight <= 256 THEN 1 ELSE 0),
                    end |-> Record(stats.end, end, place)]
    <2>5. PICK middle \in WidePairs, end \in WidePairs :
              Compare([middle |-> middle, end |-> end], Counted(middle, end),
                      {middle, end} # {Wide})
        BY <1>1, <2>2, <2>3, <2>4 DEF CheckRebound
    <2> DEFINE seen == [middle |-> middle, end |-> end]
               counted == Counted(middle, end)
               unusual == {middle, end} # {Wide}
               u == Append(taken, seen)
    <2>6. ASSUME ~unusual, Ordinary(Name, Rounds, step, taken, stats)
          PROVE  Ordinary(Name, Rounds, step + 1, u, counted)
        <3>1. middle = Wide /\ end = Wide
            BY <2>6
        <3>2. seen.middle = Wide /\ seen.end = Wide
            BY <3>1
        <3>3. counted.low_middle = 0
            <4>1. stats.low_middle = 0
                BY <2>1, <2>6 DEF Ordinary
            <4>2. middle.weight = 512
                BY <3>1 DEF Wide, Pair
            <4> QED BY <4>1, <4>2
        <3>4. \A i \in 1..step : taken[i].middle = Wide /\ taken[i].end = Wide
            BY <2>1, <2>6 DEF Ordinary
        <3> HIDE DEF seen, counted, unusual
        <3>5. /\ \A i \in 1..step : u[i] = taken[i]
              /\ u[step + 1] = seen
              /\ \A i \in 1..(step + 1) : i \in 1..step \/ i = step + 1
            BY <1>1, OneMoreOf
        <3> HIDE DEF u
        <3>6. \A i \in 1..(step + 1) : u[i].middle = Wide /\ u[i].end = Wide
            BY <3>2, <3>4, <3>5
        <3> QED BY <2>1, <3>3, <3>6 DEF Ordinary, PairChecks
    <2>7. Compare(seen, counted, unusual)
        BY <2>5
    <2> HIDE DEF seen, counted, unusual
    <2> QED BY <1>1, <2>6, <2>7, ComparedWell
<1>2. CASE ~Comparing({"rebound"})
    <2> DEFINE good == /\ stats.middle.minimum_weight >= 256
                       /\ stats.end.minimum_weight >= 320
                       /\ stats.middle.minimum_active_words = 16
                       /\ stats.end.minimum_active_words = 16
                       /\ stats.low_middle = 0
                       /\ stats.middle.zero_differences = 0
                       /\ stats.end.zero_differences = 0
    <2>1. Reporting({"rebound"}) /\ PrintLine(good) /\ odd' = odd
        BY <1>2 DEF CheckRebound
    <2>2. ASSUME ~odd PROVE good
        <3>1. check \in DOMAIN Checks /\ Name = "rebound" /\ step \in Nat
            BY <2>1, ReportedTells DEF Reporting, In
        <3>2. ReboundTells(step, taken, stats)
            BY <2>1, <3>1, ReportedTells DEF Tells
        <3>3. /\ \A i \in 1..step : taken[i].middle = Wide /\ taken[i].end = Wide
              /\ stats.low_middle = 0
            BY <2>2, <3>1 DEF Uneventful, Ordinary
        <3>4. /\ \A i \in 1..step : Middles(taken, step)[i] = Wide
              /\ \A i \in 1..step : Ends(taken, step)[i] = Wide
            BY <3>3 DEF Middles, Ends
        <3>5. /\ Means(stats.middle, Middles(taken, step), 1..step, 1024, 16)
              /\ Means(stats.end, Ends(taken, step), 1..step, 1024, 16)
            BY <3>2 DEF ReboundTells
        <3>6. /\ stats.middle.minimum_weight >= 256
              /\ stats.middle.minimum_active_words = 16
              /\ stats.middle.zero_differences = 0
            BY <3>4, <3>5, WideIsGood
        <3>7. /\ stats.end.minimum_weight >= 320
              /\ stats.end.minimum_active_words = 16
              /\ stats.end.zero_differences = 0
            BY <3>4, <3>5, WideIsGood
        <3> QED BY <3>3, <3>6, <3>7
    <2> HIDE DEF good
    <2> QED BY <2>1, <2>2, ReportedWell
<1> QED BY <1>1, <1>2

\* Pairs of candidates that meet, in their keys or altogether.
KeyMatches(forward, backward) ==
    {p \in (DOMAIN forward) \X (DOMAIN backward) :
        forward[p[1]].key = backward[p[2]].key}

ExactMatches(forward, backward) ==
    {p \in (DOMAIN forward) \X (DOMAIN backward) : forward[p[1]] = backward[p[2]]}

\* In an ordinary join only the planted candidate meets itself.
LEMMA JoinIsGood ==
    ASSUME NEW forward, NEW backward,
           DOMAIN forward = 0..(MitmCandidates - 1),
           DOMAIN backward = 0..(MitmCandidates - 1),
           backward[MitmTarget] = forward[MitmTarget],
           ~OddJoin(forward, backward),
           NEW s, JoinMeans(forward, backward, MitmTarget, s)
    PROVE  /\ s.prefix_pairs \in 1..MitmPairLimit
           /\ s.exact_matches = 1
           /\ s.recovered
<1> DEFINE D == 0..(MitmCandidates - 1)
           keys == KeyMatches(forward, backward)
           exact == ExactMatches(forward, backward)
           pair == <<MitmTarget, MitmTarget>>
<1>0. MitmTarget \in D /\ MitmPairLimit \in Nat
    BY SizesAre, CryptanalysisAssumption
<1>1. s.prefix_pairs = Cardinality(keys) /\ s.exact_matches = Cardinality(exact)
    BY DEF JoinMeans, KeyMatches, ExactMatches
<1>2. s.recovered = (forward[MitmTarget] = backward[MitmTarget])
    BY DEF JoinMeans
<1>3. ~(Cardinality(keys) > MitmPairLimit)
    BY DEF OddJoin, KeyMatches
<1>4. \A c, d \in D : forward[c] = backward[d] =>
          {CandidateBlock(c), CandidateBlock(d)} = {CandidateBlock(MitmTarget)}
    BY DEF OddJoin
<1>5. \A c, d \in D : forward[c] = backward[d] => c = MitmTarget /\ d = MitmTarget
    BY <1>0, <1>4, CandidatesDiffer
<1>6. Cardinality(exact) = 1
    <2>1. pair \in exact
        BY <1>0 DEF ExactMatches
    <2>2. \A p \in exact : p = pair
        BY <1>5 DEF ExactMatches
    <2> HIDE DEF exact, pair
    <2>3. exact = {pair}
        BY <2>1, <2>2
    <2> QED BY <2>3, FS_Singleton
<1>7. Cardinality(keys) \in Nat /\ Cardinality(keys) # 0
    <2>1. IsFiniteSet(D \X D)
        <3>1. IsFiniteSet(D)
            BY SizesAre, FS_Interval
        <3> HIDE DEF D
        <3> QED BY <3>1, FS_Product
    <2>2. keys \subseteq D \X D
        BY DEF KeyMatches
    <2>3. IsFiniteSet(keys)
        BY <2>1, <2>2, FS_Subset
    <2>4. pair \in keys
        BY <1>0 DEF KeyMatches
    <2> HIDE DEF keys, pair
    <2> QED BY <2>3, <2>4, FS_CardinalityType, FS_EmptySet
<1> HIDE DEF keys, exact
<1>8. s.prefix_pairs \in 1..MitmPairLimit
    BY <1>0, <1>1, <1>3, <1>7
<1> QED BY <1>1, <1>2, <1>6, <1>8

\* The line of a split is good when its join is ordinary.
LEMMA MitmWell ==
    ASSUME Told, Uneventful, IInv, CheckMitm
    PROVE  Uneventful'
<1>1. CASE Comparing({"mitm"})
    <2>1. Name = "mitm" /\ step \in Nat /\ step < Comparisons(Name)
        BY <1>1 DEF Comparing, In, Told, Tells
    <2>2. step = 0
        BY <2>1, ComparisonsAre
    <2>3. ~Reporting({"mitm"})
        BY <2>1 DEF Reporting
    <2>4. /\ WindowTaken(0, Rounds) /\ WindowTaken(0, MitmSplits[line])
          /\ WindowTaken(MitmSplits[line], Rounds - MitmSplits[line])
        BY <1>1, <2>1, LineIsGood
    <2> DEFINE states == [0..(MitmCandidates - 1) -> TableStates]
    <2>5. PICK forward \in states, backward \in states :
              /\ backward[MitmTarget] = forward[MitmTarget]
              /\ Compare([forward |-> forward, backward |-> backward],
                         JoinOf(Table(forward), backward, MitmTarget),
                         OddJoin(forward, backward))
        BY <1>1, <2>3, <2>4 DEF CheckMitm
    <2> DEFINE seen == [forward |-> forward, backward |-> backward]
               counted == JoinOf(Table(forward), backward, MitmTarget)
               unusual == OddJoin(forward, backward)
               u == Append(taken, seen)
    <2>6. ASSUME ~unusual
          PROVE  Ordinary(Name, Rounds, step + 1, u, counted)
        <3>1. seen.forward = forward /\ seen.backward = backward
            OBVIOUS
        <3>2. {forward, backward} \subseteq states
            OBVIOUS
        <3> HIDE DEF seen, counted
        <3>3. u[step + 1] = seen
            BY <1>1, OneMoreOf
        <3> HIDE DEF u
        <3>4. step + 1 = 1
            BY <2>2
        <3>5. Name = "mitm" /\ u[1] = seen
            BY <2>1, <3>3, <3>4, Zenon
        <3> QED BY <2>5, <2>6, <3>1, <3>2, <3>4, <3>5 DEF Ordinary, PairChecks
    <2>7. Compare(seen, counted, unusual)
        BY <2>5
    <2> HIDE DEF seen, counted, unusual
    <2> QED BY <1>1, <2>6, <2>7, ComparedWell
<1>2. CASE ~Comparing({"mitm"})
    <2> DEFINE good == /\ stats.prefix_pairs \in 1..MitmPairLimit
                       /\ stats.exact_matches = 1
                       /\ stats.recovered
    <2>1. Reporting({"mitm"}) /\ PrintLine(good) /\ odd' = odd
        BY <1>2 DEF CheckMitm
    <2>2. ASSUME ~odd PROVE good
        <3>1. check \in DOMAIN Checks /\ Name = "mitm" /\ step = 1
            BY <2>1, ReportedTells, ComparisonsAre DEF Reporting, In
        <3> DEFINE forward == taken[1].forward
                   backward == taken[1].backward
                   D == 0..(MitmCandidates - 1)
        <3>2. JoinMeans(forward, backward, MitmTarget, stats)
            BY <2>1, <3>1, ReportedTells DEF Tells
        <3>3. Ordinary("mitm", Rounds, 1, taken, stats)
            BY <2>2, <3>1 DEF Uneventful
        <3>4. /\ {forward, backward} \subseteq [D -> TableStates]
              /\ backward[MitmTarget] = forward[MitmTarget]
              /\ ~OddJoin(forward, backward)
            BY <3>3 DEF Ordinary
        <3> HIDE DEF forward, backward
        <3>5. DOMAIN forward = D /\ DOMAIN backward = D
            BY <3>4
        <3> QED BY <3>2, <3>4, <3>5, JoinIsGood
    <2> HIDE DEF good
    <2> QED BY <2>1, <2>2, ReportedWell
<1> QED BY <1>1, <1>2

\* The outputs that are like one of them, in their keys or altogether.
Prefixed(outputs, o) == {c \in DOMAIN outputs : outputs[c].key = o.key}

Equalling(outputs, o) == {c \in DOMAIN outputs : outputs[c] = o}

SameOutputs(outputs) ==
    {p \in (DOMAIN outputs) \X (DOMAIN outputs) :
        p[1] < p[2] /\ outputs[p[1]] = outputs[p[2]]}

Buckets(outputs) ==
    {Cardinality(Prefixed(outputs, outputs[c])) : c \in DOMAIN outputs}

\* The counts of the search, each by its set.
LEMMA SearchCounts ==
    ASSUME NEW outputs, NEW unplanted, NEW target, NEW s,
           SearchMeans(outputs, unplanted, target, s)
    PROVE  /\ s.planted_prefix = Cardinality(Prefixed(outputs, outputs[target]))
           /\ s.planted_exact = Cardinality(Equalling(outputs, outputs[target]))
           /\ s.recovered
           /\ s.unplanted_prefix = Cardinality(Prefixed(outputs, unplanted))
           /\ s.unplanted_exact = Cardinality(Equalling(outputs, unplanted))
           /\ s.collision_pairs = Pairs(outputs, LAMBDA o, p : o.key = p.key)
           /\ s.maximum_bucket = Max(Buckets(outputs))
           /\ s.exact_collisions = Cardinality(SameOutputs(outputs))
BY Zenon DEF SearchMeans, Prefixed, Equalling, Pairs, SameOutputs, Buckets

\* What is not odd of outputs.
LEMMA OutputsAreOrdinary ==
    ASSUME NEW outputs, NEW unplanted, ~OddOutputs(outputs, unplanted)
    PROVE  /\ \A c, d \in DOMAIN outputs :
                  outputs[c] = outputs[d]
                      => OutputCandidateBlock(c) = OutputCandidateBlock(d)
           /\ UnplantedBlock(OutputTarget) \notin OutputBlocks
                  => \A c \in DOMAIN outputs : outputs[c] # unplanted
           /\ \A c \in DOMAIN outputs :
                  ~(Cardinality(Prefixed(outputs, outputs[c])) > OutputBucketLimit)
           /\ ~(Cardinality(Prefixed(outputs, outputs[OutputTarget])) > OutputLimit)
           /\ ~(Cardinality(Prefixed(outputs, unplanted)) > OutputLimit)
           /\ Pairs(outputs, LAMBDA o, p : o.key = p.key) \in 1..OutputPairLimit
<1>1. /\ \A c, d \in DOMAIN outputs :
             outputs[c] = outputs[d]
                 => OutputCandidateBlock(c) = OutputCandidateBlock(d)
      /\ ~(unplanted \in Range(outputs)
             /\ UnplantedBlock(OutputTarget) \notin OutputBlocks)
      /\ \A c \in DOMAIN outputs :
             ~(Cardinality(Prefixed(outputs, outputs[c])) > OutputBucketLimit)
      /\ \A o \in {outputs[OutputTarget], unplanted} :
             ~(Cardinality(Prefixed(outputs, o)) > OutputLimit)
      /\ Pairs(outputs, LAMBDA o, p : o.key = p.key) \in 1..OutputPairLimit
    BY Zenon DEF OddOutputs, Prefixed
<1>2. \A c \in DOMAIN outputs : outputs[c] \in Range(outputs)
    BY DEF Range
<1>3. ~(Cardinality(Prefixed(outputs, outputs[OutputTarget])) > OutputLimit)
    BY <1>1
<1>4. ~(Cardinality(Prefixed(outputs, unplanted)) > OutputLimit)
    BY <1>1
<1> QED BY <1>1, <1>2, <1>3, <1>4, Zenon

\* The target that is not planted is made from no candidate.
LEMMA UnplantedIsNone == UnplantedBlock(OutputTarget) \notin OutputBlocks
<1>1. \A c : OutputCandidateBlock(c)[3] = 0
    BY DEF OutputCandidateBlock
<1>2. UnplantedBlock(OutputTarget)[3] = 1
    BY DEF UnplantedBlock, OutputCandidateBlock
<1> QED BY <1>1, <1>2 DEF OutputBlocks

\* In an ordinary search the planted target is found once, the other never.
LEMMA SearchIsGood ==
    ASSUME NEW outputs, NEW unplanted, DOMAIN outputs = 0..(OutputCandidates - 1),
           ~OddOutputs(outputs, unplanted),
           NEW s, SearchMeans(outputs, unplanted, OutputTarget, s)
    PROVE  /\ s.planted_prefix \in 1..OutputLimit
           /\ s.planted_exact = 1 /\ s.recovered
           /\ s.unplanted_prefix <= OutputLimit
           /\ s.unplanted_exact = 0
           /\ s.collision_pairs \in 1..OutputPairLimit
           /\ s.maximum_bucket <= OutputBucketLimit
           /\ s.exact_collisions = 0
<1> DEFINE D == 0..(OutputCandidates - 1)
           planted == outputs[OutputTarget]
<1>0. /\ OutputTarget \in D /\ OutputLimit \in Nat /\ OutputBucketLimit \in Nat
      /\ DOMAIN outputs = D /\ D \subseteq Nat
    BY SizesAre, CryptanalysisAssumption
<1>1. IsFiniteSet(D)
    BY SizesAre, FS_Interval
<1>2. \A c, d \in D : OutputCandidateBlock(c) = OutputCandidateBlock(d) => c = d
    BY CandidatesDiffer
<1> HIDE DEF D
<1>3. \A c, d \in D : outputs[c] = outputs[d] => c = d
    <2>1. \A c, d \in DOMAIN outputs :
              outputs[c] = outputs[d]
                  => OutputCandidateBlock(c) = OutputCandidateBlock(d)
        BY Zenon DEF OddOutputs
    <2> QED BY <1>0, <1>2, <2>1, Zenon
<1>4. \A o : Prefixed(outputs, o) \subseteq D
    BY <1>0 DEF Prefixed
<1>5. \A o : IsFiniteSet(Prefixed(outputs, o))
             /\ Cardinality(Prefixed(outputs, o)) \in Nat
    BY <1>1, <1>4, FS_Subset, FS_CardinalityType
<1>6. /\ s.planted_prefix = Cardinality(Prefixed(outputs, outputs[OutputTarget]))
      /\ s.planted_exact = Cardinality(Equalling(outputs, outputs[OutputTarget]))
    BY Zenon DEF SearchMeans, Prefixed, Equalling
<1>7. ~(Cardinality(Prefixed(outputs, outputs[OutputTarget])) > OutputLimit)
    BY OutputsAreOrdinary, Zenon
<1>8. s.planted_prefix \in 1..OutputLimit
    <2> DEFINE S == Prefixed(outputs, planted)
    <2>1. OutputTarget \in S
        BY <1>0 DEF Prefixed
    <2>2. IsFiniteSet(S) /\ Cardinality(S) \in Nat
        BY <1>5
    <2>3. s.planted_prefix = Cardinality(S) /\ ~(Cardinality(S) > OutputLimit)
        BY <1>6, <1>7
    <2> HIDE DEF S
    <2>4. Cardinality(S) # 0
        BY <2>1, <2>2, FS_EmptySet
    <2> QED BY <1>0, <2>2, <2>3, <2>4
<1>9. s.planted_exact = 1
    <2> DEFINE S == Equalling(outputs, planted)
    <2>1. OutputTarget \in S
        BY <1>0 DEF Equalling
    <2>2. \A c \in S : c = OutputTarget
        BY <1>0, <1>3 DEF Equalling
    <2>3. s.planted_exact = Cardinality(S)
        BY <1>6
    <2> HIDE DEF S
    <2>4. S = {OutputTarget}
        BY <2>1, <2>2
    <2> QED BY <2>3, <2>4, FS_Singleton
<1>10. s.unplanted_prefix <= OutputLimit
    <2> DEFINE n == Cardinality(Prefixed(outputs, unplanted))
    <2>1. s.unplanted_prefix = n /\ ~(n > OutputLimit) /\ n \in Nat
        BY <1>5, SearchCounts, OutputsAreOrdinary
    <2> HIDE DEF n
    <2> QED BY <1>0, <2>1
<1>11. s.unplanted_exact = 0
    <2> DEFINE S == Equalling(outputs, unplanted)
    <2>1. S = {}
        BY OutputsAreOrdinary, UnplantedIsNone DEF Equalling
    <2>2. s.unplanted_exact = Cardinality(S)
        BY SearchCounts
    <2> HIDE DEF S
    <2> QED BY <2>1, <2>2, FS_EmptySet
<1>12. s.collision_pairs \in 1..OutputPairLimit
    <2> DEFINE n == Pairs(outputs, LAMBDA o, p : o.key = p.key)
    <2>1. s.collision_pairs = n
        BY Zenon DEF SearchMeans
    <2>2. n \in 1..OutputPairLimit
        BY Zenon DEF OddOutputs
    <2> HIDE DEF n
    <2> QED BY <2>1, <2>2
<1>13. s.maximum_bucket <= OutputBucketLimit
    <2> DEFINE B == Buckets(outputs)
               n(c) == Cardinality(Prefixed(outputs, outputs[c]))
    <2>1. \A c \in D : n(c) \in Nat /\ ~(n(c) > OutputBucketLimit)
        BY <1>0, <1>5, OutputsAreOrdinary
    <2>2. B = {n(c) : c \in D}
        BY <1>0 DEF Buckets
    <2> HIDE DEF n
    <2>3. \A x \in B : x \in Nat /\ x <= OutputBucketLimit
        <3> SUFFICES ASSUME NEW c \in D PROVE n(c) \in Nat /\ n(c) <= OutputBucketLimit
            BY <2>2
        <3>1. n(c) \in Nat /\ ~(n(c) > OutputBucketLimit)
            BY <2>1
        <3> QED BY <1>0, <3>1
    <2>4. n(OutputTarget) \in B
        BY <1>0, <2>2
    <2> HIDE DEF B
    <2>5. Max(B) \in B
        <3> DEFINE T == {OutputBucketLimit - x : x \in B}
        <3>1. T \in SUBSET Nat
            BY <1>0, <2>3
        <3>2. OutputBucketLimit - n(OutputTarget) \in T
            BY <2>4
        <3>3. PICK least \in T : \A y \in T : least <= y
            <4> HIDE DEF T
            <4> QED BY <3>1, <3>2, NatLeast
        <3>4. PICK m \in B : least = OutputBucketLimit - m
            OBVIOUS
        <3>5. \A x \in B : x <= m
            <4> SUFFICES ASSUME NEW x \in B PROVE x <= m
                OBVIOUS
            <4>1. least <= OutputBucketLimit - x
                BY <3>3
            <4>2. x \in Nat /\ m \in Nat
                BY <2>3
            <4> QED BY <1>0, <3>4, <4>1, <4>2
        <3>6. B \in SUBSET Nat
            BY <2>3
        <3>7. Max(B) = m
            BY <3>5, <3>6, MaxIs
        <3> QED BY <3>7
    <2>6. s.maximum_bucket = Max(B)
        BY SearchCounts DEF B
    <2> QED BY <2>3, <2>5, <2>6
<1>14. s.exact_collisions = 0
    <2> DEFINE S == SameOutputs(outputs)
    <2>1. S = {}
        <3> SUFFICES ASSUME NEW p \in S PROVE FALSE
            BY Zenon
        <3>1. /\ p[1] \in D /\ p[2] \in D /\ p[1] < p[2]
              /\ outputs[p[1]] = outputs[p[2]]
            BY <1>0 DEF SameOutputs
        <3>2. p[1] = p[2]
            BY <1>3, <3>1
        <3>3. p[1] \in Nat
            BY <1>0, <3>1
        <3> QED BY <3>1, <3>2, <3>3
    <2>2. s.exact_collisions = Cardinality(S)
        BY SearchCounts
    <2> HIDE DEF S
    <2> QED BY <2>1, <2>2, FS_EmptySet
<1>15. s.recovered
    BY SearchCounts
<1> QED BY <1>8, <1>9, <1>10, <1>11, <1>12, <1>13, <1>14, <1>15, Zenon

\* The line of the search is good when its outputs are ordinary.
LEMMA OutputsWell ==
    ASSUME Told, Uneventful, IInv, CheckOutputs
    PROVE  Uneventful'
<1>1. CASE Comparing({"output_only"})
    <2>1. Name = "output_only" /\ step \in Nat /\ step < Comparisons(Name)
        BY <1>1 DEF Comparing, In, Told, Tells
    <2>2. step = 0
        BY <2>1, ComparisonsAre
    <2>3. ~Reporting({"output_only"})
        BY <2>1 DEF Reporting
    <2>4. CoreTakes(Rounds)
        BY <1>1, LineIsGood
    <2> DEFINE all == [0..(OutputCandidates - 1) -> TableStates]
               Found(outputs, unplanted) ==
                   SearchOf(Table(outputs), outputs[OutputTarget], unplanted,
                            OutputTarget)
    <2>5. PICK outputs \in all, unplanted \in TableStates :
              Compare([outputs |-> outputs, unplanted |-> unplanted],
                      Found(outputs, unplanted), OddOutputs(outputs, unplanted))
        BY <1>1, <2>3, <2>4 DEF CheckOutputs
    <2> DEFINE seen == [outputs |-> outputs, unplanted |-> unplanted]
               counted == Found(outputs, unplanted)
               unusual == OddOutputs(outputs, unplanted)
               u == Append(taken, seen)
    <2>6. ASSUME ~unusual
          PROVE  Ordinary(Name, Rounds, step + 1, u, counted)
        <3>1. seen.outputs = outputs /\ seen.unplanted = unplanted
            OBVIOUS
        <3> HIDE DEF seen, counted
        <3>2. u[step + 1] = seen
            BY <1>1, OneMoreOf
        <3> HIDE DEF u
        <3>3. step + 1 = 1
            BY <2>2
        <3>4. Name = "output_only" /\ u[1] = seen
            BY <2>1, <3>2, <3>3, Zenon
        <3> QED BY <2>5, <2>6, <3>1, <3>3, <3>4 DEF Ordinary, PairChecks
    <2>7. Compare(seen, counted, unusual)
        BY <2>5
    <2> HIDE DEF seen, counted, unusual
    <2> QED BY <1>1, <2>6, <2>7, ComparedWell
<1>2. CASE ~Comparing({"output_only"})
    <2> DEFINE found == /\ stats.planted_prefix \in 1..OutputLimit
                        /\ stats.planted_exact = 1 /\ stats.recovered
                        /\ stats.unplanted_prefix <= OutputLimit
                        /\ stats.unplanted_exact = 0
                        /\ stats.collision_pairs \in 1..OutputPairLimit
                        /\ stats.maximum_bucket <= OutputBucketLimit
                        /\ stats.exact_collisions = 0
    <2>1. /\ Reporting({"output_only"})
          /\ \E near \in BOOLEAN : odd' = (odd \/ near) /\ PrintLine(found /\ ~near)
        <3>1. PICK near \in BOOLEAN :
                  /\ odd' = (odd \/ near)
                  /\ PrintLine(/\ stats.planted_prefix \in 1..OutputLimit
                               /\ stats.planted_exact = 1 /\ stats.recovered
                               /\ stats.unplanted_prefix <= OutputLimit
                               /\ stats.unplanted_exact = 0
                               /\ stats.collision_pairs \in 1..OutputPairLimit
                               /\ stats.maximum_bucket <= OutputBucketLimit
                               /\ stats.exact_collisions = 0
                               /\ ~near)
            BY <1>2, Zenon DEF CheckOutputs
        <3>2. (found /\ ~near)
                  = (/\ stats.planted_prefix \in 1..OutputLimit
                     /\ stats.planted_exact = 1 /\ stats.recovered
                     /\ stats.unplanted_prefix <= OutputLimit
                     /\ stats.unplanted_exact = 0
                     /\ stats.collision_pairs \in 1..OutputPairLimit
                     /\ stats.maximum_bucket <= OutputBucketLimit
                     /\ stats.exact_collisions = 0
                     /\ ~near)
            OBVIOUS
        <3>3. Reporting({"output_only"})
            BY <1>2, Zenon DEF CheckOutputs
        <3> HIDE DEF found
        <3> QED BY <3>1, <3>2, <3>3, Zenon
    <2>2. PICK near \in BOOLEAN : odd' = (odd \/ near) /\ PrintLine(found /\ ~near)
        BY <2>1, Zenon
    <2>3. ASSUME ~odd PROVE found
        <3>1. check \in DOMAIN Checks /\ Name = "output_only" /\ step = 1
            BY <2>1, ReportedTells, ComparisonsAre DEF Reporting, In
        <3> DEFINE outputs == taken[1].outputs
                   unplanted == taken[1].unplanted
                   D == 0..(OutputCandidates - 1)
        <3>2. SearchMeans(outputs, unplanted, OutputTarget, stats)
            BY <2>1, <3>1, ReportedTells DEF Tells
        <3>3. Ordinary("output_only", Rounds, 1, taken, stats)
            BY <2>3, <3>1 DEF Uneventful
        <3>4. outputs \in [D -> TableStates] /\ ~OddOutputs(outputs, unplanted)
            BY <3>3 DEF Ordinary
        <3> HIDE DEF outputs, unplanted
        <3>5. DOMAIN outputs = D
            BY <3>4
        <3> QED BY <3>2, <3>4, <3>5, SearchIsGood
    <2>4. ~odd' => ~odd /\ (found /\ ~near)
        <3> HIDE DEF found
        <3> QED BY <2>2, <2>3
    <2> HIDE DEF found
    <2> QED BY <2>1, <2>2, <2>4, ReportedWell
<1> QED BY <1>1, <1>2

\* Usual orbits are counted nowhere.
LEMMA FixedPointsWell ==
    ASSUME Told, Uneventful, IInv, CheckFixedPoints
    PROVE  Uneventful'
<1>1. CASE Comparing({"fixed_point"})
    <2>1. Name = "fixed_point" /\ step \in Nat /\ step < Comparisons(Name)
        BY <1>1 DEF Comparing, In, Told, Tells
    <2>2. ~Reporting({"fixed_point"})
        BY <2>1 DEF Reporting
    <2>3. ASSUME ~HashSample
          PROVE  CoreTakes(FixedRounds[(step \div FixedPointSamples) + 1])
        <3> DEFINE q == step \div FixedPointSamples
        <3>1. /\ Len(FixedRounds) = 3 /\ FixedRounds[1] = 4
              /\ FixedRounds[2] = ReducedRounds /\ FixedRounds[3] = MixRounds
            BY DEF FixedRounds
        <3>2. FixedPointSamples \in Nat \ {0}
            BY SizesAre
        <3>3. step < FixedPointSamples * 3
            BY <2>1, <2>3, <3>1, <3>2 DEF HashSample
        <3>4. q \in Nat /\ step % FixedPointSamples \in Nat
              /\ step = (FixedPointSamples * q) + (step % FixedPointSamples)
            <4>1. /\ step \div FixedPointSamples \in Nat
                  /\ step % FixedPointSamples \in 0..(FixedPointSamples - 1)
                  /\ step = (FixedPointSamples * (step \div FixedPointSamples))
                               + (step % FixedPointSamples)
                BY <2>1, <3>2, DivMod
            <4> QED BY <3>2, <4>1
        <3> HIDE DEF q
        <3>5. q < 3
            <4>1. ASSUME 3 <= q PROVE FALSE
                <5>1. FixedPointSamples * 3 <= FixedPointSamples * q
                    BY <3>2, <3>4, <4>1, TimesMonotone
                <5>2. FixedPointSamples * q \in Nat /\ FixedPointSamples * 3 \in Nat
                    BY <3>2, <3>4
                <5> QED BY <2>1, <3>3, <3>4, <5>1, <5>2
            <4> QED BY <3>4, <4>1
        <3>6. q + 1 \in 1..3
            BY <3>4, <3>5
        <3>7. \A i \in 1..3 : FixedRounds[i] \in 1..MixRounds
            BY <3>1, SizesAre
        <3> QED BY <3>6, <3>7 DEF q, CoreTakes
    <2>4. PICK orbit \in Orbits :
              Compare([orbit |-> orbit, hash |-> HashSample], CountOrbit(orbit),
                      orbit # <<0, 1, 2>>)
        BY <1>1, <2>2, <2>3 DEF CheckFixedPoints
    <2>5. ASSUME ~(orbit # <<0, 1, 2>>), Ordinary(Name, Rounds, step, taken, stats)
          PROVE  CountOrbit(orbit) = stats
        <3>1. stats = [core_fixed |-> 0, core_two_cycles |-> 0,
                       hash_fixed |-> 0, hash_two_cycles |-> 0]
            BY <2>1, <2>5 DEF Ordinary, FreshStats
        <3>2. /\ One(orbit[1] = orbit[2]) = 0 /\ One(orbit[1] = orbit[3]) = 0
              /\ One(orbit[2] = orbit[3]) = 0
            BY <2>5 DEF One
        <3> DEFINE Fields == {"core_fixed", "core_two_cycles", "hash_fixed",
                              "hash_two_cycles"}
                   a == One(orbit[1] = orbit[2])
                   b == One(orbit[2] = orbit[3])
                   c == One(orbit[1] = orbit[3])
        <3>3. CountOrbit(orbit) =
                  IF HashSample
                  THEN [stats EXCEPT !.hash_fixed = @ + a, !.hash_two_cycles = @ + c]
                  ELSE [stats EXCEPT !.core_fixed = @ + a + b,
                                     !.core_two_cycles = @ + c]
            BY Zenon DEF CountOrbit
        <3> HIDE DEF a, b, c, Fields
        <3>4. a = 0 /\ b = 0 /\ c = 0
            BY <3>2 DEF a, b, c
        <3>5. stats \in [Fields -> Nat]
            BY <3>1 DEF Fields
        <3>6. [stats EXCEPT !.hash_fixed = @ + a, !.hash_two_cycles = @ + c] = stats
            <4>1. /\ stats.hash_fixed + a = stats.hash_fixed
                  /\ stats.hash_two_cycles + c = stats.hash_two_cycles
                BY <3>1, <3>4
            <4>2. [stats EXCEPT !.hash_fixed = stats.hash_fixed,
                                !.hash_two_cycles = stats.hash_two_cycles] = stats
                BY <3>5 DEF Fields
            <4> QED BY <4>1, <4>2, Zenon
        <3>7. [stats EXCEPT !.core_fixed = @ + a + b, !.core_two_cycles = @ + c] = stats
            <4>1. /\ stats.core_fixed + a + b = stats.core_fixed
                  /\ stats.core_two_cycles + c = stats.core_two_cycles
                BY <3>1, <3>4
            <4>2. [stats EXCEPT !.core_fixed = stats.core_fixed,
                                !.core_two_cycles = stats.core_two_cycles] = stats
                BY <3>5 DEF Fields
            <4> QED BY <4>1, <4>2, Zenon
        <3> QED BY <3>3, <3>6, <3>7, Zenon
    <2>6. ASSUME ~(orbit # <<0, 1, 2>>), Ordinary(Name, Rounds, step, taken, stats)
          PROVE  \A u : Ordinary(Name, Rounds, step + 1, u, CountOrbit(orbit))
        <3>1. CountOrbit(orbit) = FreshStats("fixed_point")
            BY <2>1, <2>5, <2>6 DEF Ordinary
        <3> QED BY <2>1, <3>1 DEF Ordinary, PairChecks
    <2> QED BY <1>1, <2>4, <2>6, ComparedWell
<1>2. CASE ~Comparing({"fixed_point"})
    <2> DEFINE good == \A f \in DOMAIN stats : stats[f] = 0
    <2>1. Reporting({"fixed_point"}) /\ PrintLine(good) /\ odd' = odd
        BY <1>2 DEF CheckFixedPoints
    <2>2. ASSUME ~odd PROVE good
        <3>1. check \in DOMAIN Checks /\ Name = "fixed_point"
            BY <2>1 DEF Reporting, In
        <3>2. stats = FreshStats("fixed_point")
            BY <2>2, <3>1 DEF Uneventful, Ordinary
        <3>3. stats = [core_fixed |-> 0, core_two_cycles |-> 0,
                       hash_fixed |-> 0, hash_two_cycles |-> 0]
            BY <3>2 DEF FreshStats
        <3> QED BY <3>3
    <2> HIDE DEF good
    <2> QED BY <2>1, <2>2, ReportedWell
<1> QED BY <1>1, <1>2

\* Different digests do not collide.
LEMMA NoneCollide ==
    ASSUME NEW digests \in [1..NearSamples -> 1..NearSamples], IsInjective(digests)
    PROVE  Collisions(digests) = 0
<1> DEFINE S == {p \in (DOMAIN digests) \X (DOMAIN digests) :
                     p[1] < p[2] /\ digests[p[1]] = digests[p[2]]}
<1>1. S = {}
    <2> SUFFICES ASSUME NEW p \in S PROVE FALSE
        BY Zenon
    <2>1. /\ p[1] \in 1..NearSamples /\ p[2] \in 1..NearSamples
          /\ p[1] < p[2] /\ digests[p[1]] = digests[p[2]]
        OBVIOUS
    <2>2. p[1] = p[2]
        BY <2>1 DEF IsInjective
    <2> QED BY <2>1, <2>2
<1>2. Collisions(digests) = Cardinality(S)
    BY DEF Collisions
<1> HIDE DEF S
<1> QED BY <1>1, <1>2, FS_EmptySet

\* The line of the near collisions.
LEMMA NearWell ==
    ASSUME Told, Uneventful, IInv, CheckNearCollisions
    PROVE  Uneventful'
<1>1. CASE Comparing({"near_collision"})
    <2>1. Name = "near_collision" /\ step \in Nat /\ step < Comparisons(Name)
        BY <1>1 DEF Comparing, In, Told, Tells
    <2>2. ~Reporting({"near_collision"})
        BY <2>1 DEF Reporting
    <2> DEFINE all == [1..NearSamples -> 1..NearSamples]
               Counted(d, e) == [collisions256 |-> Collisions(d),
                                 collisions512 |-> Collisions(e)]
    <2>3. PICK d \in all, e \in all :
              Compare([digests256 |-> d, digests512 |-> e], Counted(d, e),
                      ~(IsInjective(d) /\ IsInjective(e)))
        BY <1>1, <2>2 DEF CheckNearCollisions
    <2>4. ASSUME IsInjective(d) /\ IsInjective(e)
          PROVE  \A u : Ordinary(Name, Rounds, step + 1, u, Counted(d, e))
        <3>1. /\ Counted(d, e).collisions256 = 0
              /\ Counted(d, e).collisions512 = 0
            BY <2>4, NoneCollide
        <3> HIDE DEF Counted
        <3> QED BY <2>1, <3>1 DEF Ordinary, PairChecks
    <2> HIDE DEF Counted
    <2> QED BY <1>1, <2>3, <2>4, ComparedWell
<1>2. CASE ~Comparing({"near_collision"})
    <2> DEFINE none == stats.collisions256 = 0 /\ stats.collisions512 = 0
    <2>1. PICK near \in BOOLEAN :
              /\ odd' = (odd \/ near)
              /\ PrintLine(/\ stats.collisions256 = 0
                           /\ stats.collisions512 = 0
                           /\ ~near)
        BY <1>2 DEF CheckNearCollisions
    <2>2. Reporting({"near_collision"})
        BY <1>2 DEF CheckNearCollisions
    <2>3. ASSUME ~odd PROVE none
        <3>1. check \in DOMAIN Checks /\ Name = "near_collision" /\ step = 1
            BY <2>2, ReportedTells, ComparisonsAre DEF Reporting, In
        <3> QED BY <2>3, <3>1 DEF Uneventful, Ordinary
    <2>4. ~odd' => ~odd /\ (/\ stats.collisions256 = 0
                            /\ stats.collisions512 = 0
                            /\ ~near)
        BY <2>1, <2>3
    <2> QED BY <2>1, <2>2, <2>4, ReportedWell
<1> QED BY <1>1, <1>2

\* The program starts without misfortune, and every step keeps it so.
LEMMA UneventfulInit == Init => Uneventful
<1> SUFFICES ASSUME Init PROVE Uneventful
    OBVIOUS
<1>1. /\ step = 0 /\ taken = << >> /\ stats = FreshStats(Checks[1])
      /\ Name = Checks[1] /\ ok /\ all_ok
    BY DEF Init, Name
<1>2. Checks[1] \in CheckNames
    BY NamesAre
<1>3. Ordinary(Checks[1], Rounds, 0, << >>, FreshStats(Checks[1]))
    BY <1>2, FreshOrdinary
<1> QED BY <1>1, <1>3 DEF Uneventful

LEMMA UneventfulPreserved ==
    ASSUME Told, IInv, Uneventful, [Next]_vars
    PROVE  Uneventful'
<1>1. CASE UNCHANGED vars
    BY <1>1 DEF vars, Uneventful, Name, Rounds
<1>2. CASE DifferentialBias
    BY <1>2, DifferentialWell
<1>3. CASE CheckLinear
    BY <1>3, LinearWell
<1>4. CASE ReducedRoundSearch
    BY <1>4, ReducedWell
<1>5. CASE RotationalPair \/ AdditiveDifferential \/ RelatedContext
    BY <1>5, CasesWell
<1>6. CASE CheckProbability
    BY <1>6, ProbabilityWell
<1>7. CASE CompareTrail
    BY <1>7, ComparedTrailWell
<1>8. CASE ReportTrails
    BY <1>8, ReportedTrailsWell
<1>9. CASE CheckRoundtrip
    BY <1>9, RoundtripWell
<1>10. CASE CheckRebound
    BY <1>10, ReboundWell
<1>11. CASE CheckMitm
    BY <1>11, MitmWell
<1>12. CASE CheckOutputs
    BY <1>12, OutputsWell
<1>13. CASE CheckFixedPoints
    BY <1>13, FixedPointsWell
<1>14. CASE CheckNearCollisions
    BY <1>14, NearWell
<1>15. CASE ReturnAll
    BY <1>15, ReturnedWell
<1>16. CASE Exited
    BY <1>1, <1>16 DEF Exited
<1> QED BY <1>1, <1>2, <1>3, <1>4, <1>5, <1>6, <1>7, <1>8, <1>9, <1>10, <1>11,
           <1>12, <1>13, <1>14, <1>15, <1>16, Zenon DEF Next

\* The program fails only when an output or an average was out of the ordinary
\* (main's return value and the ok of every check of fch_cryptanalysis.c).
THEOREM MisfortuneFails == Spec => []FailsByMisfortune
<1>1. Uneventful => FailsByMisfortune
    BY DEF Uneventful, FailsByMisfortune
<1>2. Init => Told /\ IInv /\ Uneventful
    BY ToldInit, InvInit, UneventfulInit
<1>3. Told /\ IInv /\ Uneventful /\ [Next]_vars => (Told /\ IInv /\ Uneventful)'
    BY ToldPreserved, InvPreserved, UneventfulPreserved
<1> QED BY <1>1, <1>2, <1>3, PTL DEF Spec
=============================================================================
