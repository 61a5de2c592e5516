------------------------------ MODULE TreeProofs ------------------------------
(***************************************************************************)
(* Facts about the tree, for every leaf size, width of size_t and message:  *)
(* first the schedule (leaves, levels, the canonical split), then the       *)
(* recursion of the reference and the binary counter that builds the same   *)
(* nodes bottom-up.                                                         *)
(***************************************************************************)
EXTENDS TreeWorkspace, NatLemmas

-----------------------------------------------------------------------------
\* The range of size_t.

\* size_t has more values than bits.
LEMMA SizeMaxLarge == SizeMax \in Nat /\ SizeMax > WorkspaceSlots
<1>1. PICK n \in Nat : WorkspaceSlots = n + 2
    <2>1. WorkspaceSlots - 2 \in Nat /\ WorkspaceSlots = (WorkspaceSlots - 2) + 2
        BY ScheduleAssumption
    <2> QED BY <2>1
<1>2. Pow2[n] \in Nat /\ n < Pow2[n]
    BY Pow2Positive
<1>3. Pow2[n + 1] = 2 * Pow2[n] /\ Pow2[n + 2] = 2 * Pow2[n + 1]
    <2>1. n + 2 = (n + 1) + 1 /\ n + 1 \in Nat
        OBVIOUS
    <2> QED BY <2>1, Pow2Equation
<1> QED BY <1>1, <1>2, <1>3 DEF SizeMax

-----------------------------------------------------------------------------
\* The loops of fractal_split.c.

\* A number of size_t lies between two powers of two.
LEMMA LeastExponent ==
    ASSUME NEW v \in Nat, v <= SizeMax
    PROVE  LET k == LeastExponentAbove(v) IN
           /\ k \in 0..WorkspaceSlots
           /\ v < Pow2[k]
           /\ \A j \in 0..(k - 1) : Pow2[j] <= v
<1> DEFINE T == {k \in Nat : v < Pow2[k]}
           Stops(k) == /\ v < Pow2[k]
                       /\ \A j \in 0..(k - 1) : Pow2[j] <= v
<1>1. WorkspaceSlots \in T
    BY ScheduleAssumption, Pow2Equation DEF SizeMax
<1>2. PICK k \in T : \A j \in T : k <= j
    <2>1. T # {} /\ T \in SUBSET Nat
        BY <1>1
    <2> HIDE DEF T
    <2> QED BY <2>1, NatLeast
<1>3. k \in 0..WorkspaceSlots /\ v < Pow2[k]
    BY <1>1, <1>2, ScheduleAssumption
<1>4. ASSUME NEW j \in 0..(k - 1) PROVE Pow2[j] <= v
    <2>1. j \in Nat /\ ~(k <= j) /\ Pow2[j] \in Nat
        BY <1>3, Pow2Equation
    <2> QED BY <2>1, <1>2
<1>5. Stops(k)
    BY <1>3, <1>4
<1>6. LeastExponentAbove(v) = CHOOSE i \in 0..WorkspaceSlots : Stops(i)
    BY DEF LeastExponentAbove
<1> HIDE DEF Stops
<1>7. LeastExponentAbove(v) \in 0..WorkspaceSlots /\ Stops(LeastExponentAbove(v))
    BY <1>3, <1>5, <1>6
<1> QED BY <1>7 DEF Stops

\* It is the only exponent with that property.
LEMMA LeastExponentIs ==
    ASSUME NEW v \in Nat, NEW k \in 0..WorkspaceSlots, v < Pow2[k],
           k > 0 => Pow2[k - 1] <= v
    PROVE  LeastExponentAbove(v) = k
<1>1. v <= SizeMax
    <2>1. Pow2[k] <= Pow2[WorkspaceSlots] /\ Pow2[k] \in Nat
          /\ Pow2[WorkspaceSlots] \in Nat
        <3>1. k \in Nat /\ WorkspaceSlots \in Nat /\ k <= WorkspaceSlots
            BY ScheduleAssumption
        <3> QED BY <3>1, Pow2Monotone, Pow2Equation
    <2> QED BY <2>1 DEF SizeMax
<1> DEFINE e == LeastExponentAbove(v)
<1>2. /\ e \in 0..WorkspaceSlots
      /\ v < Pow2[e]
      /\ \A j \in 0..(e - 1) : Pow2[j] <= v
    BY <1>1, LeastExponent
<1> HIDE DEF e
<1>3. ~(k < e)
    <2>1. Pow2[k] \in Nat
        BY Pow2Equation
    <2> QED BY <1>2, <2>1
<1>4. ~(e < k)
    <2> SUFFICES ASSUME e < k PROVE FALSE
        OBVIOUS
    <2>1. k - 1 \in Nat /\ e \in Nat /\ e <= k - 1
        BY <1>2
    <2>2. Pow2[e] <= Pow2[k - 1] /\ Pow2[e] \in Nat /\ Pow2[k - 1] \in Nat
        BY <2>1, Pow2Monotone, Pow2Equation
    <2> QED BY <2>2, <1>2
<1> QED BY <1>2, <1>3, <1>4 DEF e

\* The largest power of two below a count: it is a power, less than the
\* count, and at least half of it, so the remainder is no longer.
LEMMA LargestPower ==
    ASSUME NEW v \in Nat, v >= 2, v <= SizeMax
    PROVE  LET k == LeastExponentAbove((v - 1) \div 2) IN
           /\ k \in 0..(WorkspaceSlots - 1)
           /\ LargestPowerOfTwoBelow(v) = Pow2[k]
           /\ Pow2[k] \in Nat \ {0}
           /\ Pow2[k] < v
           /\ v <= 2 * Pow2[k]
           /\ LeastExponentAbove(v - 1) = k + 1
<1> DEFINE m == (v - 1) \div 2
           k == LeastExponentAbove(m)
<1>1. v - 1 \in Nat /\ m \in Nat /\ 2 * m <= v - 1 /\ v - 1 <= 2 * m + 1
    OBVIOUS
<1>2. SizeMax \in Nat /\ m <= SizeMax /\ m <= SizeMax \div 2
    BY <1>1, SizeMaxLarge
<1> HIDE DEF m
<1>3. /\ k \in 0..WorkspaceSlots
      /\ m < Pow2[k]
      /\ \A j \in 0..(k - 1) : Pow2[j] <= m
    BY <1>1, <1>2, LeastExponent
<1> HIDE DEF k
<1>4. Pow2[k] \in Nat \ {0}
    BY <1>3, Pow2Positive
<1>5. v <= 2 * Pow2[k]
    BY <1>1, <1>3, <1>4
<1>6. Pow2[k] < v
    <2>1. CASE k = 0
        BY <2>1, Pow2Equation
    <2>2. CASE k > 0
        <3>1. k - 1 \in Nat /\ (k - 1) + 1 = k /\ k - 1 \in 0..(k - 1)
            BY <1>3, <2>2
        <3>2. Pow2[k] = 2 * Pow2[k - 1] /\ Pow2[k - 1] \in Nat
            BY <3>1, Pow2Equation
        <3>3. Pow2[k - 1] <= m
            BY <3>1, <1>3
        <3> QED BY <3>2, <3>3, <1>1
    <2> QED BY <2>1, <2>2, <1>3
<1>7. k # WorkspaceSlots
    BY <1>6, <1>4 DEF SizeMax
<1>8. k \in 0..(WorkspaceSlots - 1)
    BY <1>3, <1>7, ScheduleAssumption
<1>9. ~\E j \in 0..(k - 1) : Pow2[j] > SizeMax \div 2
    <2> SUFFICES ASSUME NEW j \in 0..(k - 1) PROVE Pow2[j] <= SizeMax \div 2
        BY <1>2, Pow2Equation
    <2>1. Pow2[j] <= m /\ Pow2[j] \in Nat
        BY <1>3, Pow2Equation
    <2> QED BY <2>1, <1>1, <1>2
<1>10. LargestPowerOfTwoBelow(v) = Pow2[k]
    BY <1>9 DEF LargestPowerOfTwoBelow, k, m
<1>11. LeastExponentAbove(v - 1) = k + 1
    <2>1. Pow2[k + 1] = 2 * Pow2[k] /\ k + 1 \in 0..WorkspaceSlots
          /\ (k + 1) - 1 = k
        BY <1>8, ScheduleAssumption, Pow2Equation
    <2>2. v - 1 < Pow2[k + 1] /\ Pow2[k] <= v - 1
        BY <2>1, <1>4, <1>5, <1>6
    <2> QED BY <1>1, <2>1, <2>2, LeastExponentIs
<1> QED BY <1>4, <1>5, <1>6, <1>8, <1>10, <1>11 DEF k, m

-----------------------------------------------------------------------------
\* Leaves and levels.

\* Adding whole leaves adds to the quotient and keeps the remainder.
LEMMA WholeLeaves ==
    ASSUME NEW a \in Nat, NEW q \in Nat
    PROVE  /\ q * LeafBytes \in Nat
           /\ (a + q * LeafBytes) \div LeafBytes = (a \div LeafBytes) + q
           /\ (a + q * LeafBytes) % LeafBytes = a % LeafBytes
<1> DEFINE d == a \div LeafBytes
           r == a % LeafBytes
<1>1. d \in Nat /\ r \in 0..(LeafBytes - 1) /\ a = LeafBytes * d + r
      /\ LeafBytes \in Nat \ {0}
    BY DivMod, ScheduleAssumption
<1> HIDE DEF d, r
<1>2. q * LeafBytes \in Nat /\ a + q * LeafBytes = (d + q) * LeafBytes + r
    BY <1>1
<1>3. d + q \in Nat
    BY <1>1
<1>4. ((d + q) * LeafBytes + r) \div LeafBytes = d + q
      /\ ((d + q) * LeafBytes + r) % LeafBytes = r
    BY <1>1, <1>3, DivModUnique
<1> QED BY <1>2, <1>4 DEF d, r

\* The leaves of a range cover it, and all but the last are full.
LEMMA LeavesCover ==
    ASSUME NEW length \in Nat \ {0}
    PROVE  LET n == LeafCount(length) IN
           /\ n \in Nat \ {0}
           /\ n <= length
           /\ length <= n * LeafBytes
           /\ (n - 1) * LeafBytes < length
<1> DEFINE q == (length - 1) \div LeafBytes
           r == (length - 1) % LeafBytes
<1>1. /\ q \in Nat
      /\ r \in 0..(LeafBytes - 1)
      /\ length - 1 = LeafBytes * q + r
      /\ LeafBytes \in Nat \ {0}
    <2>1. length - 1 \in Nat
        OBVIOUS
    <2> QED BY <2>1, DivMod, ScheduleAssumption
<1>2. LeafCount(length) = 1 + q
    BY DEF LeafCount
<1> HIDE DEF q, r
<1>3. /\ LeafBytes * q = q * LeafBytes
      /\ q * LeafBytes \in Nat
      /\ (1 + q) * LeafBytes = q * LeafBytes + LeafBytes
      /\ (1 + q) - 1 = q
    BY <1>1
<1>4. q <= q * LeafBytes
    <2>1. q * 1 <= q * LeafBytes
        BY <1>1, TimesMonotone
    <2> QED BY <2>1, <1>1
<1> QED BY <1>1, <1>2, <1>3, <1>4

\* Taking whole leaves from the front of a range takes as many from its count.
LEMMA LeavesWithout ==
    ASSUME NEW length \in Nat \ {0}, NEW q \in Nat, q < LeafCount(length)
    PROVE  /\ q * LeafBytes \in Nat
           /\ q * LeafBytes < length
           /\ LeafCount(length - q * LeafBytes) = LeafCount(length) - q
<1> DEFINE n == LeafCount(length)
<1>1. n \in Nat \ {0} /\ (n - 1) * LeafBytes < length
    BY LeavesCover
<1>2. LeafBytes \in Nat \ {0}
    BY ScheduleAssumption
<1> DEFINE rest == length - q * LeafBytes
<1>3. q * LeafBytes \in Nat /\ q * LeafBytes < length
    <2>1. n - 1 \in Nat /\ q <= n - 1
        BY <1>1
    <2>2. q * LeafBytes <= (n - 1) * LeafBytes
        BY <2>1, <1>2, TimesMonotone
    <2>3. q * LeafBytes \in Nat /\ (n - 1) * LeafBytes \in Nat
        BY <2>1, <1>2
    <2> HIDE DEF n
    <2> QED BY <2>2, <2>3, <1>1
<1>4. rest \in Nat \ {0} /\ rest - 1 \in Nat
      /\ length - 1 = (rest - 1) + q * LeafBytes
    BY <1>3
<1>5. (length - 1) \div LeafBytes = ((rest - 1) \div LeafBytes) + q
    <2> HIDE DEF rest
    <2> QED BY <1>4, WholeLeaves
<1>6. (rest - 1) \div LeafBytes \in Nat
    <2> HIDE DEF rest
    <2> QED BY <1>4, <1>2, DivMod
<1>7. LeafCount(rest) = n - q
    <2>1. rest # 0 /\ length # 0
        BY <1>4
    <2> HIDE DEF rest
    <2> QED BY <2>1, <1>5, <1>6 DEF LeafCount
<1> QED BY <1>3, <1>7

\* A number of full leaves has that many leaves.
LEMMA LeavesOfWhole ==
    ASSUME NEW q \in Nat \ {0}
    PROVE  q * LeafBytes \in Nat \ {0} /\ LeafCount(q * LeafBytes) = q
<1>1. LeafBytes \in Nat \ {0} /\ q - 1 \in Nat
    BY ScheduleAssumption
<1>2. (q - 1) * LeafBytes \in Nat
    BY <1>1
<1>3. q * LeafBytes = (q - 1) * LeafBytes + LeafBytes
    BY <1>1
<1>4. q * LeafBytes - 1 = (q - 1) * LeafBytes + (LeafBytes - 1)
      /\ q * LeafBytes \in Nat \ {0}
    BY <1>1, <1>2, <1>3
<1>5. ((q - 1) * LeafBytes + (LeafBytes - 1)) \div LeafBytes = q - 1
    <2>1. LeafBytes - 1 \in 0..(LeafBytes - 1)
        BY <1>1
    <2> QED BY <2>1, <1>1, DivModUnique
<1>6. LeafCount(q * LeafBytes) = 1 + (q - 1)
    BY <1>4, <1>5 DEF LeafCount
<1> QED BY <1>4, <1>6

\* Levels exist for every leaf count, and grow with it.
LEMMA LevelExists ==
    ASSUME NEW n \in Nat \ {0}, n <= SizeMax
    PROVE  /\ Level(n) \in 0..WorkspaceSlots
           /\ Level(n) # SizeMax
           /\ n - 1 < Pow2[Level(n)]
           /\ Level(n) = LeastExponentAbove(n - 1)
<1>1. Level(n) = LeastExponentAbove(n - 1) /\ n - 1 \in Nat
      /\ n - 1 <= SizeMax
    BY SizeMaxLarge DEF Level
<1>2. /\ Level(n) \in 0..WorkspaceSlots
      /\ n - 1 < Pow2[Level(n)]
    BY <1>1, LeastExponent
<1> QED BY <1>1, <1>2, SizeMaxLarge, ScheduleAssumption

LEMMA LevelAtMost ==
    ASSUME NEW n \in Nat \ {0}, NEW k \in 0..WorkspaceSlots,
           n <= SizeMax, n <= Pow2[k]
    PROVE  Level(n) <= k
<1> DEFINE e == LeastExponentAbove(n - 1)
<1>1. n - 1 \in Nat /\ n - 1 <= SizeMax
    BY SizeMaxLarge
<1>2. e \in 0..WorkspaceSlots /\ \A j \in 0..(e - 1) : Pow2[j] <= n - 1
    BY <1>1, LeastExponent
<1>3. Level(n) = e
    BY LevelExists
<1> HIDE DEF e
<1>4. ~(k < e)
    <2>1. Pow2[k] \in Nat
        BY Pow2Equation
    <2> QED BY <1>2, <2>1
<1> QED BY <1>2, <1>3, <1>4

-----------------------------------------------------------------------------
\* The split.

\* What fch_tree_position_for_range accepts.
LEMMA AcceptedRange ==
    ASSUME NEW offset \in Nat, NEW length \in Nat, RangeAccepted(offset, length)
    PROVE  /\ length \in Nat \ {0}
           /\ offset + length <= SizeMax
           /\ LeafCount(length) \in Nat \ {0}
           /\ LeafCount(length) <= length
           /\ LeafCount(length) <= SizeMax
           /\ offset \div LeafBytes \in Nat
           /\ offset \div LeafBytes + LeafCount(length) <= SizeMax
           /\ Level(LeafCount(length)) \in 0..WorkspaceSlots
           /\ PositionOf(offset, length) \in Position
<1>1. length \in Nat \ {0} /\ offset + length <= SizeMax /\ SizeMax \in Nat
    BY SizeMaxLarge DEF RangeAccepted
<1>2. LeafCount(length) \in Nat \ {0} /\ LeafCount(length) <= length
    BY <1>1, LeavesCover
<1>3. LeafCount(length) <= SizeMax
    BY <1>1, <1>2
<1>4. offset \div LeafBytes \in Nat
    BY DivMod, ScheduleAssumption
<1>5. offset \div LeafBytes + LeafCount(length) <= SizeMax
    BY <1>1, <1>2, <1>4 DEF RangeAccepted
<1>6. Level(LeafCount(length)) \in 0..WorkspaceSlots
    BY <1>2, <1>3, LevelExists
<1>7. Level(LeafCount(length)) \in 0..SizeMax
    BY <1>6, SizeMaxLarge, ScheduleAssumption
<1>8. PositionOf(offset, length) \in Position
    BY <1>1, <1>2, <1>3, <1>4, <1>5, <1>7 DEF PositionOf, Position
<1> QED BY <1>1, <1>2, <1>3, <1>4, <1>5, <1>6, <1>8

\* A range whose end is inside size_t is accepted when it is aligned.
LEMMA AcceptsInside ==
    ASSUME NEW offset \in Nat, NEW length \in Nat \ {0},
           offset + length <= SizeMax, offset % LeafBytes = 0,
           offset \div LeafBytes + LeafCount(length) <= SizeMax
    PROVE  RangeAccepted(offset, length)
<1>1. SizeMax \in Nat
    BY SizeMaxLarge
<1>2. LeafCount(length) \in Nat \ {0} /\ LeafCount(length) <= SizeMax
    <2>1. LeafCount(length) \in Nat \ {0} /\ LeafCount(length) <= length
        BY LeavesCover
    <2> QED BY <2>1, <1>1
<1>3. Level(LeafCount(length)) # SizeMax
    BY <1>2, LevelExists
<1>4. offset \div LeafBytes \in Nat
    BY DivMod, ScheduleAssumption
<1> QED BY <1>1, <1>2, <1>3, <1>4 DEF RangeAccepted

\* The geometry of a split, in numbers: k is the level of the left child.
LEMMA SplitNumbers ==
    ASSUME NEW offset \in Nat, NEW length \in Nat, RangeAccepted(offset, length),
           LeafCount(length) >= 2
    PROVE  LET n    == LeafCount(length)
               k    == LeastExponentAbove((n - 1) \div 2)
               left == Pow2[k] * LeafBytes
           IN
           /\ k \in 0..(WorkspaceSlots - 1)
           /\ LargestPowerOfTwoBelow(n) = Pow2[k]
           /\ Pow2[k] \in Nat \ {0}
           /\ Pow2[k] < n
           /\ n <= 2 * Pow2[k]
           /\ left \in Nat \ {0}
           /\ left < length
           /\ length <= 2 * left
           /\ LeafCount(left) = Pow2[k]
           /\ LeafCount(length - left) = n - Pow2[k]
           /\ (offset + left) \div LeafBytes = offset \div LeafBytes + Pow2[k]
           /\ RangeAccepted(offset, left)
           /\ RangeAccepted(offset + left, length - left)
           /\ Level(n) = k + 1
           /\ Level(Pow2[k]) <= k
           /\ Level(n - Pow2[k]) <= k
<1> DEFINE n == LeafCount(length)
           k == LeastExponentAbove((n - 1) \div 2)
           left == Pow2[k] * LeafBytes
<1>1. /\ length \in Nat \ {0}
      /\ offset + length <= SizeMax
      /\ n \in Nat \ {0}
      /\ n >= 2
      /\ n <= SizeMax
      /\ offset \div LeafBytes \in Nat
      /\ offset \div LeafBytes + n <= SizeMax
    BY AcceptedRange
<1>2. /\ SizeMax \in Nat
      /\ LeafBytes \in Nat \ {0}
      /\ offset % LeafBytes = 0
      /\ length <= n * LeafBytes
    BY <1>1, SizeMaxLarge, ScheduleAssumption, LeavesCover DEF RangeAccepted
<1> HIDE DEF n
<1>3. /\ k \in 0..(WorkspaceSlots - 1)
      /\ LargestPowerOfTwoBelow(n) = Pow2[k]
      /\ Pow2[k] \in Nat \ {0}
      /\ Pow2[k] < n
      /\ n <= 2 * Pow2[k]
      /\ LeastExponentAbove(n - 1) = k + 1
    BY <1>1, LargestPower
<1> HIDE DEF k
<1> DEFINE p == Pow2[k]
<1>4. p \in Nat \ {0} /\ p < n /\ n <= 2 * p
    BY <1>3
<1> HIDE DEF p
<1>5. /\ p * LeafBytes \in Nat \ {0}
      /\ LeafCount(p * LeafBytes) = p
    BY <1>4, LeavesOfWhole
<1>6. /\ p * LeafBytes < length
      /\ LeafCount(length - p * LeafBytes) = n - p
    BY <1>1, <1>4, LeavesWithout DEF n
<1>7. length <= 2 * (p * LeafBytes)
    <2>1. n * LeafBytes <= (2 * p) * LeafBytes
        BY <1>1, <1>2, <1>4, TimesMonotone
    <2>2. (2 * p) * LeafBytes = 2 * (p * LeafBytes) /\ n * LeafBytes \in Nat
        BY <1>1, <1>2, <1>4
    <2> QED BY <2>1, <2>2, <1>1, <1>2, <1>5
<1>8. /\ (offset + p * LeafBytes) \div LeafBytes = offset \div LeafBytes + p
      /\ (offset + p * LeafBytes) % LeafBytes = 0
    BY <1>2, <1>4, WholeLeaves
<1>9. RangeAccepted(offset, p * LeafBytes)
    <2>1. /\ offset + p * LeafBytes <= SizeMax
          /\ offset \div LeafBytes + LeafCount(p * LeafBytes) <= SizeMax
        BY <1>1, <1>2, <1>4, <1>5, <1>6
    <2> QED BY <2>1, <1>2, <1>5, AcceptsInside
<1>10. RangeAccepted(offset + p * LeafBytes, length - p * LeafBytes)
    <2> DEFINE o == offset + p * LeafBytes
               l == length - p * LeafBytes
    <2>1. /\ o \in Nat
          /\ l \in Nat \ {0}
          /\ o + l <= SizeMax
        BY <1>1, <1>5, <1>6
    <2>2. o % LeafBytes = 0 /\ o \div LeafBytes + LeafCount(l) <= SizeMax
        BY <1>1, <1>2, <1>4, <1>6, <1>8
    <2> HIDE DEF o, l
    <2>3. RangeAccepted(o, l)
        BY <2>1, <2>2, AcceptsInside
    <2> QED BY <2>3 DEF o, l
<1>11. Level(n) = k + 1
    BY <1>1, <1>3, LevelExists
<1>12. Level(p) <= k /\ Level(n - p) <= k
    <2>1. k \in 0..WorkspaceSlots /\ p = Pow2[k]
        BY <1>3, ScheduleAssumption DEF p
    <2>2. p <= SizeMax /\ n - p \in Nat \ {0} /\ n - p <= SizeMax
          /\ n - p <= Pow2[k] /\ p <= Pow2[k]
        BY <1>1, <1>2, <1>4, <2>1
    <2> QED BY <1>4, <2>1, <2>2, LevelAtMost
<1> QED
    BY <1>3, <1>5, <1>6, <1>7, <1>8, <1>9, <1>10, <1>11, <1>12 DEF p, n, k

\* A valid position of at least two leaves is always split: none of the
\* checks of fch_tree_split_position that follow the first two can fail.
THEOREM SplitAlways ==
    ASSUME NEW offset \in Nat, NEW length \in Nat, RangeAccepted(offset, length),
           LeafCount(length) >= 2
    PROVE  SplitAccepted(PositionOf(offset, length))
<1> DEFINE parent == PositionOf(offset, length)
           n      == LeafCount(length)
           k      == LeastExponentAbove((n - 1) \div 2)
           p      == Pow2[k]
           left   == p * LeafBytes
<1>1. /\ length \in Nat \ {0}
      /\ offset + length <= SizeMax
      /\ n \in Nat \ {0}
      /\ n <= SizeMax
      /\ offset \div LeafBytes \in Nat
    BY AcceptedRange
<1>2. /\ LargestPowerOfTwoBelow(n) = p
      /\ p \in Nat \ {0}
      /\ p < n
      /\ left \in Nat \ {0}
      /\ left < length
      /\ LeafCount(left) = p
      /\ LeafCount(length - left) = n - p
      /\ (offset + left) \div LeafBytes = offset \div LeafBytes + p
      /\ RangeAccepted(offset, left)
      /\ RangeAccepted(offset + left, length - left)
    BY SplitNumbers
<1> HIDE DEF p, k
<1>3. /\ parent.leaf_count = n
      /\ parent.byte_offset = offset
      /\ parent.byte_length = length
      /\ parent.first_leaf = offset \div LeafBytes
      /\ PositionValid(parent)
    BY DEF PositionOf, PositionValid
<1> HIDE DEF parent
<1>4. LeftLength(parent) = left
    BY <1>2, <1>3 DEF LeftLength
<1>5. p <= SizeMax \div LeafBytes
    <2>1. LeafBytes \in Nat \ {0} /\ SizeMax \in Nat /\ left <= SizeMax
        BY <1>1, <1>2, ScheduleAssumption, SizeMaxLarge
    <2> DEFINE q == SizeMax \div LeafBytes
               r == SizeMax % LeafBytes
    <2>2. q \in Nat /\ r \in 0..(LeafBytes - 1)
          /\ SizeMax = LeafBytes * q + r
        BY <2>1, DivMod
    <2> HIDE DEF q, r
    <2>3. (q + 1) * LeafBytes = LeafBytes * q + LeafBytes
        BY <2>1, <2>2
    <2>4. ~(q + 1 <= p)
        <3> SUFFICES ASSUME q + 1 <= p PROVE FALSE
            OBVIOUS
        <3>1. (q + 1) * LeafBytes <= p * LeafBytes
            BY <2>1, <2>2, <1>2, TimesMonotone
        <3> QED BY <3>1, <2>1, <2>2, <2>3, <1>2
    <2>5. p <= q
        BY <2>2, <2>4, <1>2
    <2> QED BY <2>5 DEF q
<1>6. /\ Children(parent)[1] = PositionOf(offset, left)
      /\ Children(parent)[2] = PositionOf(offset + left, length - left)
    BY <1>3, <1>4 DEF Children
<1>7. /\ PositionOf(offset, left).byte_offset = offset
      /\ PositionOf(offset, left).byte_length = left
      /\ PositionOf(offset, left).first_leaf = offset \div LeafBytes
      /\ PositionOf(offset, left).leaf_count = p
      /\ PositionOf(offset + left, length - left).byte_offset = offset + left
      /\ PositionOf(offset + left, length - left).byte_length = length - left
      /\ PositionOf(offset + left, length - left).first_leaf =
             offset \div LeafBytes + p
      /\ PositionOf(offset + left, length - left).leaf_count = n - p
    BY <1>2 DEF PositionOf
<1>8. p + (n - p) = n /\ p # 0 /\ n >= Arity
    BY <1>1, <1>2 DEF Arity
<1> HIDE DEF n, left
<1>9. SplitAccepted(parent)
    BY <1>2, <1>3, <1>4, <1>5, <1>6, <1>7, <1>8 DEF SplitAccepted
<1> QED BY <1>9 DEF parent

-----------------------------------------------------------------------------

\* What the recursion of Tree computes at a range, given what it computed at
\* shorter ones.
SplitBytes(length) == LargestPowerOfTwoBelow(LeafCount(length)) * LeafBytes

TreeStep(bytes, node, r) ==
    IF LeafCount(r[2]) <= 1
    THEN LeafNode(bytes, r[1], r[2])
    ELSE Parent(node[<<r[1], SplitBytes(r[2])>>],
                node[<<r[1] + SplitBytes(r[2]), r[2] - SplitBytes(r[2])>>])

\* The recursion descends to shorter ranges.
LEMMA SplitShorter ==
    ASSUME NEW r \in Ranges, ~(LeafCount(r[2]) <= 1)
    PROVE  LET left == SplitBytes(r[2]) IN
           /\ left \in Nat \ {0}
           /\ left < r[2]
           /\ <<r[1], left>> \in Ranges
           /\ <<r[1] + left, r[2] - left>> \in Ranges
<1> DEFINE length == r[2]
           left   == SplitBytes(length)
           p      == LargestPowerOfTwoBelow(LeafCount(length))
<1>1. /\ SizeMax \in Nat
      /\ r[1] \in Nat /\ length \in Nat
      /\ r[1] + length <= SizeMax
      /\ r = <<r[1], length>>
    BY SizeMaxLarge DEF Ranges
<1>2. length # 0
    BY DEF LeafCount
<1>3. /\ LeafCount(length) \in Nat
      /\ LeafCount(length) >= 2
      /\ LeafCount(length) <= SizeMax
    BY <1>1, <1>2, LeavesCover
<1>4. p \in Nat \ {0} /\ p < LeafCount(length)
    BY <1>3, LargestPower
<1>5. left \in Nat /\ left < length
    BY <1>1, <1>2, <1>4, LeavesWithout DEF SplitBytes
<1>6. left # 0
    BY <1>4, ScheduleAssumption DEF SplitBytes
<1> HIDE DEF left, length
<1>7. /\ left \in 0..SizeMax
      /\ r[1] + left \in 0..SizeMax
      /\ length - left \in 0..SizeMax
      /\ r[1] + left <= SizeMax
      /\ (r[1] + left) + (length - left) <= SizeMax
      /\ r[1] \in 0..SizeMax
    BY <1>1, <1>5
<1>8. <<r[1], left>> \in Ranges /\ <<r[1] + left, length - left>> \in Ranges
    BY <1>7 DEF Ranges
<1> QED BY <1>5, <1>6, <1>8 DEF left, length

\* The recursion has a solution on the ranges of every bounded length.
LEMMA TreeUpTo ==
    ASSUME NEW bytes, NEW n \in Nat
    PROVE  \E f : \A r \in Ranges : r[2] <= n => f[r] = TreeStep(bytes, f, r)
<1> DEFINE Solves(f, m) == \A r \in Ranges : r[2] <= m => f[r] = TreeStep(bytes, f, r)
           T == {m \in Nat : \E f : Solves(f, m)}
<1>1. 0 \in T
    <2> DEFINE f == [r \in Ranges |-> LeafNode(bytes, r[1], r[2])]
    <2>1. ASSUME NEW r \in Ranges, r[2] <= 0
          PROVE  f[r] = TreeStep(bytes, f, r)
        <3>1. r[2] = 0
            BY <2>1, SizeMaxLarge DEF Ranges
        <3>2. LeafCount(r[2]) <= 1
            BY <3>1 DEF LeafCount
        <3> QED BY <3>2 DEF TreeStep
    <2> HIDE DEF f
    <2> QED BY <2>1
<1>2. ASSUME NEW m \in T PROVE m + 1 \in T
    <2>1. PICK f : Solves(f, m)
        BY <1>2
    <2> DEFINE g == [r \in Ranges |-> TreeStep(bytes, f, r)]
    <2>2. \A r \in Ranges : g[r] = TreeStep(bytes, f, r)
        OBVIOUS
    <2> HIDE DEF g
    <2>3. ASSUME NEW r \in Ranges, r[2] <= m + 1
          PROVE  g[r] = TreeStep(bytes, g, r)
        <3>1. CASE LeafCount(r[2]) <= 1
            BY <2>2, <3>1 DEF TreeStep
        <3>2. CASE ~(LeafCount(r[2]) <= 1)
            <4> DEFINE left  == SplitBytes(r[2])
                       one   == <<r[1], left>>
                       other == <<r[1] + left, r[2] - left>>
            <4>1. /\ left \in Nat \ {0} /\ left < r[2]
                  /\ one \in Ranges /\ other \in Ranges
                BY <3>2, SplitShorter
            <4>2. r[2] \in Nat /\ m \in Nat
                BY SizeMaxLarge DEF Ranges
            <4>3. one[2] <= m /\ other[2] <= m
                BY <4>1, <4>2, <2>3
            <4>4. g[one] = f[one] /\ g[other] = f[other]
                BY <4>1, <4>3, <2>1, <2>2
            <4>5. /\ TreeStep(bytes, f, r) = Parent(f[one], f[other])
                  /\ TreeStep(bytes, g, r) = Parent(g[one], g[other])
                BY <3>2 DEF TreeStep
            <4> QED BY <4>4, <4>5, <2>2
        <3> QED BY <3>1, <3>2
    <2>4. Solves(g, m + 1)
        BY <2>3
    <2> QED BY <2>4
<1> HIDE DEF T
<1>3. T = Nat
    BY <1>1, <1>2, SetInduction DEF T
<1> QED BY <1>3 DEF T

\* The equation of Tree, at every range.
LEMMA TreeEquation ==
    ASSUME NEW bytes, NEW r \in Ranges
    PROVE  Tree(bytes)[r] = TreeStep(bytes, Tree(bytes), r)
<1> DEFINE Eqn(f) == f = [s \in Ranges |-> TreeStep(bytes, f, s)]
<1>1. PICK f : \A s \in Ranges : s[2] <= SizeMax => f[s] = TreeStep(bytes, f, s)
    BY TreeUpTo, SizeMaxLarge
<1> DEFINE g == [s \in Ranges |-> f[s]]
<1>2. ASSUME NEW s \in Ranges PROVE g[s] = TreeStep(bytes, g, s)
    <2>1. s[2] <= SizeMax
        BY SizeMaxLarge DEF Ranges
    <2>2. g[s] = TreeStep(bytes, f, s)
        BY <1>1, <2>1
    <2>3. CASE LeafCount(s[2]) <= 1
        BY <2>2, <2>3 DEF TreeStep
    <2>4. CASE ~(LeafCount(s[2]) <= 1)
        <3> DEFINE left  == SplitBytes(s[2])
                   one   == <<s[1], left>>
                   other == <<s[1] + left, s[2] - left>>
        <3>1. one \in Ranges /\ other \in Ranges
            BY <2>4, SplitShorter
        <3>2. g[one] = f[one] /\ g[other] = f[other]
            BY <3>1
        <3>3. /\ TreeStep(bytes, f, s) = Parent(f[one], f[other])
              /\ TreeStep(bytes, g, s) = Parent(g[one], g[other])
            BY <2>4 DEF TreeStep
        <3> QED BY <2>2, <3>2, <3>3
    <2> QED BY <2>3, <2>4
<1>3. g = [s \in Ranges |-> g[s]]
    OBVIOUS
<1> HIDE DEF g
<1>4. Eqn(g)
    BY <1>2, <1>3
<1>5. Eqn(CHOOSE h : Eqn(h))
    <2> HIDE DEF Eqn
    <2> QED BY <1>4
<1>6. Tree(bytes) = CHOOSE h : Eqn(h)
    BY DEF Tree, TreeStep, SplitBytes
<1>7. Tree(bytes) = [s \in Ranges |-> TreeStep(bytes, Tree(bytes), s)]
    BY <1>5, <1>6
<1> QED BY <1>7

\* A node of the tree stands at the position of its range.
LEMMA NodePlace ==
    ASSUME NEW bytes, NEW r \in Ranges
    PROVE  /\ Tree(bytes)[r].occupied = TRUE
           /\ Tree(bytes)[r].tree = PositionOf(r[1], r[2])
<1> DEFINE tree == Tree(bytes)
           Stands(s) == /\ tree[s].occupied = TRUE
                        /\ tree[s].tree = PositionOf(s[1], s[2])
           T == {n \in Nat : \A s \in Ranges : s[2] <= n => Stands(s)}
<1>1. \A s \in Ranges : tree[s] = TreeStep(bytes, tree, s)
    BY TreeEquation
<1> HIDE DEF tree
<1>2. ASSUME NEW s \in Ranges, LeafCount(s[2]) <= 1 PROVE Stands(s)
    <2>1. tree[s] = LeafNode(bytes, s[1], s[2])
        BY <1>1, <1>2 DEF TreeStep
    <2> QED BY <2>1 DEF LeafNode, NodeOf
<1>3. 0 \in T
    <2> SUFFICES ASSUME NEW s \in Ranges, s[2] <= 0 PROVE Stands(s)
        OBVIOUS
    <2>1. s[2] = 0
        BY SizeMaxLarge DEF Ranges
    <2>2. LeafCount(s[2]) <= 1
        BY <2>1 DEF LeafCount
    <2> QED BY <1>2, <2>2
<1>4. ASSUME NEW n \in T PROVE n + 1 \in T
    <2>0. n \in Nat /\ \A s \in Ranges : s[2] <= n => Stands(s)
        BY <1>4
    <2> SUFFICES ASSUME NEW s \in Ranges, s[2] <= n + 1, ~(LeafCount(s[2]) <= 1)
                 PROVE  Stands(s)
        <3> HIDE DEF Stands
        <3>1. \A s \in Ranges : s[2] <= n + 1 => Stands(s)
            BY <1>2
        <3> QED BY <2>0, <3>1
    <2> DEFINE left  == SplitBytes(s[2])
               one   == <<s[1], left>>
               other == <<s[1] + left, s[2] - left>>
    <2>1. /\ left \in Nat \ {0} /\ left < s[2]
          /\ one \in Ranges /\ other \in Ranges
        BY SplitShorter
    <2>2. s[2] \in Nat /\ s[1] \in Nat
        BY SizeMaxLarge DEF Ranges
    <2>3. Stands(one) /\ Stands(other)
        <3>1. one[2] <= n /\ other[2] <= n
            BY <2>0, <2>1, <2>2
        <3> HIDE DEF one, other
        <3> QED BY <2>0, <2>1, <3>1
    <2>4. /\ tree[one].tree.byte_offset = s[1]
          /\ tree[one].tree.byte_length = left
          /\ tree[other].tree.byte_length = s[2] - left
        BY <2>3 DEF PositionOf
    <2>5. tree[s] = Parent(tree[one], tree[other])
        BY <1>1 DEF TreeStep
    <2>6. left + (s[2] - left) = s[2]
        BY <2>1, <2>2
    <2>7. tree[s] = Combine(tree[one], tree[other], s[2])
        BY <2>4, <2>5, <2>6 DEF Parent
    <2>8. /\ tree[s].occupied = TRUE
          /\ tree[s].tree = PositionOf(tree[one].tree.byte_offset, s[2])
        BY <2>7 DEF Combine, NodeOf
    <2> QED BY <2>4, <2>8
<1> HIDE DEF T
<1>5. T = Nat
    BY <1>3, <1>4, SetInduction DEF T
<1>6. r[2] \in Nat
    BY SizeMaxLarge DEF Ranges
<1>7. r[2] \in T
    BY <1>5, <1>6
<1> QED BY <1>6, <1>7 DEF T, tree

-----------------------------------------------------------------------------
(* Siblings *)

\* The left child of a range has the largest power of two of leaves below its
\* number: a power that leaves no more than itself is that power.
LEMMA PowerBelow ==
    ASSUME NEW k \in Nat, NEW c \in 1..Pow2[k], Pow2[k] + c <= SizeMax
    PROVE  LargestPowerOfTwoBelow(Pow2[k] + c) = Pow2[k]
<1> DEFINE n == Pow2[k] + c
           e == LeastExponentAbove((n - 1) \div 2)
<1>1. Pow2[k] \in Nat \ {0}
    BY Pow2Positive
<1>2. n \in Nat /\ n >= 2 /\ n <= SizeMax
    BY <1>1
<1> HIDE DEF n
<1>3. /\ e \in 0..(WorkspaceSlots - 1)
      /\ LargestPowerOfTwoBelow(n) = Pow2[e]
      /\ Pow2[e] \in Nat \ {0}
      /\ Pow2[e] < n
      /\ n <= 2 * Pow2[e]
    BY <1>2, LargestPower
<1> HIDE DEF e
<1>4. e \in Nat
    BY <1>3, ScheduleAssumption
<1>5. Pow2[k] < n /\ n <= 2 * Pow2[k]
    BY <1>1 DEF n
<1>6. ~(e < k)
    <2> SUFFICES ASSUME e < k PROVE FALSE
        OBVIOUS
    <2>1. 2 * Pow2[e] <= Pow2[k]
        BY <1>4, Pow2Monotone
    <2> QED BY <2>1, <1>1, <1>2, <1>3, <1>5
<1>7. ~(k < e)
    <2> SUFFICES ASSUME k < e PROVE FALSE
        OBVIOUS
    <2>1. 2 * Pow2[k] <= Pow2[e]
        BY <1>4, Pow2Monotone
    <2> QED BY <2>1, <1>1, <1>2, <1>3, <1>5
<1>8. e = k
    BY <1>4, <1>6, <1>7
<1> QED BY <1>3, <1>8 DEF n

\* Whole leaves in front add their number.
LEMMA LeavesAfter ==
    ASSUME NEW q \in Nat, NEW rest \in Nat \ {0}
    PROVE  /\ q * LeafBytes + rest \in Nat \ {0}
           /\ LeafCount(q * LeafBytes + rest) = q + LeafCount(rest)
<1> DEFINE whole == q * LeafBytes
<1>1. whole \in Nat /\ rest - 1 \in Nat /\ LeafBytes \in Nat \ {0}
    BY ScheduleAssumption
<1>2. ((rest - 1) + whole) \div LeafBytes = (rest - 1) \div LeafBytes + q
    BY <1>1, WholeLeaves
<1>3. (rest - 1) \div LeafBytes \in Nat
    BY <1>1, DivMod
<1> HIDE DEF whole
<1>4. /\ whole + rest # 0
      /\ rest # 0
      /\ whole + rest \in Nat
      /\ (whole + rest) - 1 = (rest - 1) + whole
    BY <1>1
<1>5. /\ LeafCount(whole + rest) = 1 + ((rest - 1) + whole) \div LeafBytes
      /\ LeafCount(rest) = 1 + (rest - 1) \div LeafBytes
    BY <1>4 DEF LeafCount
<1>6. LeafCount(whole + rest) = q + LeafCount(rest)
    BY <1>2, <1>3, <1>5
<1> QED BY <1>4, <1>6 DEF whole

\* Two nodes pass every check of their combination, which gives a third.
Joins(one, other, node) ==
    SlotsCombine(one, other) /\ CombineSlots(one, other) = node

\* A full subtree and a right neighbour of no more leaves pass every check of
\* combine_workspace_states and fch_combine_into, and what they combine to is
\* the tree over both.
LEMMA SiblingsCombine ==
    ASSUME NEW bytes, NEW offset \in Nat, NEW k \in Nat,
           NEW left, left = Pow2[k] * LeafBytes,
           NEW right \in Nat \ {0}, LeafCount(right) <= Pow2[k],
           RangeAccepted(offset, left + right)
    PROVE  Joins(TreeNode(bytes, offset, left), TreeNode(bytes, offset + left, right),
                 TreeNode(bytes, offset, left + right))
<1> DEFINE length == left + right
           one    == TreeNode(bytes, offset, left)
           other  == TreeNode(bytes, offset + left, right)
           c      == LeafCount(right)
           n      == LeafCount(length)
           parent == PositionOf(offset, length)
<1>1. /\ Pow2[k] \in Nat \ {0}
      /\ LeafBytes \in Nat \ {0}
      /\ left \in Nat \ {0}
      /\ LeafCount(left) = Pow2[k]
    BY Pow2Positive, LeavesOfWhole, ScheduleAssumption
<1>2. c \in Nat \ {0} /\ c <= Pow2[k]
    BY LeavesCover
<1>3. n = Pow2[k] + c
    BY <1>1, LeavesAfter
<1>4. /\ length \in Nat
      /\ RangeAccepted(offset, length)
      /\ length \in Nat \ {0}
      /\ offset + length <= SizeMax
      /\ n <= SizeMax
      /\ n >= 2
    <2>1. length \in Nat /\ RangeAccepted(offset, length)
        BY <1>1
    <2> HIDE DEF length
    <2>2. offset + length <= SizeMax /\ n <= SizeMax /\ length \in Nat \ {0}
        BY <2>1, AcceptedRange
    <2> QED BY <2>1, <2>2, <1>1, <1>2, <1>3
<1>5. LargestPowerOfTwoBelow(n) = Pow2[k]
    <2>1. c \in 1..Pow2[k]
        BY <1>1, <1>2
    <2> HIDE DEF c, n
    <2> QED BY <2>1, <1>3, <1>4, PowerBelow
<1>6. SizeMax \in Nat
    BY SizeMaxLarge
<1>7. /\ <<offset, length>> \in Ranges
      /\ <<offset, left>> \in Ranges
      /\ <<offset + left, right>> \in Ranges
    BY <1>1, <1>4, <1>6 DEF Ranges
<1>8. /\ one.occupied = TRUE
      /\ one.tree = PositionOf(offset, left)
      /\ other.occupied = TRUE
      /\ other.tree = PositionOf(offset + left, right)
    BY <1>7, NodePlace DEF TreeNode
<1> HIDE DEF one, other
<1>9. /\ one.tree.byte_offset = offset
      /\ one.tree.byte_length = left
      /\ other.tree.byte_length = right
    BY <1>8 DEF PositionOf
<1>10. CombineSlots(one, other) = TreeNode(bytes, offset, length)
    <2>1. SplitBytes(length) = left
        BY <1>5 DEF SplitBytes
    <2>2. length - left = right
        BY <1>1
    <2>3. Tree(bytes)[<<offset, length>>]
              = TreeStep(bytes, Tree(bytes), <<offset, length>>)
        BY <1>7, TreeEquation
    <2>4. ~(n <= 1)
        BY <1>2, <1>1, <1>3
    <2> HIDE DEF length
    <2>5. TreeStep(bytes, Tree(bytes), <<offset, length>>) = Parent(one, other)
        BY <2>1, <2>2, <2>4 DEF TreeStep, one, other, TreeNode
    <2> QED BY <2>3, <2>5 DEF Parent, CombineSlots, TreeNode
<1>11. SplitAccepted(parent)
    <2> HIDE DEF length
    <2> QED BY <1>4, SplitAlways
<1>12. Children(parent) = << one.tree, other.tree >>
    <2>1. /\ parent.leaf_count = n
          /\ parent.byte_offset = offset
          /\ parent.byte_length = length
        BY DEF PositionOf
    <2>2. LeftLength(parent) = left
        BY <2>1, <1>5 DEF LeftLength
    <2>3. length - left = right
        BY <1>1
    <2> HIDE DEF parent, length
    <2> QED BY <2>1, <2>2, <2>3, <1>8 DEF Children
<1>13. PositionValid(one.tree) /\ PositionValid(other.tree)
    <2>1. /\ Children(parent)[1] = one.tree
          /\ Children(parent)[2] = other.tree
        BY <1>12
    <2>2. /\ RangeAccepted(one.tree.byte_offset, one.tree.byte_length)
          /\ RangeAccepted(other.tree.byte_offset, other.tree.byte_length)
        BY <1>11, <2>1 DEF SplitAccepted
    <2> QED BY <2>2, <1>8 DEF PositionValid, PositionOf
<1>14. SlotsCombine(one, other)
    <2>1. left <= SizeMax - right
        BY <1>1, <1>4, <1>6
    <2> QED BY <2>1, <1>4, <1>8, <1>9, <1>11, <1>12, <1>13
            DEF SlotsCombine, CombineAccepted, ChildBlocks
<1> QED BY <1>10, <1>14 DEF Joins, one, other

-----------------------------------------------------------------------------
(* Runs of leaves *)

\* Where leaf number `leaf` starts, or the end of a message that is shorter.
End(leaf, length) ==
    IF leaf * LeafBytes <= length THEN leaf * LeafBytes ELSE length

\* The tree over the leaves from number i to number j - 1 of a range.
Over(bytes, offset, length, i, j) ==
    TreeNode(bytes, offset + i * LeafBytes, End(j, length) - i * LeafBytes)

\* A run of leaves inside a range that is accepted, of 1 leaf at least.
LEMMA RunOfLeaves ==
    ASSUME NEW length \in Nat \ {0}, NEW i \in Nat, NEW j \in Nat,
           i < j, j <= LeafCount(length)
    PROVE  LET run == End(j, length) - i * LeafBytes IN
           /\ i * LeafBytes \in Nat
           /\ run \in Nat \ {0}
           /\ i * LeafBytes + run <= length
           /\ LeafCount(run) = j - i
<1> DEFINE run == End(j, length) - i * LeafBytes
<1>1. /\ LeafCount(length) \in Nat \ {0}
      /\ length <= LeafCount(length) * LeafBytes
      /\ LeafBytes \in Nat \ {0}
    BY LeavesCover, ScheduleAssumption
<1>2. /\ i * LeafBytes \in Nat
      /\ i * LeafBytes < length
      /\ LeafCount(length - i * LeafBytes) = LeafCount(length) - i
    BY <1>1, LeavesWithout
<1>3. CASE j * LeafBytes <= length
    <2>1. j - i \in Nat \ {0} /\ (j - i) * LeafBytes = j * LeafBytes - i * LeafBytes
        BY <1>1
    <2>2. run = (j - i) * LeafBytes
        BY <1>3, <2>1 DEF End
    <2>3. run \in Nat \ {0} /\ LeafCount(run) = j - i
        BY <2>1, <2>2, LeavesOfWhole
    <2>4. i * LeafBytes + run = j * LeafBytes
        BY <2>1, <2>2, <1>1, <1>2
    <2> QED BY <2>3, <2>4, <1>2, <1>3
<1>4. CASE ~(j * LeafBytes <= length)
    <2>1. ~(j < LeafCount(length))
        <3> SUFFICES ASSUME j < LeafCount(length) PROVE FALSE
            OBVIOUS
        <3>1. j * LeafBytes \in Nat /\ j * LeafBytes < length
            BY <1>1, LeavesWithout
        <3> QED BY <3>1, <1>4
    <2>2. j = LeafCount(length)
        BY <2>1, <1>1
    <2>3. run = length - i * LeafBytes
        BY <1>4 DEF End
    <2> HIDE DEF run
    <2>4. run \in Nat \ {0} /\ i * LeafBytes + run = length
        BY <2>3, <1>2
    <2> QED BY <2>2, <2>3, <2>4, <1>2 DEF run
<1> QED BY <1>3, <1>4

\* A run of 2^k leaves and the run behind it, no longer, are combined to the
\* run of both.
LEMMA RunsCombine ==
    ASSUME NEW bytes, NEW offset \in Nat, NEW length \in Nat,
           RangeAccepted(offset, length),
           NEW i \in Nat, NEW k \in Nat, NEW m, m = i + Pow2[k],
           NEW j \in Nat, m < j, j <= m + Pow2[k], j <= LeafCount(length)
    PROVE  Joins(Over(bytes, offset, length, i, m),
                 Over(bytes, offset, length, m, j),
                 Over(bytes, offset, length, i, j))
<1> DEFINE left == Pow2[k] * LeafBytes
           right == End(j, length) - m * LeafBytes
           from == offset + i * LeafBytes
<1>1. /\ Pow2[k] \in Nat \ {0}
      /\ LeafBytes \in Nat \ {0}
      /\ SizeMax \in Nat
    BY Pow2Positive, ScheduleAssumption, SizeMaxLarge
<1>2. /\ length \in Nat \ {0}
      /\ offset + length <= SizeMax
      /\ LeafCount(length) \in Nat
      /\ offset \div LeafBytes \in Nat
      /\ offset \div LeafBytes + LeafCount(length) <= SizeMax
    BY AcceptedRange
<1>0. m \in Nat /\ m < j /\ i < j /\ i < m /\ m <= LeafCount(length)
    BY <1>1, <1>2
<1>3. /\ m * LeafBytes \in Nat
      /\ right \in Nat \ {0}
      /\ m * LeafBytes + right <= length
      /\ LeafCount(right) = j - m
    BY <1>0, <1>2, RunOfLeaves
<1>4. /\ m * LeafBytes = i * LeafBytes + left
      /\ i * LeafBytes \in Nat
      /\ left \in Nat
    BY <1>1
<1>5. End(m, length) = m * LeafBytes
    BY <1>2, <1>3 DEF End
<1> HIDE DEF right, left
<1>6. /\ End(m, length) - i * LeafBytes = left
      /\ offset + m * LeafBytes = from + left
      /\ End(j, length) - i * LeafBytes = left + right
    <2>1. End(j, length) \in Nat
        BY <1>1, <1>2 DEF End
    <2>2. right = End(j, length) - m * LeafBytes
        BY DEF right
    <2> DEFINE a == m * LeafBytes
               b == i * LeafBytes
               e == End(j, length)
    <2>3. /\ a = b + left /\ a \in Nat /\ b \in Nat /\ left \in Nat /\ e \in Nat
          /\ right = e - a /\ End(m, length) = a
        BY <2>1, <2>2, <1>3, <1>4, <1>5
    <2> HIDE DEF a, b, e
    <2>4. /\ End(m, length) - b = left
          /\ offset + a = (offset + b) + left
          /\ e - b = left + right
        BY <2>3
    <2> QED BY <2>4 DEF a, b, e
<1>7. RangeAccepted(from, left + right)
    <2>1. left + right \in Nat \ {0} /\ LeafCount(left + right) = Pow2[k] + (j - m)
        <3>1. \A r \in Nat \ {0} :
                 /\ Pow2[k] * LeafBytes + r \in Nat \ {0}
                 /\ LeafCount(Pow2[k] * LeafBytes + r) = Pow2[k] + LeafCount(r)
            BY <1>1, LeavesAfter
        <3> QED BY <1>3, <3>1 DEF left
    <2>2. /\ from \in Nat
          /\ from \div LeafBytes = offset \div LeafBytes + i
          /\ from % LeafBytes = 0
        <3>1. offset % LeafBytes = 0
            BY DEF RangeAccepted
        <3>2. /\ (offset + i * LeafBytes) \div LeafBytes = offset \div LeafBytes + i
              /\ (offset + i * LeafBytes) % LeafBytes = offset % LeafBytes
            BY WholeLeaves
        <3> QED BY <1>4, <3>1, <3>2
    <2>3. from + (left + right) <= SizeMax
        BY <1>1, <1>2, <1>3, <1>4
    <2>4. from \div LeafBytes + LeafCount(left + right) <= SizeMax
        <3>1. Pow2[k] + (j - m) = j - i
            BY <1>1
        <3> QED BY <1>0, <1>1, <1>2, <2>1, <2>2, <3>1
    <2> HIDE DEF from
    <2>5. \A n \in Nat \ {0} : n = left + right => RangeAccepted(from, n)
        BY <2>1, <2>2, <2>3, <2>4, AcceptsInside
    <2> QED BY <2>1, <2>5
<1>8. LeafCount(right) <= Pow2[k]
    BY <1>0, <1>1, <1>3
<1>9. from \in Nat
    BY <1>4
<1> HIDE DEF from
<1>10. Joins(TreeNode(bytes, from, left), TreeNode(bytes, from + left, right),
             TreeNode(bytes, from, left + right))
    <2>1. left = Pow2[k] * LeafBytes
        BY DEF left
    <2> QED BY <2>1, <1>3, <1>7, <1>8, <1>9, SiblingsCombine
<1>11. /\ Over(bytes, offset, length, i, m) = TreeNode(bytes, from, left)
       /\ Over(bytes, offset, length, m, j) = TreeNode(bytes, from + left, right)
       /\ Over(bytes, offset, length, i, j) = TreeNode(bytes, from, left + right)
    BY <1>6 DEF Over, from, right
<1> QED BY <1>10, <1>11

-----------------------------------------------------------------------------
(* Counting in binary *)

\* The quotient and remainder of one power of two give those of the next.
LEMMA HalfIndex ==
    ASSUME NEW c \in Nat, NEW l \in Nat
    PROVE  LET q == c \div Pow2[l] IN
           /\ q \in Nat /\ q % 2 \in {0, 1}
           /\ c \div Pow2[l + 1] \in Nat
           /\ q = 2 * (c \div Pow2[l + 1]) + (q % 2)
           /\ c % Pow2[l + 1] = (q % 2) * Pow2[l] + (c % Pow2[l])
           /\ c % Pow2[l] \in 0..(Pow2[l] - 1)
           /\ c = Pow2[l] * q + (c % Pow2[l])
<1> DEFINE b == Pow2[l]
           q == c \div b
           r == c % b
           t == q \div 2
           e == q % 2
<1>1. b \in Nat \ {0} /\ Pow2[l + 1] = 2 * b
    BY Pow2Positive, Pow2Equation
<1> HIDE DEF b
<1>2. q \in Nat /\ r \in 0..(b - 1) /\ c = b * q + r
    BY <1>1, DivMod
<1> HIDE DEF q, r
<1>3. t \in Nat /\ e \in {0, 1} /\ q = 2 * t + e
    BY <1>2
<1> HIDE DEF t, e
<1> DEFINE d == 2 * b
           s == e * b + r
<1>4. d \in Nat \ {0} /\ s \in 0..(d - 1)
    BY <1>1, <1>2, <1>3
<1>5. c = t * d + s
    <2>1. b * (2 * t + e) = t * (2 * b) + e * b
        BY <1>1, <1>3
    <2>2. b * (2 * t + e) \in Nat /\ e * b \in Nat /\ t * (2 * b) \in Nat
        BY <1>1, <1>3
    <2> QED BY <2>1, <2>2, <1>2, <1>3
<1> HIDE DEF d, s
<1>6. c \div d = t /\ c % d = s
    BY <1>3, <1>4, <1>5, DivModUnique
<1>7. d = Pow2[l + 1]
    BY <1>1 DEF d
<1> QED BY <1>1, <1>2, <1>3, <1>6, <1>7 DEF s, e, q, r, b

\* An increment: the slots below some slot s are set and become free, slot s
\* is free and becomes set, and the slots above it stay.
LEMMA Increment ==
    ASSUME NEW c \in Nat, c + 1 <= SizeMax
    PROVE  \E s \in Slots :
               /\ (c \div Pow2[s]) % 2 = 0
               /\ \A l \in 0..s :
                      /\ l < s => (c \div Pow2[l]) % 2 = 1
                      /\ c + 1 = ((c \div Pow2[l]) + 1) * Pow2[l]
                      /\ (c + 1) \div Pow2[l] = (c \div Pow2[l]) + 1
               /\ \A l \in Slots :
                      s < l => (c + 1) \div Pow2[l] = c \div Pow2[l]
<1> DEFINE Q(l) == c \div Pow2[l]
           Free == {l \in Nat : Q(l) % 2 = 0}
<1>0. /\ WorkspaceSlots \in Nat
      /\ SizeMax + 1 = Pow2[WorkspaceSlots]
      /\ SizeMax \in Nat
    BY ScheduleAssumption, SizeMaxLarge, Pow2Positive DEF SizeMax
<1>1. \A l \in Nat : /\ Pow2[l] \in Nat \ {0}
                     /\ Q(l) \in Nat
                     /\ Q(l) % 2 \in {0, 1}
                     /\ Q(l) = 2 * Q(l + 1) + (Q(l) % 2)
    <2> SUFFICES ASSUME NEW l \in Nat
                 PROVE  /\ Pow2[l] \in Nat \ {0}
                        /\ Q(l) \in Nat
                        /\ Q(l) % 2 \in {0, 1}
                        /\ Q(l) = 2 * Q(l + 1) + (Q(l) % 2)
        OBVIOUS
    <2> QED BY HalfIndex, Pow2Positive
<1>2. Q(WorkspaceSlots) = 0
    <2>1. c \in 0..(Pow2[WorkspaceSlots] - 1)
        BY <1>0
    <2>2. Pow2[WorkspaceSlots] \in Nat \ {0} /\ 0 \in Nat
        BY <1>0, <1>1
    <2>3. 0 * Pow2[WorkspaceSlots] + c = c
        BY <2>2
    <2> QED BY <2>1, <2>2, <2>3, DivModUnique
<1>3. WorkspaceSlots \in Free
    BY <1>0, <1>2
<1>4. PICK s \in Free : \A l \in Free : s <= l
    <2>1. Free \in SUBSET Nat /\ Free # {}
        BY <1>3
    <2> HIDE DEF Free
    <2> QED BY <2>1, NatLeast
<1>5. s \in Nat /\ Q(s) % 2 = 0 /\ s <= WorkspaceSlots
    BY <1>3, <1>4
<1>6. ASSUME NEW l \in Nat, l < s PROVE Q(l) % 2 = 1
    <2>1. l \notin Free
        BY <1>4, <1>5, <1>6
    <2> QED BY <2>1, <1>1
<1> DEFINE T == {l \in 0..s : c + 1 = (Q(l) + 1) * Pow2[l]}
<1>7. 0 \in T
    <2>1. Pow2[0] = 1
        BY Pow2Equation
    <2>2. Q(0) = c
        BY <2>1
    <2> QED BY <2>1, <2>2, <1>5
<1>8. ASSUME NEW l \in 0..(s - 1), l \in T PROVE l + 1 \in T
    <2>1. /\ l \in Nat /\ l + 1 \in 0..s
          /\ Q(l) % 2 = 1
          /\ c + 1 = (Q(l) + 1) * Pow2[l]
        BY <1>5, <1>6, <1>8
    <2>2. /\ Q(l) = 2 * Q(l + 1) + 1 /\ Q(l + 1) \in Nat
          /\ Pow2[l + 1] = 2 * Pow2[l] /\ Pow2[l] \in Nat
        BY <2>1, <1>1, Pow2Equation
    <2> HIDE DEF Q
    <2>3. (Q(l) + 1) * Pow2[l] = (Q(l + 1) + 1) * (2 * Pow2[l])
        BY <2>2
    <2> QED BY <2>1, <2>2, <2>3
<1> HIDE DEF T
<1>9. \A l \in 0..s : l \in T
    BY <1>5, <1>7, <1>8, BoundedInduction
<1>10. ASSUME NEW l \in 0..s
       PROVE  /\ c + 1 = (Q(l) + 1) * Pow2[l]
              /\ (c + 1) \div Pow2[l] = Q(l) + 1
    <2>1. c + 1 = (Q(l) + 1) * Pow2[l] /\ l \in Nat
        BY <1>5, <1>9 DEF T
    <2>2. Q(l) + 1 \in Nat /\ Pow2[l] \in Nat \ {0} /\ 0 \in 0..(Pow2[l] - 1)
        BY <2>1, <1>1
    <2> HIDE DEF Q
    <2>3. (Q(l) + 1) * Pow2[l] + 0 = c + 1
        BY <2>1, <2>2
    <2>4. ((Q(l) + 1) * Pow2[l] + 0) \div Pow2[l] = Q(l) + 1
        BY <2>2, DivModUnique
    <2> QED BY <2>1, <2>3, <2>4
<1>11. s # WorkspaceSlots
    <2> SUFFICES ASSUME s = WorkspaceSlots PROVE FALSE
        OBVIOUS
    <2>1. c + 1 = (Q(s) + 1) * Pow2[s] /\ Q(s) = 0 /\ Pow2[s] \in Nat
        BY <1>0, <1>1, <1>2, <1>5, <1>10
    <2>2. c + 1 = Pow2[s]
        BY <2>1
    <2> QED BY <2>2, <1>0
<1>12. s \in Slots
    BY <1>0, <1>5, <1>11 DEF Slots
<1> DEFINE P(l) == (c + 1) \div Pow2[l]
           U == {n \in Nat : P(s + 1 + n) = Q(s + 1 + n)}
<1>13. \A l \in Nat : P(l) \in Nat /\ P(l) % 2 \in {0, 1} /\ P(l + 1) \in Nat
                     /\ P(l) = 2 * P(l + 1) + (P(l) % 2)
    <2> SUFFICES ASSUME NEW l \in Nat
                 PROVE  P(l) \in Nat /\ P(l) % 2 \in {0, 1} /\ P(l + 1) \in Nat
                        /\ P(l) = 2 * P(l + 1) + (P(l) % 2)
        OBVIOUS
    <2>1. c + 1 \in Nat
        OBVIOUS
    <2> QED BY <2>1, HalfIndex
<1>14. P(s) = Q(s) + 1
    BY <1>5, <1>10
<1> HIDE DEF P, Q
<1>15. 0 \in U
    <2>1. /\ Q(s) = 2 * Q(s + 1) /\ Q(s + 1) \in Nat
        BY <1>1, <1>5
    <2>2. /\ P(s) = 2 * P(s + 1) + (P(s) % 2) /\ P(s + 1) \in Nat
          /\ P(s) % 2 \in {0, 1}
        BY <1>13, <1>5
    <2>3. P(s + 1) = Q(s + 1)
        BY <2>1, <2>2, <1>14
    <2>4. s + 1 + 0 = s + 1
        BY <1>5
    <2> QED BY <2>3, <2>4
<1>16. ASSUME NEW n \in U PROVE n + 1 \in U
    <2> DEFINE l == s + 1 + n
    <2>1. n \in Nat /\ P(l) = Q(l) /\ l \in Nat
        BY <1>5, <1>16
    <2>2. s + 1 + (n + 1) = l + 1
        BY <1>5, <2>1
    <2> HIDE DEF l
    <2>3. /\ Q(l) = 2 * Q(l + 1) + (Q(l) % 2) /\ Q(l + 1) \in Nat
          /\ Q(l) = 2 * P(l + 1) + (Q(l) % 2) /\ P(l + 1) \in Nat
          /\ Q(l) % 2 \in {0, 1}
        BY <2>1, <1>1, <1>13
    <2>4. P(l + 1) = Q(l + 1)
        BY <2>3
    <2> QED BY <2>1, <2>2, <2>4
<1> HIDE DEF U
<1>17. U = Nat
    BY <1>15, <1>16, SetInduction DEF U
<1>18. ASSUME NEW l \in Slots, s < l PROVE P(l) = Q(l)
    <2>1. l - (s + 1) \in Nat /\ s + 1 + (l - (s + 1)) = l
        BY <1>0, <1>5, <1>18 DEF Slots
    <2>2. l - (s + 1) \in U
        BY <2>1, <1>17
    <2> QED BY <2>1, <2>2 DEF U
<1>19. ASSUME NEW l \in 0..s, l < s PROVE Q(l) % 2 = 1
    BY <1>5, <1>6, <1>19
<1> QED BY <1>5, <1>10, <1>12, <1>18, <1>19 DEF P, Q

-----------------------------------------------------------------------------
(* The recursions of the workspace *)

\* The recursion of Carry has a solution, so Carry follows it.
LEMMA CarryFollows ==
    ASSUME NEW workspace, NEW leaf
    PROVE  LET f == Carry(workspace, leaf) IN
           /\ f[0] = leaf
           /\ \A l \in 0..(WorkspaceSlots - 1) :
                  f[l + 1] = CombineSlots(workspace[l], f[l])
<1> DEFINE Step(f, l) == IF l = 0 THEN leaf
                         ELSE CombineSlots(workspace[l - 1], f[l - 1])
           Solves(f, n) == \A l \in 0..n : f[l] = Step(f, l)
           Eqn(f) == f = [l \in 0..WorkspaceSlots |-> Step(f, l)]
           T == {n \in 0..WorkspaceSlots : \E f : Solves(f, n)}
<1>0. WorkspaceSlots \in Nat
    BY ScheduleAssumption
<1>1. 0 \in T
    <2> DEFINE f == [l \in {0} |-> leaf]
    <2>1. f[0] = leaf
        OBVIOUS
    <2> HIDE DEF f
    <2>2. Solves(f, 0)
        BY <2>1
    <2> QED BY <1>0, <2>2
<1>2. ASSUME NEW n \in 0..(WorkspaceSlots - 1), n \in T PROVE n + 1 \in T
    <2>1. PICK f : Solves(f, n)
        BY <1>2
    <2> DEFINE g == [l \in 0..WorkspaceSlots |-> Step(f, l)]
    <2>2. n + 1 \in 0..WorkspaceSlots
        BY <1>0
    <2>3. \A l \in 0..(n + 1) : g[l] = Step(f, l)
        BY <1>0, <2>2
    <2> HIDE DEF g
    <2>4. ASSUME NEW l \in 0..(n + 1) PROVE Step(f, l) = Step(g, l)
        <3>1. CASE l = 0
            BY <3>1
        <3>2. CASE l # 0
            <4>1. l - 1 \in 0..n /\ l - 1 \in 0..(n + 1)
                BY <3>2
            <4>2. g[l - 1] = f[l - 1]
                <5> HIDE DEF Step
                <5> QED BY <2>1, <2>3, <4>1
            <4> QED BY <3>2, <4>2
        <3> QED BY <3>1, <3>2
    <2> HIDE DEF Step
    <2>5. Solves(g, n + 1)
        BY <2>3, <2>4
    <2> QED BY <2>2, <2>5
<1> HIDE DEF T, Step
<1>3. WorkspaceSlots \in T
    <2>1. \A l \in 0..WorkspaceSlots : l \in T
        BY <1>0, <1>1, <1>2, BoundedInduction
    <2> QED BY <1>0, <2>1
<1>4. PICK f : Solves(f, WorkspaceSlots)
    BY <1>3 DEF T
<1> DEFINE g == [l \in 0..WorkspaceSlots |-> f[l]]
<1>5. \A l \in 0..WorkspaceSlots : g[l] = f[l]
    OBVIOUS
<1>6. g = [l \in 0..WorkspaceSlots |-> g[l]]
    OBVIOUS
<1> HIDE DEF g
<1>7. ASSUME NEW l \in 0..WorkspaceSlots PROVE g[l] = Step(g, l)
    <2>1. Step(g, l) = Step(f, l)
        <3>1. CASE l = 0
            BY <3>1 DEF Step
        <3>2. CASE l # 0
            <4>1. l - 1 \in 0..WorkspaceSlots
                BY <1>0, <3>2
            <4>2. g[l - 1] = f[l - 1]
                BY <1>5, <4>1
            <4> QED BY <3>2, <4>2 DEF Step
        <3> QED BY <3>1, <3>2
    <2> QED BY <2>1, <1>4, <1>5
<1>8. Eqn(g)
    BY <1>6, <1>7
<1>9. Eqn(CHOOSE h : Eqn(h))
    <2> HIDE DEF Eqn
    <2> QED BY <1>8
<1> DEFINE c == Carry(workspace, leaf)
<1>10. c = CHOOSE h : Eqn(h)
    BY DEF Carry, Step
<1> HIDE DEF c
<1>11. Eqn(c)
    BY <1>9, <1>10
<1>12. \A l \in 0..WorkspaceSlots : c[l] = Step(c, l)
    BY <1>11
<1>13. c[0] = leaf
    BY <1>0, <1>12 DEF Step
<1>14. ASSUME NEW l \in 0..(WorkspaceSlots - 1)
       PROVE  c[l + 1] = CombineSlots(workspace[l], c[l])
    <2>1. l + 1 \in 0..WorkspaceSlots /\ l + 1 # 0 /\ (l + 1) - 1 = l
        BY <1>0
    <2>2. c[l + 1] = Step(c, l + 1)
        BY <1>12, <2>1
    <2>3. Step(c, l + 1) = CombineSlots(workspace[l], c[l])
        BY <2>1 DEF Step
    <2> QED BY <2>2, <2>3
<1> QED BY <1>13, <1>14 DEF c

\* And so does Folded.
LEMMA FoldFollows ==
    ASSUME NEW workspace
    PROVE  LET f == Folded(workspace) IN
           /\ f[0] = EmptySlot
           /\ \A l \in 0..(WorkspaceSlots - 1) :
                  f[l + 1] = IF ~workspace[l].occupied THEN f[l]
                             ELSE IF ~f[l].occupied THEN workspace[l]
                             ELSE CombineSlots(workspace[l], f[l])
<1> DEFINE Step(f, l) == IF l = 0 THEN EmptySlot
                         ELSE IF ~workspace[l - 1].occupied THEN f[l - 1]
                             ELSE IF ~f[l - 1].occupied THEN workspace[l - 1]
                             ELSE CombineSlots(workspace[l - 1], f[l - 1])
           Solves(f, n) == \A l \in 0..n : f[l] = Step(f, l)
           Eqn(f) == f = [l \in 0..WorkspaceSlots |-> Step(f, l)]
           T == {n \in 0..WorkspaceSlots : \E f : Solves(f, n)}
<1>0. WorkspaceSlots \in Nat
    BY ScheduleAssumption
<1>1. 0 \in T
    <2> DEFINE f == [l \in {0} |-> EmptySlot]
    <2>1. f[0] = EmptySlot
        OBVIOUS
    <2> HIDE DEF f
    <2>2. Solves(f, 0)
        BY <2>1
    <2> QED BY <1>0, <2>2
<1>2. ASSUME NEW n \in 0..(WorkspaceSlots - 1), n \in T PROVE n + 1 \in T
    <2>1. PICK f : Solves(f, n)
        BY <1>2
    <2> DEFINE g == [l \in 0..WorkspaceSlots |-> Step(f, l)]
    <2>2. n + 1 \in 0..WorkspaceSlots
        BY <1>0
    <2>3. \A l \in 0..(n + 1) : g[l] = Step(f, l)
        BY <1>0, <2>2
    <2> HIDE DEF g
    <2>4. ASSUME NEW l \in 0..(n + 1) PROVE Step(f, l) = Step(g, l)
        <3>1. CASE l = 0
            BY <3>1
        <3>2. CASE l # 0
            <4>1. l - 1 \in 0..n /\ l - 1 \in 0..(n + 1)
                BY <3>2
            <4>2. g[l - 1] = f[l - 1]
                <5> HIDE DEF Step
                <5> QED BY <2>1, <2>3, <4>1
            <4> QED BY <3>2, <4>2
        <3> QED BY <3>1, <3>2
    <2> HIDE DEF Step
    <2>5. Solves(g, n + 1)
        BY <2>3, <2>4
    <2> QED BY <2>2, <2>5
<1> HIDE DEF T, Step
<1>3. WorkspaceSlots \in T
    <2>1. \A l \in 0..WorkspaceSlots : l \in T
        BY <1>0, <1>1, <1>2, BoundedInduction
    <2> QED BY <1>0, <2>1
<1>4. PICK f : Solves(f, WorkspaceSlots)
    BY <1>3 DEF T
<1> DEFINE g == [l \in 0..WorkspaceSlots |-> f[l]]
<1>5. \A l \in 0..WorkspaceSlots : g[l] = f[l]
    OBVIOUS
<1>6. g = [l \in 0..WorkspaceSlots |-> g[l]]
    OBVIOUS
<1> HIDE DEF g
<1>7. ASSUME NEW l \in 0..WorkspaceSlots PROVE g[l] = Step(g, l)
    <2>1. Step(g, l) = Step(f, l)
        <3>1. CASE l = 0
            BY <3>1 DEF Step
        <3>2. CASE l # 0
            <4>1. l - 1 \in 0..WorkspaceSlots
                BY <1>0, <3>2
            <4>2. g[l - 1] = f[l - 1]
                BY <1>5, <4>1
            <4> QED BY <3>2, <4>2 DEF Step
        <3> QED BY <3>1, <3>2
    <2> QED BY <2>1, <1>4, <1>5
<1>8. Eqn(g)
    BY <1>6, <1>7
<1>9. Eqn(CHOOSE h : Eqn(h))
    <2> HIDE DEF Eqn
    <2> QED BY <1>8
<1> DEFINE c == Folded(workspace)
<1>10. c = CHOOSE h : Eqn(h)
    BY DEF Folded, Step
<1> HIDE DEF c
<1>11. Eqn(c)
    BY <1>9, <1>10
<1>12. \A l \in 0..WorkspaceSlots : c[l] = Step(c, l)
    BY <1>11
<1>13. c[0] = EmptySlot
    BY <1>0, <1>12 DEF Step
<1>14. ASSUME NEW l \in 0..(WorkspaceSlots - 1)
       PROVE  c[l + 1] = IF ~workspace[l].occupied THEN c[l]
                             ELSE IF ~c[l].occupied THEN workspace[l]
                             ELSE CombineSlots(workspace[l], c[l])
    <2>1. l + 1 \in 0..WorkspaceSlots /\ l + 1 # 0 /\ (l + 1) - 1 = l
        BY <1>0
    <2>2. c[l + 1] = Step(c, l + 1)
        BY <1>12, <2>1
    <2>3. Step(c, l + 1) = IF ~workspace[l].occupied THEN c[l]
                             ELSE IF ~c[l].occupied THEN workspace[l]
                             ELSE CombineSlots(workspace[l], c[l])
        BY <2>1 DEF Step
    <2> QED BY <2>2, <2>3
<1> QED BY <1>13, <1>14 DEF c

-----------------------------------------------------------------------------
(* The binary counter *)

\* Slot l of a workspace that was given c leaves of a range: the last run of
\* 2^l leaves, when bit l of c is set.
Slot(bytes, offset, length, c, l) ==
    IF (c \div Pow2[l]) % 2 = 1
    THEN Over(bytes, offset, length, ((c \div Pow2[l]) - 1) * Pow2[l],
              (c \div Pow2[l]) * Pow2[l])
    ELSE EmptySlot

Counts(workspace, bytes, offset, length, c) ==
    \A l \in Slots : workspace[l] = Slot(bytes, offset, length, c, l)

LEMMA EmptyCounts ==
    ASSUME NEW bytes, NEW offset, NEW length
    PROVE  Counts(EmptyWorkspace, bytes, offset, length, 0)
<1> SUFFICES ASSUME NEW l \in Slots
             PROVE  EmptyWorkspace[l] = Slot(bytes, offset, length, 0, l)
    BY DEF Counts
<1>1. l \in Nat
    BY ScheduleAssumption DEF Slots
<1>2. Pow2[l] \in Nat \ {0}
    BY <1>1, Pow2Positive
<1>3. 0 \div Pow2[l] = 0
    <2>1. 0 * Pow2[l] + 0 = 0 /\ 0 \in 0..(Pow2[l] - 1) /\ 0 \in Nat
        BY <1>2
    <2> QED BY <1>2, <2>1, DivModUnique
<1>4. Slot(bytes, offset, length, 0, l) = EmptySlot
    BY <1>3 DEF Slot
<1> QED BY <1>4 DEF EmptyWorkspace

\* A run of leaves is a node of the tree.
LEMMA OverOccupied ==
    ASSUME NEW bytes, NEW offset \in Nat, NEW length \in Nat,
           RangeAccepted(offset, length), NEW i \in Nat, NEW j \in Nat,
           i < j, j <= LeafCount(length)
    PROVE  Over(bytes, offset, length, i, j).occupied = TRUE
<1> DEFINE from == offset + i * LeafBytes
           run  == End(j, length) - i * LeafBytes
<1>1. length \in Nat \ {0} /\ offset + length <= SizeMax /\ SizeMax \in Nat
    BY AcceptedRange, SizeMaxLarge
<1>2. /\ i * LeafBytes \in Nat
      /\ run \in Nat \ {0}
      /\ i * LeafBytes + run <= length
    BY <1>1, RunOfLeaves
<1> HIDE DEF run
<1>3. from \in Nat /\ from + run <= SizeMax
    BY <1>1, <1>2
<1> HIDE DEF from
<1>4. <<from, run>> \in Ranges
    BY <1>1, <1>2, <1>3 DEF Ranges
<1>5. Tree(bytes)[<<from, run>>].occupied = TRUE
    BY <1>4, NodePlace
<1> QED BY <1>5 DEF Over, TreeNode, from, run

\* Pushing leaf number c carries it through the slots that are set, with no
\* combination refused, into the first free slot: a workspace that counts c
\* leaves counts c + 1.
LEMMA PushCounts ==
    ASSUME NEW bytes, NEW offset \in Nat, NEW length \in Nat,
           RangeAccepted(offset, length),
           NEW c \in Nat, c < LeafCount(length), NEW workspace,
           Counts(workspace, bytes, offset, length, c),
           NEW leaf, leaf = Over(bytes, offset, length, c, c + 1)
    PROVE  LET push == PushCarry(workspace, Carry(workspace, leaf)) IN
           push.ok /\ Counts(push.workspace, bytes, offset, length, c + 1)
<1> DEFINE carry == Carry(workspace, leaf)
           Q(l) == c \div Pow2[l]
           N(i, j) == Over(bytes, offset, length, i, j)
<1>1. /\ LeafCount(length) \in Nat /\ LeafCount(length) <= SizeMax
      /\ SizeMax \in Nat /\ WorkspaceSlots \in Nat
      /\ c + 1 <= LeafCount(length)
    <2>1. LeafCount(length) \in Nat /\ LeafCount(length) <= SizeMax
        BY AcceptedRange
    <2> QED BY <2>1, SizeMaxLarge, ScheduleAssumption
<1>2. PICK s \in Slots :
          /\ Q(s) % 2 = 0
          /\ \A l \in 0..s : /\ l < s => Q(l) % 2 = 1
                            /\ c + 1 = (Q(l) + 1) * Pow2[l]
                            /\ (c + 1) \div Pow2[l] = Q(l) + 1
          /\ \A l \in Slots : s < l => (c + 1) \div Pow2[l] = Q(l)
    <2>1. c + 1 <= SizeMax
        BY <1>1
    <2> QED BY <2>1, Increment
<1>3. s \in Nat /\ s < WorkspaceSlots /\ s \in 0..(WorkspaceSlots - 1)
    BY <1>1 DEF Slots
<1>4. /\ carry[0] = leaf
      /\ \A l \in 0..(WorkspaceSlots - 1) :
             carry[l + 1] = CombineSlots(workspace[l], carry[l])
    BY CarryFollows
<1>5. \A l \in Nat : Pow2[l] \in Nat \ {0} /\ Pow2[l + 1] = 2 * Pow2[l] /\ Q(l) \in Nat
    <2> SUFFICES ASSUME NEW l \in Nat
                 PROVE  /\ Pow2[l] \in Nat \ {0} /\ Pow2[l + 1] = 2 * Pow2[l]
                        /\ Q(l) \in Nat
        OBVIOUS
    <2> QED BY Pow2Positive, Pow2Equation, HalfIndex
<1>6. \A l \in Slots :
          workspace[l] = IF Q(l) % 2 = 1
                         THEN N((Q(l) - 1) * Pow2[l], Q(l) * Pow2[l])
                         ELSE EmptySlot
    BY DEF Counts, Slot
<1> HIDE DEF carry, Q, N
<1> DEFINE First(l) == c + 1 - Pow2[l]
           T == {l \in 0..s : carry[l] = N(First(l), c + 1)}
\* Below slot s the slots are set and join what is carried.
<1>7. ASSUME NEW l \in 0..(s - 1), carry[l] = N(First(l), c + 1)
      PROVE  Joins(workspace[l], carry[l], N(First(l + 1), c + 1))
    <2>1. /\ l \in Nat /\ l \in 0..s /\ l < s /\ l \in Slots
          /\ Q(l) % 2 = 1 /\ c + 1 = (Q(l) + 1) * Pow2[l]
        <3>1. l \in Nat /\ l \in 0..s /\ l < s /\ l \in Slots
            BY <1>1, <1>3 DEF Slots
        <3> QED BY <1>2, <3>1
    <2>2. Pow2[l] \in Nat \ {0} /\ Pow2[l + 1] = 2 * Pow2[l] /\ Q(l) \in Nat
        BY <2>1, <1>5
    <2> DEFINE b == Pow2[l]
               i == (Q(l) - 1) * b
               m == Q(l) * b
    <2>3. workspace[l] = N(i, m)
        BY <2>1, <1>6
    <2>4. i \in Nat /\ m \in Nat /\ m = i + b /\ c + 1 = m + b
        <3>1. Q(l) - 1 \in Nat
            BY <2>1, <2>2
        <3> QED BY <3>1, <2>1, <2>2
    <2>5. First(l) = m /\ First(l + 1) = i
        BY <2>2, <2>4
    <2> HIDE DEF i, m
    <2>6. m < c + 1 /\ c + 1 <= m + Pow2[l] /\ m = i + Pow2[l] /\ c + 1 \in Nat
        BY <2>2, <2>4
    <2>7. Joins(N(i, m), N(m, c + 1), N(i, c + 1))
        BY <1>1, <2>1, <2>4, <2>6, RunsCombine DEF N
    <2> QED BY <2>3, <2>5, <2>7, <1>7
<1>8. 0 \in T
    <2>1. First(0) = c /\ 0 \in 0..s
        BY <1>3, Pow2Equation
    <2> QED BY <2>1, <1>4 DEF N
<1>9. ASSUME NEW l \in 0..(s - 1), l \in T PROVE l + 1 \in T
    <2>1. carry[l] = N(First(l), c + 1)
        BY <1>9
    <2>2. CombineSlots(workspace[l], carry[l]) = N(First(l + 1), c + 1)
        BY <2>1, <1>7 DEF Joins
    <2>3. l \in 0..(WorkspaceSlots - 1) /\ l + 1 \in 0..s
        BY <1>1, <1>3
    <2> QED BY <2>2, <2>3, <1>4
<1> HIDE DEF T
<1>10. \A l \in 0..s : carry[l] = N(First(l), c + 1)
    <2>1. \A l \in 0..s : l \in T
        BY <1>3, <1>8, <1>9, BoundedInduction
    <2> QED BY <2>1 DEF T
<1>11. \A l \in 0..(s - 1) : SlotsCombine(workspace[l], carry[l])
    <2> SUFFICES ASSUME NEW l \in 0..(s - 1)
                 PROVE  SlotsCombine(workspace[l], carry[l])
        OBVIOUS
    <2>1. l \in 0..s
        BY <1>3
    <2> QED BY <2>1, <1>7, <1>10 DEF Joins
<1>12. workspace[s] = EmptySlot /\ ~SlotsCombine(workspace[s], carry[s])
    <2>1. workspace[s] = EmptySlot
        BY <1>2, <1>6
    <2> QED BY <2>1 DEF SlotsCombine, EmptySlot
\* Slot s is where the loop stops.
<1> DEFINE Stops(l) ==
               /\ \/ l = WorkspaceSlots
                  \/ ~SlotsCombine(workspace[l], carry[l])
               /\ \A j \in 0..(l - 1) : SlotsCombine(workspace[j], carry[j])
           stop == StopLevel(workspace, carry)
<1>13. s \in 0..WorkspaceSlots /\ Stops(s)
    BY <1>1, <1>3, <1>11, <1>12
<1>14. stop \in 0..WorkspaceSlots /\ Stops(stop)
    <2>1. stop = CHOOSE l \in 0..WorkspaceSlots : Stops(l)
        BY DEF StopLevel
    <2> HIDE DEF stop, Stops
    <2> QED BY <1>13, <2>1
<1>15. stop = s
    <2> HIDE DEF stop
    <2>1. ~(stop < s)
        <3> SUFFICES ASSUME stop < s PROVE FALSE
            OBVIOUS
        <3>1. stop \in 0..(s - 1) /\ stop # WorkspaceSlots
            BY <1>3, <1>14
        <3> QED BY <3>1, <1>11, <1>14
    <2>2. ~(s < stop)
        <3> SUFFICES ASSUME s < stop PROVE FALSE
            OBVIOUS
        <3>1. s \in 0..(stop - 1)
            BY <1>3, <1>14
        <3> QED BY <3>1, <1>12, <1>14
    <2> QED BY <2>1, <2>2, <1>3, <1>14
<1> DEFINE push == PushCarry(workspace, carry)
<1>16. /\ push.ok
       /\ \A l \in Slots :
              push.workspace[l] = IF l < s THEN EmptySlot
                                  ELSE IF l = s THEN carry[l]
                                  ELSE workspace[l]
    <2>1. push = Place(workspace, carry, s)
        BY <1>15 DEF PushCarry
    <2>2. s \in Slots /\ ~workspace[s].occupied
        BY <1>12 DEF EmptySlot
    <2> HIDE DEF push
    <2> QED BY <2>1, <2>2 DEF Place
<1> HIDE DEF push
<1>17. ASSUME NEW l \in Slots
       PROVE  push.workspace[l] = Slot(bytes, offset, length, c + 1, l)
    <2> DEFINE R == (c + 1) \div Pow2[l]
    <2>0. l \in Nat /\ Pow2[l] \in Nat \ {0} /\ Q(l) \in Nat
        BY <1>1, <1>5 DEF Slots
    <2>1. CASE l < s
        <3>1. Q(l) % 2 = 1 /\ R = Q(l) + 1
            BY <1>2, <1>3, <2>0, <2>1
        <3>2. R % 2 # 1
            BY <2>0, <3>1
        <3> QED BY <1>16, <2>1, <3>2 DEF Slot
    <2>2. CASE l = s
        <3>1. /\ Q(s) % 2 = 0 /\ R = Q(s) + 1 /\ s \in 0..s
              /\ c + 1 = (Q(s) + 1) * Pow2[s]
            BY <1>2, <1>3, <2>2
        <3>2. R % 2 = 1
            BY <2>0, <2>2, <3>1
        <3>3. R * Pow2[l] = c + 1 /\ (R - 1) * Pow2[l] = First(s)
            <4>1. R - 1 = Q(s) /\ Q(s) * Pow2[s] + Pow2[s] = c + 1
                BY <2>0, <2>2, <3>1
            <4>2. Q(s) * Pow2[s] \in Nat
                BY <2>0, <2>2
            <4> HIDE DEF R
            <4> QED BY <2>0, <2>2, <3>1, <4>1, <4>2
        <3>4. push.workspace[l] = N(First(s), c + 1)
            BY <1>10, <1>16, <2>2, <3>1
        <3> HIDE DEF First
        <3> QED BY <3>2, <3>3, <3>4 DEF Slot, N
    <2>3. CASE s < l
        <3>1. R = Q(l)
            BY <1>2, <2>3
        <3>2. push.workspace[l] = workspace[l]
            BY <1>3, <1>16, <2>0, <2>3
        <3> QED BY <3>1, <3>2 DEF Slot, Counts, Q
    <2> QED BY <1>3, <2>0, <2>1, <2>2, <2>3
<1> QED BY <1>16, <1>17 DEF Counts, push, carry

\* Folding a workspace that counts all the leaves of a range refuses no
\* combination, and gives the tree over the range.
LEMMA FoldCounts ==
    ASSUME NEW bytes, NEW offset \in Nat, NEW length \in Nat,
           RangeAccepted(offset, length), NEW workspace,
           Counts(workspace, bytes, offset, length, LeafCount(length))
    PROVE  /\ FoldAccepted(workspace, PositionOf(offset, length))
           /\ Root(workspace) = TreeNode(bytes, offset, length)
<1> DEFINE c == LeafCount(length)
           fold == Folded(workspace)
           Q(l) == c \div Pow2[l]
           R(l) == c % Pow2[l]
           N(i, j) == Over(bytes, offset, length, i, j)
<1>1. /\ c \in Nat \ {0} /\ c <= SizeMax
      /\ length \in Nat \ {0} /\ offset + length <= SizeMax
      /\ SizeMax \in Nat /\ WorkspaceSlots \in Nat
      /\ SizeMax = Pow2[WorkspaceSlots] - 1
    BY AcceptedRange, SizeMaxLarge, ScheduleAssumption DEF SizeMax
<1>2. /\ fold[0] = EmptySlot
      /\ \A l \in 0..(WorkspaceSlots - 1) :
             fold[l + 1] = IF ~workspace[l].occupied THEN fold[l]
                           ELSE IF ~fold[l].occupied THEN workspace[l]
                           ELSE CombineSlots(workspace[l], fold[l])
    BY FoldFollows
<1>3. \A l \in Slots :
          workspace[l] = IF Q(l) % 2 = 1
                         THEN N((Q(l) - 1) * Pow2[l], Q(l) * Pow2[l])
                         ELSE EmptySlot
    BY DEF Counts, Slot
<1>4. \A i, j \in Nat : i < j /\ j <= c => N(i, j).occupied = TRUE
    BY OverOccupied
<1>5. \A i, m, j, k \in Nat :
          m = i + Pow2[k] /\ m < j /\ j <= m + Pow2[k] /\ j <= c
              => Joins(N(i, m), N(m, j), N(i, j))
    BY RunsCombine
<1>6. EmptySlot.occupied = FALSE
    BY DEF EmptySlot
<1> HIDE DEF c, N, fold
\* What is folded from the slots below l: the last leaves, from the last
\* multiple of 2^l on.
<1> DEFINE Rest(l) == IF R(l) = 0 THEN EmptySlot ELSE N(c - R(l), c)
           T == {l \in 0..WorkspaceSlots : fold[l] = Rest(l)}
<1>7. 0 \in T
    <2>1. Pow2[0] = 1
        BY Pow2Equation
    <2>2. R(0) = 0
        BY <1>1, <2>1
    <2> QED BY <1>1, <1>2, <2>2
<1>8. ASSUME NEW l \in 0..(WorkspaceSlots - 1), fold[l] = Rest(l)
      PROVE  /\ fold[l + 1] = Rest(l + 1)
             /\ workspace[l].occupied /\ fold[l].occupied
                    => SlotsCombine(workspace[l], fold[l])
    <2> DEFINE b == Pow2[l]
               q == Q(l)
               r == R(l)
    <2>1. l \in Nat /\ l \in Slots /\ b \in Nat \ {0} /\ Pow2[l + 1] = 2 * b
        BY <1>1, Pow2Positive, Pow2Equation DEF Slots
    <2>2. /\ q \in Nat /\ q % 2 \in {0, 1}
          /\ R(l + 1) = (q % 2) * b + r
          /\ r \in 0..(b - 1)
          /\ c = b * q + r
        <3>1. c \in Nat
            BY <1>1
        <3> QED BY <2>1, <3>1, HalfIndex
    <2>3. workspace[l] = IF q % 2 = 1 THEN N((q - 1) * b, q * b) ELSE EmptySlot
        BY <1>3, <2>1
    <2>4. fold[l] = IF r = 0 THEN EmptySlot ELSE N(c - r, c)
        BY <1>8
    <2>5. Rest(l + 1) = IF R(l + 1) = 0 THEN EmptySlot ELSE N(c - R(l + 1), c)
        OBVIOUS
    <2> HIDE DEF q, r, R, Q, Rest
    <2> DEFINE e == R(l + 1)
               m == q * b
               i == (q - 1) * b
    <2>6. m \in Nat /\ c = m + r
        <3>1. q \in Nat /\ b \in Nat /\ c = b * q + r
            BY <2>1, <2>2
        <3> HIDE DEF b
        <3>2. q * b \in Nat /\ q * b = b * q
            BY <3>1
        <3> QED BY <3>1, <3>2
    <2> HIDE DEF e
    <2>7. CASE q % 2 = 0
        <3>1. e = r
            BY <2>1, <2>2, <2>7 DEF e
        <3>2. ~workspace[l].occupied
            BY <2>3, <2>7, <1>6
        <3>3. fold[l + 1] = fold[l]
            BY <1>2, <3>2
        <3> QED BY <2>4, <2>5, <3>1, <3>2, <3>3 DEF e
    <2>8. CASE q % 2 = 1
        <3>1. e = b + r /\ e # 0
            BY <2>1, <2>2, <2>8 DEF e
        <3>2. i \in Nat /\ m = i + b /\ c - e = i /\ c - r = m
            <4>1. q - 1 \in Nat
                BY <2>2, <2>8
            <4>2. i \in Nat /\ m = i + b
                <5>1. b \in Nat /\ q \in Nat
                    BY <2>1, <2>2
                <5> HIDE DEF b
                <5>2. (q - 1) * b \in Nat /\ q * b = (q - 1) * b + b
                    BY <4>1, <5>1
                <5> QED BY <5>2
            <4> HIDE DEF i, m
            <4> QED BY <4>2, <2>1, <2>2, <2>6, <3>1
        <3>3. workspace[l] = N(i, m)
            BY <2>3, <2>8
        <3> HIDE DEF i, m
        <3>4. workspace[l].occupied = TRUE
            <4>1. i < m /\ m <= c
                <5>1. b \in Nat \ {0} /\ r \in Nat
                    BY <2>1, <2>2
                <5> HIDE DEF b
                <5> QED BY <5>1, <2>6, <3>2
            <4> QED BY <1>4, <2>6, <3>2, <3>3, <4>1
        <3>5. Rest(l + 1) = N(i, c)
            BY <2>5, <3>1, <3>2 DEF e
        <3>6. CASE r = 0
            <4>1. fold[l] = EmptySlot /\ m = c
                BY <2>4, <2>6, <3>6
            <4>2. fold[l + 1] = workspace[l]
                BY <1>2, <1>6, <3>4, <4>1
            <4> QED BY <1>6, <3>3, <3>5, <4>1, <4>2
        <3>7. CASE r # 0
            <4>1. fold[l] = N(m, c) /\ m < c /\ c <= m + Pow2[l]
                <5>1. b \in Nat \ {0} /\ r \in Nat \ {0} /\ r < b
                    BY <2>1, <2>2, <3>7
                <5> HIDE DEF b
                <5>2. m < c /\ c <= m + b
                    BY <5>1, <2>6
                <5> QED BY <5>2, <2>4, <3>2, <3>7 DEF b
            <4>2. fold[l].occupied = TRUE
                BY <1>1, <1>4, <2>6, <4>1
            <4>3. fold[l + 1] = CombineSlots(workspace[l], fold[l])
                BY <1>2, <3>4, <4>2
            <4>4. Joins(N(i, m), N(m, c), N(i, c))
                BY <1>1, <1>5, <2>1, <2>6, <3>2, <4>1
            <4> QED BY <3>3, <3>5, <4>1, <4>3, <4>4 DEF Joins
        <3> QED BY <3>6, <3>7
    <2> QED BY <2>2, <2>7, <2>8
<1>9. ASSUME NEW l \in 0..(WorkspaceSlots - 1), l \in T PROVE l + 1 \in T
    <2>1. l + 1 \in 0..WorkspaceSlots
        BY <1>1
    <2> HIDE DEF Rest
    <2> QED BY <2>1, <1>8, <1>9
<1> HIDE DEF T, Rest
<1>10. \A l \in 0..WorkspaceSlots : fold[l] = Rest(l)
    <2>1. \A l \in 0..WorkspaceSlots : l \in T
        BY <1>1, <1>7, <1>9, BoundedInduction
    <2> QED BY <2>1 DEF T
<1>11. fold[WorkspaceSlots] = TreeNode(bytes, offset, length)
    <2>1. c \in 0..(Pow2[WorkspaceSlots] - 1) /\ Pow2[WorkspaceSlots] \in Nat \ {0}
        BY <1>1, Pow2Positive
    <2>2. R(WorkspaceSlots) = c
        <3>1. 0 * Pow2[WorkspaceSlots] + c = c /\ 0 \in Nat
            BY <2>1
        <3> QED BY <2>1, <3>1, DivModUnique
    <2>3. Rest(WorkspaceSlots) = N(0, c)
        <3>1. c - c = 0 /\ c # 0
            BY <1>1
        <3> QED BY <2>2, <3>1 DEF Rest
    <2>4. N(0, c) = TreeNode(bytes, offset, length)
        <3>1. LeafBytes \in Nat /\ length <= c * LeafBytes /\ c * LeafBytes \in Nat
            BY <1>1, LeavesCover, ScheduleAssumption DEF c
        <3>2. End(c, length) = length
            BY <1>1, <3>1 DEF End
        <3>3. offset + 0 * LeafBytes = offset /\ length - 0 * LeafBytes = length
            BY <1>1, <3>1
        <3> QED BY <3>2, <3>3 DEF N, Over
    <2>5. WorkspaceSlots \in 0..WorkspaceSlots
        BY <1>1
    <2> QED BY <1>10, <2>3, <2>4, <2>5
<1>12. Root(workspace) = fold[WorkspaceSlots]
    BY DEF Root, fold
<1>13. /\ fold[WorkspaceSlots].occupied = TRUE
       /\ fold[WorkspaceSlots].tree = PositionOf(offset, length)
    <2>1. <<offset, length>> \in Ranges
        BY <1>1 DEF Ranges
    <2> QED BY <2>1, <1>11, NodePlace DEF TreeNode
<1>14. \A l \in Slots : workspace[l].occupied /\ fold[l].occupied
                            => SlotsCombine(workspace[l], fold[l])
    <2> SUFFICES ASSUME NEW l \in 0..(WorkspaceSlots - 1)
                 PROVE  workspace[l].occupied /\ fold[l].occupied
                            => SlotsCombine(workspace[l], fold[l])
        BY DEF Slots
    <2>1. l \in 0..WorkspaceSlots
        BY <1>1
    <2> QED BY <2>1, <1>8, <1>10
<1>15. FoldAccepted(workspace, PositionOf(offset, length))
    BY <1>13, <1>14 DEF FoldAccepted, fold
<1> QED BY <1>11, <1>12, <1>15

-----------------------------------------------------------------------------
(* Leaves *)

\* A leaf depends on the bytes of its range alone.
LEMMA LeafSame ==
    ASSUME NEW reader, NEW bytes, NEW offset \in Nat, NEW length \in Nat \ {0},
           \A o \in offset..(offset + length - 1) : reader[o] = bytes[o]
    PROVE  LeafNode(reader, offset, length) = LeafNode(bytes, offset, length)
<1> DEFINE p == PositionOf(offset, length)
           chunks == 1 + (length - 1) \div ChunkBytes
<1>1. ChunkBytes \in Nat \ {0}
    BY ChunkAssumption
<1>2. p.byte_offset = offset /\ p.byte_length = length
    BY DEF PositionOf
<1> HIDE DEF p
<1>3. ASSUME NEW c \in 1..chunks
      PROVE  LeafData(reader, p, c) = LeafData(bytes, p, c)
    <2> DEFINE from  == (c - 1) * ChunkBytes
               last  == p.byte_length - from <= ChunkBytes
               count == IF last THEN p.byte_length - from ELSE ChunkBytes
               q == (length - 1) \div ChunkBytes
    <2>1. /\ q \in Nat
          /\ (length - 1) % ChunkBytes \in Nat
          /\ length - 1 = (ChunkBytes * q) + ((length - 1) % ChunkBytes)
        <3>1. length - 1 \in Nat
            OBVIOUS
        <3> QED BY <1>1, <3>1, DivMod
    <2>2. c - 1 \in Nat /\ c - 1 <= q
        BY <2>1
    <2> HIDE DEF q
    <2>3. from \in Nat /\ from <= length - 1
        <3>1. (c - 1) * ChunkBytes <= q * ChunkBytes
            BY <1>1, <2>1, <2>2, TimesMonotone
        <3>2. /\ q * ChunkBytes = ChunkBytes * q /\ q * ChunkBytes \in Nat
              /\ (c - 1) * ChunkBytes \in Nat
            BY <1>1, <2>1, <2>2
        <3> QED BY <2>1, <3>1, <3>2
    <2> HIDE DEF from
    <2>4. count \in Nat /\ count <= length - from
        BY <1>1, <1>2, <2>3
    <2>5. \A i \in 1..count : reader[p.byte_offset + from + i - 1]
                                = bytes[p.byte_offset + from + i - 1]
        <3> SUFFICES ASSUME NEW i \in 1..count
                     PROVE  offset + from + i - 1 \in offset..(offset + length - 1)
            BY <1>2
        <3> HIDE DEF count
        <3> QED BY <2>3, <2>4
    <2>6. [i \in 1..count |-> reader[p.byte_offset + from + i - 1]]
              = [i \in 1..count |-> bytes[p.byte_offset + from + i - 1]]
        <3> HIDE DEF count
        <3> QED BY <2>5
    <2> QED BY <2>6 DEF LeafData, from
<1>4. [c \in 1..chunks |-> LeafData(reader, p, c)]
          = [c \in 1..chunks |-> LeafData(bytes, p, c)]
    <2> HIDE DEF chunks
    <2> QED BY <1>3
<1> QED BY <1>4 DEF LeafNode, p

\* Leaf number c of a range: its length, the checks it passes, and the node it
\* is in the tree.
LEMMA LeafIsOver ==
    ASSUME NEW bytes, NEW offset \in Nat, NEW length \in Nat,
           RangeAccepted(offset, length),
           NEW c \in Nat, c < LeafCount(length),
           NEW first, first = c * LeafBytes,
           NEW count, count = IF length - first > LeafBytes THEN LeafBytes
                              ELSE length - first
    PROVE  /\ first \in Nat /\ first < length
           /\ count \in Nat \ {0}
           /\ first + count = End(c + 1, length)
           /\ first + count <= length
           /\ RangeAccepted(offset + first, count)
           /\ LeafCount(count) = 1
           /\ Over(bytes, offset, length, c, c + 1)
                  = LeafNode(bytes, offset + first, count)
<1> DEFINE from  == offset + first
<1>1. /\ LeafBytes \in Nat \ {0} /\ SizeMax \in Nat
      /\ length \in Nat \ {0} /\ offset + length <= SizeMax
      /\ LeafCount(length) \in Nat
      /\ offset \div LeafBytes \in Nat
      /\ offset \div LeafBytes + LeafCount(length) <= SizeMax
    BY AcceptedRange, SizeMaxLarge, ScheduleAssumption
<1>2. first \in Nat /\ first < length
    BY <1>1, LeavesWithout
<1>3. (c + 1) * LeafBytes = first + LeafBytes
    BY <1>1
<1>4. from \div LeafBytes = offset \div LeafBytes + c /\ from % LeafBytes = 0
    <2>1. offset % LeafBytes = 0
        BY DEF RangeAccepted
    <2>2. /\ (offset + c * LeafBytes) \div LeafBytes = offset \div LeafBytes + c
          /\ (offset + c * LeafBytes) % LeafBytes = offset % LeafBytes
        BY WholeLeaves
    <2> QED BY <2>1, <2>2
<1>5. count \in Nat \ {0} /\ first + count <= length /\ count <= LeafBytes
    BY <1>1, <1>2
<1>6. first + count = End(c + 1, length)
    BY <1>1, <1>2, <1>3 DEF End
<1>7. LeafCount(count) = 1
    <2>1. (count - 1) \div LeafBytes = 0
        <3>1. PICK r \in 0..(LeafBytes - 1) : r = count - 1
            BY <1>1, <1>5
        <3>2. 0 * LeafBytes + r = r /\ 0 \in Nat
            BY <1>1, <3>1
        <3>3. (0 * LeafBytes + r) \div LeafBytes = 0
            BY <1>1, <3>2, DivModUnique
        <3> QED BY <3>1, <3>2, <3>3
    <2> QED BY <1>5, <2>1 DEF LeafCount
<1>8. from \in Nat /\ from + count <= SizeMax
    BY <1>1, <1>2, <1>5
<1>9. from \div LeafBytes + LeafCount(count) <= SizeMax
    BY <1>1, <1>4, <1>7
<1> HIDE DEF from
<1>10. RangeAccepted(from, count)
    BY <1>4, <1>5, <1>8, <1>9, AcceptsInside
<1>11. Over(bytes, offset, length, c, c + 1) = LeafNode(bytes, from, count)
    <2>1. End(c + 1, length) - first = count
        BY <1>2, <1>5, <1>6
    <2>2. Over(bytes, offset, length, c, c + 1) = Tree(bytes)[<<from, count>>]
        BY <2>1 DEF Over, TreeNode, from
    <2>3. <<from, count>> \in Ranges
        BY <1>1, <1>5, <1>8 DEF Ranges
    <2>4. Tree(bytes)[<<from, count>>] = TreeStep(bytes, Tree(bytes), <<from, count>>)
        BY <2>3, TreeEquation
    <2>5. TreeStep(bytes, Tree(bytes), <<from, count>>) = LeafNode(bytes, from, count)
        BY <1>7 DEF TreeStep
    <2> QED BY <2>2, <2>4, <2>5
<1> QED BY <1>2, <1>5, <1>6, <1>7, <1>10, <1>11 DEF from

\* A reader that serves some of the bytes, and what a push of leaf number c of
\* a range comes to: one leaf more counted, or refused with a byte of the range
\* that the reader does not serve.
Serves(reader, bytes) == \A o \in DOMAIN reader : reader[o] = bytes[o]

LeafCounted(push, reader, bytes, offset, length, c) ==
    \/ push.ok /\ Counts(push.workspace, bytes, offset, length, c + 1)
    \/ ~push.ok /\ \E o \in offset..(offset + length - 1) : o \notin DOMAIN reader

\* Leaf number c is pushed when the reader serves its bytes.
LEMMA LeafTaken ==
    ASSUME NEW bytes, NEW offset \in Nat, NEW length \in Nat,
           RangeAccepted(offset, length),
           NEW c \in Nat, c < LeafCount(length), NEW workspace,
           Counts(workspace, bytes, offset, length, c),
           NEW reader, Serves(reader, bytes),
           NEW first, first = c * LeafBytes,
           NEW count, count = IF length - first > LeafBytes THEN LeafBytes
                              ELSE length - first,
           (offset + first)..(offset + first + count - 1) \subseteq DOMAIN reader
    PROVE  LET push == PushLeaf(workspace, reader, offset + first, count) IN
           push.ok /\ Counts(push.workspace, bytes, offset, length, c + 1)
<1> DEFINE from == offset + first
           leaf == LeafNode(reader, from, count)
           push == PushLeaf(workspace, reader, from, count)
<1>1. /\ first \in Nat
      /\ count \in Nat \ {0}
      /\ RangeAccepted(from, count)
      /\ LeafCount(count) = 1
      /\ Over(bytes, offset, length, c, c + 1) = LeafNode(bytes, from, count)
    BY LeafIsOver
<1>2. Level(1) = 0
    <2>1. Level(1) = LeastExponentAbove(0)
        BY DEF Level
    <2>2. 0 \in 0..WorkspaceSlots /\ 0 < Pow2[0]
        BY ScheduleAssumption, Pow2Equation
    <2> QED BY <2>1, <2>2, LeastExponentIs
<1>3. LeafAccepted(reader, from, count)
    BY <1>1, <1>2 DEF LeafAccepted
<1>4. push = PushCarry(workspace, Carry(workspace, leaf))
    BY <1>3 DEF PushLeaf
<1>5. \A o \in from..(from + count - 1) : reader[o] = bytes[o]
    BY DEF Serves
<1>6. from \in Nat
    BY <1>1
<1> HIDE DEF from
<1>7. leaf = LeafNode(bytes, from, count)
    BY <1>1, <1>5, <1>6, LeafSame
<1>8. leaf = Over(bytes, offset, length, c, c + 1)
    BY <1>1, <1>7 DEF from
<1> HIDE DEF leaf, push
<1>9. push.ok /\ Counts(push.workspace, bytes, offset, length, c + 1)
    BY <1>4, <1>8, PushCounts
<1> QED BY <1>9 DEF push, from

\* And it is refused only when the reader does not serve them.
LEMMA PushLeafCounts ==
    ASSUME NEW bytes, NEW offset \in Nat, NEW length \in Nat,
           RangeAccepted(offset, length),
           NEW c \in Nat, c < LeafCount(length), NEW workspace,
           Counts(workspace, bytes, offset, length, c),
           NEW reader, Serves(reader, bytes),
           NEW first, first = c * LeafBytes,
           NEW count, count = IF length - first > LeafBytes THEN LeafBytes
                              ELSE length - first
    PROVE  LeafCounted(PushLeaf(workspace, reader, offset + first, count),
                  reader, bytes, offset, length, c)
<1> DEFINE from == offset + first
           push == PushLeaf(workspace, reader, from, count)
<1>1. CASE from..(from + count - 1) \subseteq DOMAIN reader
    <2>1. push.ok /\ Counts(push.workspace, bytes, offset, length, c + 1)
        BY <1>1, LeafTaken
    <2> QED BY <2>1 DEF LeafCounted
<1>2. CASE ~(from..(from + count - 1) \subseteq DOMAIN reader)
    <2>1. ~LeafAccepted(reader, from, count)
        BY <1>2 DEF LeafAccepted
    <2>2. ~push.ok
        BY <2>1 DEF PushLeaf
    <2>3. PICK o \in from..(from + count - 1) : o \notin DOMAIN reader
        BY <1>2
    <2>4. /\ first \in Nat /\ count \in Nat \ {0}
          /\ first + count <= length
          /\ Over(bytes, offset, length, c, c + 1) = LeafNode(bytes, from, count)
        BY LeafIsOver
    <2>5. o \in offset..(offset + length - 1)
        BY <2>3, <2>4
    <2> QED BY <2>2, <2>3, <2>5 DEF LeafCounted
<1> QED BY <1>1, <1>2

\* With leaves of two bytes or more the root of any range has a slot.
LEMMA LevelFits ==
    ASSUME NEW offset \in Nat, NEW length \in Nat, RangeAccepted(offset, length),
           LeafBytes >= 2
    PROVE  Level(LeafCount(length)) < WorkspaceSlots
<1> DEFINE n == LeafCount(length)
           w == WorkspaceSlots - 1
<1>1. /\ n \in Nat \ {0} /\ n <= SizeMax
      /\ length \in Nat \ {0} /\ offset + length <= SizeMax
      /\ LeafBytes \in Nat /\ w \in Nat /\ w + 1 = WorkspaceSlots
      /\ w \in 0..WorkspaceSlots
      /\ (n - 1) * LeafBytes < length
    BY AcceptedRange, LeavesCover, ScheduleAssumption
<1>2. SizeMax = 2 * Pow2[w] - 1 /\ Pow2[w] \in Nat
    BY <1>1, Pow2Equation, Pow2Positive DEF SizeMax
<1>3. (n - 1) * 2 <= (n - 1) * LeafBytes /\ (n - 1) * LeafBytes \in Nat
    <2>1. n - 1 \in Nat /\ 2 \in Nat
        BY <1>1
    <2> HIDE DEF n
    <2> QED BY <1>1, <2>1, TimesMonotone
<1> HIDE DEF n
<1>4. n <= Pow2[w]
    BY <1>1, <1>2, <1>3
<1> HIDE DEF w
<1>5. Level(n) <= w
    BY <1>1, <1>4, LevelAtMost
<1>6. Level(n) \in 0..WorkspaceSlots
    BY <1>1, LevelExists
<1> QED BY <1>1, <1>5, <1>6 DEF n

\* Inside a range the subtree of a slot is full, and starts at a multiple of
\* its size behind the range's offset.
LEMMA SlotNumbers ==
    ASSUME NEW length \in Nat, NEW c \in Nat, c * LeafBytes <= length,
           NEW l \in Nat, (c \div Pow2[l]) % 2 = 1
    PROVE  LET index == c \div Pow2[l]
               span  == Pow2[l] * LeafBytes
           IN  /\ ((index - 1) * Pow2[l]) * LeafBytes = (index - 1) * span
               /\ End(index * Pow2[l], length)
                      - ((index - 1) * Pow2[l]) * LeafBytes = span
<1> DEFINE q == c \div Pow2[l]
           p == Pow2[l]
<1>1. p \in Nat /\ LeafBytes \in Nat
    BY Pow2Positive, ScheduleAssumption
<1>2. q \in Nat /\ c % p \in 0..(p - 1) /\ c = (p * q) + (c % p) /\ q # 0
    BY HalfIndex
<1>3. q * p \in Nat /\ q * p <= c
    <2>1. PICK r \in Nat : c = (p * q) + r
        BY <1>1, <1>2
    <2>2. p * q = q * p /\ q * p \in Nat
        <3> HIDE DEF p, q
        <3> QED BY <1>1, <1>2
    <2> HIDE DEF p, q
    <2> QED BY <2>1, <2>2
<1>5. (q * p) * LeafBytes \in Nat /\ (q * p) * LeafBytes <= length
    <2>1. (q * p) * LeafBytes <= c * LeafBytes /\ (q * p) * LeafBytes \in Nat
          /\ c * LeafBytes \in Nat
        <3> HIDE DEF q, p
        <3> QED BY <1>1, <1>3, TimesMonotone
    <2> HIDE DEF q, p
    <2> QED BY <2>1
<1>6. End(q * p, length) = (q * p) * LeafBytes
    BY <1>5 DEF End
<1> HIDE DEF q, p
<1>7. PICK n \in Nat : q = n + 1
    <2>1. q - 1 \in Nat /\ q = (q - 1) + 1
        BY <1>2
    <2> QED BY <2>1
<1>8. /\ (q - 1) * p = n * p
      /\ (n * p) * LeafBytes = n * (p * LeafBytes)
      /\ (q * p) * LeafBytes = n * (p * LeafBytes) + p * LeafBytes
      /\ (q - 1) * (p * LeafBytes) = n * (p * LeafBytes)
      /\ p * LeafBytes \in Nat
      /\ n * (p * LeafBytes) \in Nat
    BY <1>1, <1>7
<1>9. /\ ((q - 1) * p) * LeafBytes = (q - 1) * (p * LeafBytes)
      /\ End(q * p, length) - ((q - 1) * p) * LeafBytes = p * LeafBytes
    BY <1>6, <1>8
<1> QED BY <1>9 DEF q, p

-----------------------------------------------------------------------------
(* Messages that agree on a range *)

Agree(one, other, from, to) == \A o \in from..(to - 1) : one[o] = other[o]

SameNode(one, other, offset, length) ==
    TreeNode(one, offset, length) = TreeNode(other, offset, length)

\* A node depends on the bytes of its range only.
LEMMA NodeIsLocal ==
    ASSUME NEW one, NEW other, NEW offset \in Nat, NEW length \in Nat \ {0},
           offset + length <= SizeMax,
           Agree(one, other, offset, offset + length)
    PROVE  SameNode(one, other, offset, length)
<1> DEFINE a == Tree(one)
           b == Tree(other)
           Same(s) == s[2] # 0 /\ Agree(one, other, s[1], s[1] + s[2])
                          => a[s] = b[s]
           T == {n \in Nat : \A s \in Ranges : s[2] <= n => Same(s)}
<1>1. /\ \A s \in Ranges : a[s] = TreeStep(one, a, s)
      /\ \A s \in Ranges : b[s] = TreeStep(other, b, s)
    BY TreeEquation
<1> HIDE DEF a, b
<1>2. ASSUME NEW s \in Ranges, LeafCount(s[2]) <= 1 PROVE Same(s)
    <2> SUFFICES ASSUME s[2] # 0, Agree(one, other, s[1], s[1] + s[2])
                 PROVE  a[s] = b[s]
        OBVIOUS
    <2>1. s[1] \in Nat /\ s[2] \in Nat \ {0}
        BY SizeMaxLarge DEF Ranges
    <2>2. a[s] = LeafNode(one, s[1], s[2]) /\ b[s] = LeafNode(other, s[1], s[2])
        BY <1>1, <1>2 DEF TreeStep
    <2>3. LeafNode(one, s[1], s[2]) = LeafNode(other, s[1], s[2])
        <3>1. \A o \in s[1]..(s[1] + s[2] - 1) : one[o] = other[o]
            BY <2>1 DEF Agree
        <3>2. PICK o \in Nat : o = s[1]
            BY <2>1
        <3>3. PICK l \in Nat \ {0} : l = s[2]
            BY <2>1
        <3>4. \A i \in o..(o + l - 1) : one[i] = other[i]
            BY <3>1, <3>2, <3>3
        <3>5. LeafNode(one, o, l) = LeafNode(other, o, l)
            BY <3>4, LeafSame
        <3> QED BY <3>2, <3>3, <3>5
    <2> QED BY <2>2, <2>3
<1>3. 0 \in T
    <2> SUFFICES ASSUME NEW s \in Ranges, s[2] <= 0 PROVE Same(s)
        OBVIOUS
    <2>1. s[2] = 0
        BY SizeMaxLarge DEF Ranges
    <2> QED BY <2>1
<1>4. ASSUME NEW n \in T PROVE n + 1 \in T
    <2>0. n \in Nat /\ \A s \in Ranges : s[2] <= n => Same(s)
        BY <1>4
    <2> SUFFICES ASSUME NEW s \in Ranges, s[2] <= n + 1, ~(LeafCount(s[2]) <= 1)
                 PROVE  Same(s)
        <3> HIDE DEF Same
        <3>1. \A s \in Ranges : s[2] <= n + 1 => Same(s)
            BY <1>2
        <3> QED BY <2>0, <3>1
    <2> SUFFICES ASSUME s[2] # 0, Agree(one, other, s[1], s[1] + s[2])
                 PROVE  a[s] = b[s]
        OBVIOUS
    <2> DEFINE left == SplitBytes(s[2])
               l    == <<s[1], left>>
               r    == <<s[1] + left, s[2] - left>>
    <2>1. /\ left \in Nat \ {0} /\ left < s[2]
          /\ l \in Ranges /\ r \in Ranges
        BY SplitShorter
    <2>2. s[2] \in Nat /\ s[1] \in Nat
        BY SizeMaxLarge DEF Ranges
    <2>3. a[s] = Parent(a[l], a[r]) /\ b[s] = Parent(b[l], b[r])
        BY <1>1 DEF TreeStep
    <2> HIDE DEF left
    <2>4. Same(l) /\ Same(r)
        <3>1. l[2] <= n /\ r[2] <= n
            BY <2>0, <2>1, <2>2
        <3> HIDE DEF l, r
        <3> QED BY <2>0, <2>1, <3>1
    <2>5. Agree(one, other, s[1], s[1] + left)
        BY <2>1, <2>2 DEF Agree
    <2>6. Agree(one, other, s[1] + left, (s[1] + left) + (s[2] - left))
        BY <2>1, <2>2 DEF Agree
    <2>7. a[l] = b[l]
        BY <2>1, <2>4, <2>5
    <2>8. a[r] = b[r]
        BY <2>1, <2>2, <2>4, <2>6
    <2> QED BY <2>3, <2>7, <2>8
<1> HIDE DEF T
<1>5. T = Nat
    BY <1>3, <1>4, SetInduction DEF T
<1>6. length \in T
    BY <1>5
<1>7. <<offset, length>> \in Ranges
    BY SizeMaxLarge DEF Ranges
<1>8. Same(<<offset, length>>)
    <2>1. \A s \in Ranges : s[2] <= length => Same(s)
        BY <1>6 DEF T
    <2> QED BY <1>7, <2>1
<1> QED BY <1>8 DEF SameNode, TreeNode, a, b

\* The slots that count whole leaves say nothing of the range they are in, nor
\* of the bytes behind those leaves.
LEMMA CountsAreLocal ==
    ASSUME NEW one, NEW other, NEW wide \in Nat, NEW length \in Nat,
           length <= SizeMax,
           NEW c \in Nat, c * LeafBytes <= wide, c * LeafBytes <= length,
           Agree(one, other, 0, c * LeafBytes),
           NEW workspace, Counts(workspace, one, 0, wide, c)
    PROVE  Counts(workspace, other, 0, length, c)
<1> SUFFICES ASSUME NEW l \in Slots
             PROVE  workspace[l] = Slot(other, 0, length, c, l)
    BY DEF Counts
<1> DEFINE q    == c \div Pow2[l]
           span == Pow2[l] * LeafBytes
           from == (q - 1) * span
<1>1. l \in Nat /\ LeafBytes \in Nat \ {0} /\ SizeMax \in Nat
      /\ c * LeafBytes \in Nat
    BY ScheduleAssumption, SizeMaxLarge DEF Slots
<1>2. workspace[l] = Slot(one, 0, wide, c, l)
    BY DEF Counts
<1>3. CASE q % 2 = 1
    <2>1. /\ ((q - 1) * Pow2[l]) * LeafBytes = from
          /\ End(q * Pow2[l], wide) - ((q - 1) * Pow2[l]) * LeafBytes = span
          /\ End(q * Pow2[l], length) - ((q - 1) * Pow2[l]) * LeafBytes = span
        BY <1>1, <1>3, SlotNumbers
    <2>2. /\ Slot(one, 0, wide, c, l) = TreeNode(one, 0 + from, span)
          /\ Slot(other, 0, length, c, l) = TreeNode(other, 0 + from, span)
        <3>1. /\ Slot(one, 0, wide, c, l)
                     = Over(one, 0, wide, (q - 1) * Pow2[l], q * Pow2[l])
              /\ Slot(other, 0, length, c, l)
                     = Over(other, 0, length, (q - 1) * Pow2[l], q * Pow2[l])
            BY <1>3 DEF Slot
        <3> HIDE DEF q, from, span
        <3> QED BY <2>1, <3>1 DEF Over
    <2>3. /\ from \in Nat /\ span \in Nat \ {0}
          /\ from + span <= c * LeafBytes
        <3>1. Pow2[l] \in Nat \ {0}
            BY <1>1, Pow2Positive
        <3>2. /\ q \in Nat \ {0} /\ c % Pow2[l] \in Nat
              /\ c = (Pow2[l] * q) + (c % Pow2[l])
            BY <1>1, <1>3, HalfIndex
        <3>3. PICK n \in Nat : q = n + 1
            <4>1. q - 1 \in Nat /\ q = (q - 1) + 1
                BY <3>2
            <4> QED BY <4>1
        <3>4. PICK r \in Nat : r = c % Pow2[l]
            BY <3>2
        <3> HIDE DEF q
        <3>5. c = Pow2[l] * q + r
            BY <3>2, <3>4
        <3>6. span \in Nat \ {0}
            BY <1>1, <3>1
        <3>7. c * LeafBytes = q * span + r * LeafBytes
            BY <1>1, <3>1, <3>3, <3>5
        <3> HIDE DEF span
        <3>8. q * span = n * span + span /\ from = n * span
            BY <3>3, <3>6
        <3>9. n * span \in Nat /\ r * LeafBytes \in Nat
            BY <1>1, <3>6
        <3> QED BY <3>6, <3>7, <3>8, <3>9
    <2> HIDE DEF q, span, from
    <2>4. Agree(one, other, 0 + from, (0 + from) + span)
        BY <1>1, <2>3 DEF Agree
    <2>5. (0 + from) + span <= SizeMax /\ 0 + from \in Nat
        BY <1>1, <2>3
    <2>6. SameNode(one, other, 0 + from, span)
        BY <2>3, <2>4, <2>5, NodeIsLocal
    <2> QED BY <1>2, <2>2, <2>6 DEF SameNode
<1>4. CASE ~(q % 2 = 1)
    BY <1>2, <1>4 DEF Slot
<1> QED BY <1>3, <1>4

\* Any range from offset 0 on is accepted.
LEMMA RangeFromZero ==
    ASSUME NEW length \in Nat \ {0}, length <= SizeMax
    PROVE  RangeAccepted(0, length)
<1>1. SizeMax \in Nat /\ LeafBytes \in Nat \ {0}
    BY SizeMaxLarge, ScheduleAssumption
<1>2. 0 \div LeafBytes = 0 /\ 0 % LeafBytes = 0
    <2>1. 0 * LeafBytes + 0 = 0 /\ 0 \in 0..(LeafBytes - 1) /\ 0 \in Nat
        BY <1>1
    <2> QED BY <1>1, <2>1, DivModUnique
<1>3. LeafCount(length) \in Nat /\ LeafCount(length) <= length
    BY LeavesCover
<1> QED BY <1>1, <1>2, <1>3, AcceptsInside

\* A leaf has two bytes or more: params.h requires the leaf to be as long as
\* the shortest padded message, and that has the marker and the length.
LEMMA LeafOfTwo == LeafBytes >= 2
BY PaddingAssumption, ScheduleAssumption DEF Overhead

\* The number of bytes the leaves of a range have, before and after the last.
LEMMA EndOfLeaves ==
    ASSUME NEW length \in Nat \ {0}
    PROVE  /\ End(0, length) = 0
           /\ \A c \in 0..LeafCount(length) :
                  /\ c < LeafCount(length) => /\ End(c, length) = c * LeafBytes
                                              /\ c * LeafBytes < length
                  /\ c = LeafCount(length) => End(c, length) = length
<1>1. /\ LeafBytes \in Nat
      /\ LeafCount(length) \in Nat
      /\ length <= LeafCount(length) * LeafBytes
    BY LeavesCover, ScheduleAssumption
<1>2. End(0, length) = 0
    BY <1>1 DEF End
<1>3. ASSUME NEW c \in 0..LeafCount(length), c < LeafCount(length)
      PROVE  End(c, length) = c * LeafBytes /\ c * LeafBytes < length
    <2>1. c \in Nat
        BY <1>1
    <2>2. c * LeafBytes \in Nat /\ c * LeafBytes < length
        BY <1>3, <2>1, LeavesWithout
    <2> QED BY <2>2 DEF End
<1>4. End(LeafCount(length), length) = length
    <2>1. LeafCount(length) * LeafBytes \in Nat
        BY <1>1
    <2> QED BY <1>1, <2>1 DEF End
<1> QED BY <1>2, <1>3, <1>4

-----------------------------------------------------------------------------
(* The lengths that are supported *)

\* The tests of a length accept exactly the lengths the format can hash.
LEMMA SupportsHashable ==
    ASSUME NEW n \in Nat
    PROVE  LengthSupported(n) <=> Hashable(n)
<1>1. /\ Overhead \in Nat /\ PaddingMin \in Nat /\ SizeMax \in Nat
      /\ PaddingMin <= SizeMax
      /\ 8 * LengthBytes \in Nat
    BY PaddingAssumption, SizeMaxLarge DEF Overhead
<1>2. n <= SizeMax - Overhead <=> PaddedLength(n) <= SizeMax
    BY <1>1 DEF PaddedLength
<1>3. PICK p \in Nat : p = Pow2[8 * LengthBytes] - 1
    BY <1>1, Pow2Positive
<1>4. PICK q \in Nat, r \in 0..7 : q = p \div 8 /\ p = (8 * q) + r
    BY DivMod
<1>5. Pow2[8 * LengthBytes] = p + 1 /\ FieldMax = q
    <2>1. Pow2[8 * LengthBytes] \in Nat
        BY <1>1, Pow2Positive
    <2> QED BY <1>3, <1>4, <2>1 DEF FieldMax
<1>6. n <= FieldMax <=> 8 * n < Pow2[8 * LengthBytes]
    BY <1>4, <1>5
<1> QED BY <1>2, <1>6 DEF LengthSupported, Hashable

LEMMA SupportedFits ==
    ASSUME NEW n \in Nat, LengthSupported(n)
    PROVE  n <= SizeMax /\ PaddedLength(n) <= SizeMax /\ PaddedLength(n) \in Nat
<1>1. Overhead \in Nat /\ SizeMax \in Nat /\ PaddingMin \in Nat
    BY PaddingAssumption, SizeMaxLarge DEF Overhead
<1>2. n <= SizeMax - Overhead
    BY DEF LengthSupported
<1>3. PaddedLength(n) <= SizeMax
    BY SupportsHashable DEF Hashable
<1> QED BY <1>1, <1>2, <1>3 DEF PaddedLength
=============================================================================
