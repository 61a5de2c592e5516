------------------------- MODULE TreeClientProofs -------------------------
(***************************************************************************)
(* The clients of the tree's functions, for every leaf size, message and     *)
(* width of size_t.  The descent, from every root: a range of several        *)
(* leaves is always split, its blocks tile it the canonical way, nothing     *)
(* leaves size_t, and the level bounds the depth.  The combining client:     *)
(* exactly the siblings combine, and to the one node of their range.  The    *)
(* leaf loop fch_process_reader: what its slots hold, the root it returns,   *)
(* when it fails and what it frees.  The one-shot API: its digest is the     *)
(* reference's, it fails exactly for cause, and it leaves nothing allocated  *)
(* and nothing overwritten.  The attack screens: the messages they compare   *)
(* are different ones, the tree ends each of their calls as they demand, and *)
(* what they report they have tried, and their statistics are those of the  *)
(* states they are taken of.                                               *)
(***************************************************************************)
EXTENDS TreeDescent, CombineApi, FchProcess, FchOneShot, TreeAttacks, TreeProofs,
        SequenceTheorems, FiniteSetTheorems

-----------------------------------------------------------------------------
(* The descent *)

\* fch_fractal_split_reader on an accepted range of one leaf.
LEMMA OneBlock ==
    ASSUME NEW offset \in Nat, NEW length \in Nat, RangeAccepted(offset, length),
           LeafCount(length) = 1
    PROVE  Len(FractalSplit(offset, length, Arity)) = 1
<1>1. PositionOf(offset, length).leaf_count = 1
    BY DEF PositionOf
<1>2. FractalSplit(offset, length, Arity) = << [offset |-> 0, length |-> length] >>
    BY <1>1 DEF FractalSplit, Arity
<1> QED BY <1>2

\* And on one of several.
LEMMA TwoBlocks ==
    ASSUME NEW offset \in Nat, NEW length \in Nat, RangeAccepted(offset, length),
           LeafCount(length) >= 2
    PROVE  LET blocks == FractalSplit(offset, length, Arity)
               k      == LeastExponentAbove((LeafCount(length) - 1) \div 2)
               left   == Pow2[k] * LeafBytes
           IN
           /\ Len(blocks) = Arity
           /\ blocks[1] = [offset |-> 0, length |-> left]
           /\ blocks[2] = [offset |-> left, length |-> length - left]
<1> DEFINE parent == PositionOf(offset, length)
           k      == LeastExponentAbove((LeafCount(length) - 1) \div 2)
           left   == Pow2[k] * LeafBytes
           halves == [i \in 1..Arity |->
                         [offset |-> Children(parent)[i].byte_offset - offset,
                          length |-> Children(parent)[i].byte_length]]
<1>1. SplitAccepted(parent)
    BY SplitAlways
<1>2. /\ LargestPowerOfTwoBelow(LeafCount(length)) = Pow2[k]
      /\ left \in Nat \ {0}
    BY SplitNumbers
<1> HIDE DEF k
<1>3. /\ parent.leaf_count = LeafCount(length)
      /\ parent.byte_offset = offset
      /\ parent.byte_length = length
    BY DEF PositionOf
<1>4. parent.leaf_count # 1
    BY <1>3
<1> HIDE DEF parent
<1>5. FractalSplit(offset, length, Arity) = halves
    BY <1>1, <1>4 DEF FractalSplit, Arity, parent
<1>6. LeftLength(parent) = left
    BY <1>2, <1>3 DEF LeftLength
<1>7. /\ Children(parent)[1] = PositionOf(offset, left)
      /\ Children(parent)[2] = PositionOf(offset + left, length - left)
    BY <1>3, <1>6 DEF Children
<1> HIDE DEF left
<1>8. /\ Children(parent)[1].byte_offset - offset = 0
      /\ Children(parent)[1].byte_length = left
      /\ Children(parent)[2].byte_offset - offset = left
      /\ Children(parent)[2].byte_length = length - left
    BY <1>2, <1>7 DEF PositionOf
<1>9. Len(halves) = Arity
    BY DEF Arity
<1>10. /\ halves[1] = [offset |-> 0, length |-> left]
       /\ halves[2] = [offset |-> left, length |-> length - left]
    BY <1>8 DEF Arity
<1> QED BY <1>5, <1>9, <1>10 DEF left, k

-----------------------------------------------------------------------------

\* The range in hand is one the API accepts, inside the root, and its level
\* has fallen by at least one with every split.
DescentIInv ==
    /\ start.offset \in Nat
    /\ start.length \in Nat
    /\ RangeAccepted(start.offset, start.length)
    /\ range.offset \in Nat
    /\ range.length \in Nat
    /\ RangeAccepted(range.offset, range.length)
    /\ range.offset >= start.offset
    /\ range.offset + range.length <= start.offset + start.length
    /\ depth \in Nat
    /\ depth + Level(LeafCount(range.length)) <= Level(LeafCount(start.length))

LEMMA DescentStarts == DescentInit => DescentIInv
<1> SUFFICES ASSUME DescentInit PROVE DescentIInv
    OBVIOUS
<1>1. PICK pair \in Roots : start = RangeOf(pair)
    BY DEF DescentInit
<1>2. start.offset \in Nat /\ start.length \in Nat
    BY <1>1, RootsAssumption, SizeMaxLarge DEF RangeOf
<1>3. RangeAccepted(start.offset, start.length) /\ range = start /\ depth = 0
    BY DEF DescentInit
<1>4. Level(LeafCount(start.length)) \in Nat
    BY <1>2, <1>3, AcceptedRange, ScheduleAssumption
<1> QED BY <1>2, <1>3, <1>4 DEF DescentIInv

LEMMA DescendKeeps ==
    ASSUME DescentIInv, NEW i \in 1..Arity, Descend(i)
    PROVE  DescentIInv'
<1> DEFINE n    == LeafCount(range.length)
           k    == LeastExponentAbove((n - 1) \div 2)
           left == Pow2[k] * LeafBytes
           blocks == FractalSplit(range.offset, range.length, Arity)
<1>1. range.offset \in Nat /\ range.length \in Nat
      /\ RangeAccepted(range.offset, range.length)
    BY DEF DescentIInv
<1>2. n \in Nat \ {0} /\ range.length \in Nat \ {0}
    BY <1>1, AcceptedRange
<1>3. n >= 2
    <2>1. CASE n = 1
        <3>1. Len(blocks) = 1
            BY <2>1, <1>1, OneBlock
        <3> QED BY <3>1 DEF Descend, Arity
    <2> QED BY <2>1, <1>2
<1>4. /\ k \in 0..(WorkspaceSlots - 1)
      /\ Pow2[k] \in Nat \ {0}
      /\ Pow2[k] < n
      /\ left \in Nat \ {0}
      /\ left < range.length
      /\ LeafCount(left) = Pow2[k]
      /\ LeafCount(range.length - left) = n - Pow2[k]
      /\ RangeAccepted(range.offset, left)
      /\ RangeAccepted(range.offset + left, range.length - left)
      /\ Level(n) = k + 1
      /\ Level(Pow2[k]) <= k
      /\ Level(n - Pow2[k]) <= k
    BY <1>1, <1>3, SplitNumbers
<1>5. /\ blocks[1] = [offset |-> 0, length |-> left]
      /\ blocks[2] = [offset |-> left, length |-> range.length - left]
    BY <1>1, <1>3, TwoBlocks
<1>6. /\ range' = [offset |-> range.offset + blocks[i].offset,
                   length |-> blocks[i].length]
      /\ depth' = depth + 1
      /\ start' = start
    BY DEF Descend
<1> HIDE DEF n, k, left, blocks
<1>7. Level(n) \in Nat /\ Level(LeafCount(start.length)) \in Nat
      /\ depth \in Nat /\ depth + Level(n) <= Level(LeafCount(start.length))
    BY <1>1, AcceptedRange, ScheduleAssumption DEF DescentIInv, n
<1>8. CASE i = 1
    <2>1. range'.offset = range.offset /\ range'.length = left
        BY <1>1, <1>5, <1>6, <1>8
    <2>2. Level(LeafCount(left)) \in Nat
        BY <1>1, <1>4, AcceptedRange, ScheduleAssumption
    <2>3. depth' + Level(LeafCount(range'.length)) <= Level(LeafCount(start.length))
        BY <2>1, <2>2, <1>4, <1>6, <1>7
    <2> QED BY <2>1, <2>3, <1>1, <1>4, <1>6 DEF DescentIInv
<1>9. CASE i = 2
    <2>1. range'.offset = range.offset + left
          /\ range'.length = range.length - left
        BY <1>5, <1>6, <1>9
    <2>2. Level(LeafCount(range.length - left)) \in Nat
        <3> DEFINE o == range.offset + left
                   l == range.length - left
        <3>1. o \in Nat /\ l \in Nat /\ RangeAccepted(o, l)
            BY <1>1, <1>4
        <3> HIDE DEF o, l
        <3>2. Level(LeafCount(l)) \in 0..WorkspaceSlots
            BY <3>1, AcceptedRange
        <3>3. Level(LeafCount(l)) \in Nat
            BY <3>2, ScheduleAssumption
        <3> QED BY <3>3 DEF l
    <2>3. depth' + Level(LeafCount(range'.length)) <= Level(LeafCount(start.length))
        BY <2>1, <2>2, <1>4, <1>6, <1>7
    <2>4. /\ range'.offset \in Nat
          /\ range'.length \in Nat
          /\ range'.offset >= range.offset
          /\ range'.offset + range'.length = range.offset + range.length
        BY <2>1, <1>1, <1>4
    <2>5. /\ range'.offset >= start.offset
          /\ range'.offset + range'.length <= start.offset + start.length
        BY <2>4, <1>1 DEF DescentIInv
    <2>6. RangeAccepted(range'.offset, range'.length)
        BY <2>1, <1>4
    <2> QED BY <2>3, <2>4, <2>5, <2>6, <1>6, <1>7 DEF DescentIInv
<1> QED BY <1>8, <1>9 DEF Arity

\* The inductive invariant of the descent.
THEOREM DescentInvariant == DescentSpec => []DescentIInv
<1>1. DescentIInv /\ [DescentNext]_descentVars => DescentIInv'
    <2> SUFFICES ASSUME DescentIInv, [DescentNext]_descentVars PROVE DescentIInv'
        OBVIOUS
    <2>1. CASE \E i \in 1..Arity : Descend(i)
        BY <2>1, DescendKeeps
    <2>2. CASE LeafReached \/ UNCHANGED descentVars
        BY <2>2 DEF LeafReached, descentVars, DescentIInv
    <2> QED BY <2>1, <2>2 DEF DescentNext
<1> QED BY DescentStarts, <1>1, PTL DEF DescentSpec

\* A range of several leaves that the API produced is always split.
THEOREM DescentSplits == DescentSpec => []SplitTotal
<1>1. DescentIInv => SplitTotal
    <2> SUFFICES ASSUME DescentIInv, Here.leaf_count >= Arity PROVE SplitAccepted(Here)
        BY DEF SplitTotal
    <2>1. LeafCount(range.length) >= 2
        BY DEF Here, PositionOf, Arity
    <2> QED BY <2>1, SplitAlways DEF DescentIInv, Here
<1> QED BY DescentInvariant, <1>1, PTL

\* Its blocks tile it, the left one a full subtree, the right no larger.
THEOREM DescentTiles == DescentSpec => []SplitTiles
<1>1. DescentIInv => SplitTiles
    <2> DEFINE n      == LeafCount(range.length)
               k      == LeastExponentAbove((n - 1) \div 2)
               left   == Pow2[k] * LeafBytes
               blocks == FractalSplit(range.offset, range.length, Arity)
    <2> SUFFICES ASSUME DescentIInv, Len(blocks) = Arity
                 PROVE  /\ blocks[1].offset = 0
                        /\ blocks[2].offset = blocks[1].length
                        /\ blocks[2].offset + blocks[2].length = range.length
                        /\ blocks[1].length \in
                               {LeafBytes * Pow2[l] : l \in 0..WorkspaceSlots}
                        /\ blocks[2].length <= blocks[1].length
        BY DEF SplitTiles
    <2>1. range.offset \in Nat /\ range.length \in Nat
          /\ RangeAccepted(range.offset, range.length)
        BY DEF DescentIInv
    <2>2. n \in Nat \ {0}
        BY <2>1, AcceptedRange
    <2>3. n >= 2
        <3>1. CASE n = 1
            BY <3>1, <2>1, OneBlock DEF Arity
        <3> QED BY <3>1, <2>2
    <2>4. /\ k \in 0..(WorkspaceSlots - 1)
          /\ Pow2[k] \in Nat
          /\ left \in Nat
          /\ left < range.length
          /\ range.length <= 2 * left
        BY <2>1, <2>3, SplitNumbers
    <2>5. /\ blocks[1] = [offset |-> 0, length |-> left]
          /\ blocks[2] = [offset |-> left, length |-> range.length - left]
        BY <2>1, <2>3, TwoBlocks
    <2>6. left = LeafBytes * Pow2[k] /\ k \in 0..WorkspaceSlots
        BY <2>4, ScheduleAssumption
    <2> HIDE DEF n, k, left, blocks
    <2> QED BY <2>1, <2>4, <2>5, <2>6
<1> QED BY DescentInvariant, <1>1, PTL

\* A descent takes at most as many splits as its root has levels.
THEOREM DescentBounded == DescentSpec => []DepthBounded
<1>1. DescentIInv => DepthBounded
    BY DEF DescentIInv, DepthBounded, Here, PositionOf
<1> QED BY DescentInvariant, <1>1, PTL

\* The sums the descent computes without a check stay in size_t.
THEOREM DescentTypes == DescentSpec => []TypeOK
<1>1. DescentIInv => TypeOK
    <2> SUFFICES ASSUME DescentIInv PROVE TypeOK
        OBVIOUS
    <2>1. /\ range.length \in Nat \ {0}
          /\ range.offset + range.length <= SizeMax
          /\ Level(LeafCount(range.length)) \in 0..WorkspaceSlots
        BY AcceptedRange DEF DescentIInv
    <2>2. Level(LeafCount(start.length)) \in 0..WorkspaceSlots
        BY AcceptedRange DEF DescentIInv
    <2>3. depth \in 0..WorkspaceSlots
        BY <2>1, <2>2, ScheduleAssumption DEF DescentIInv
    <2> QED BY <2>1, <2>3, SizeMaxLarge DEF DescentIInv, TypeOK
<1> QED BY DescentInvariant, <1>1, PTL

-----------------------------------------------------------------------------
(* The combining client *)

\* Every node in hand is the one the reference defines for its range, which
\* is a range the API accepts.
HoldsTreeNodes ==
    \A node \in nodes :
        \E offset, length \in Nat :
            /\ RangeAccepted(offset, length)
            /\ node = TreeNode(Input, offset, length)

\* An accepted range and the position of the node over it.
LEMMA NodeInHand ==
    ASSUME NEW offset \in Nat, NEW length \in Nat, RangeAccepted(offset, length)
    PROVE  LET node == TreeNode(Input, offset, length) IN
           /\ <<offset, length>> \in Ranges
           /\ node.tree = PositionOf(offset, length)
           /\ node.tree.byte_offset = offset
           /\ node.tree.byte_length = length
<1>1. <<offset, length>> \in Ranges
    BY AcceptedRange, SizeMaxLarge DEF Ranges
<1>2. TreeNode(Input, offset, length).tree = PositionOf(offset, length)
    BY <1>1, NodePlace DEF TreeNode
<1> QED BY <1>1, <1>2 DEF PositionOf

\* fch_leaf_compress_reader makes the reference's leaf.
LEMMA LeafInHand ==
    ASSUME NEW offset \in Nat, NEW length \in Nat,
           LeafAccepted(Input, offset, length)
    PROVE  LeafNode(Input, offset, length) = TreeNode(Input, offset, length)
<1>1. RangeAccepted(offset, length) /\ LeafCount(length) = 1
    BY DEF LeafAccepted
<1>2. <<offset, length>> \in Ranges
    BY <1>1, NodeInHand
<1>3. Tree(Input)[<<offset, length>>]
          = TreeStep(Input, Tree(Input), <<offset, length>>)
    BY <1>2, TreeEquation
<1> QED BY <1>1, <1>3 DEF TreeStep, TreeNode

\* What the combiner accepts are the two children of a split, and a split's
\* left child is a full subtree.
LEMMA AcceptedAreSiblings ==
    ASSUME NEW offset \in Nat, NEW length \in Nat, RangeAccepted(offset, length),
           NEW from \in Nat, NEW rest \in Nat, RangeAccepted(from, rest),
           NEW left, left.tree = PositionOf(offset, length),
           NEW right, right.tree = PositionOf(from, rest),
           NEW blocks, NEW total,
           CombineAccepted(left, right, blocks, total)
    PROVE  /\ total = length + rest
           /\ from = offset + length
           /\ rest <= length
           /\ LeafCount(rest) <= LeafCount(length)
           /\ RangeAccepted(offset, total)
           /\ \E k \in 0..WorkspaceSlots : length = Pow2[k] * LeafBytes
<1> DEFINE parent == PositionOf(offset, total)
           n      == LeafCount(total)
           k      == LeastExponentAbove((n - 1) \div 2)
<1>1. /\ left.tree.byte_offset = offset
      /\ left.tree.byte_length = length
      /\ right.tree.byte_offset = from
      /\ right.tree.byte_length = rest
    BY DEF PositionOf
<1>2. /\ total = length + rest
      /\ RangeAccepted(offset, total)
      /\ SplitAccepted(parent)
      /\ << left.tree, right.tree >> = Children(parent)
    BY <1>1 DEF CombineAccepted
<1>3. total \in Nat
    BY <1>2
<1>4. n >= 2
    BY <1>2 DEF SplitAccepted, PositionOf, Arity
<1>5. /\ k \in 0..(WorkspaceSlots - 1)
      /\ LargestPowerOfTwoBelow(n) = Pow2[k]
      /\ Pow2[k] \in Nat \ {0}
      /\ n <= 2 * Pow2[k]
      /\ Pow2[k] * LeafBytes \in Nat \ {0}
      /\ total <= 2 * (Pow2[k] * LeafBytes)
      /\ LeafCount(Pow2[k] * LeafBytes) = Pow2[k]
      /\ LeafCount(total - (Pow2[k] * LeafBytes)) = n - Pow2[k]
    BY <1>2, <1>3, <1>4, SplitNumbers
<1> HIDE DEF k
<1>6. /\ parent.leaf_count = n
      /\ parent.byte_offset = offset
      /\ parent.byte_length = total
    BY DEF PositionOf
<1> HIDE DEF parent
<1>7. LeftLength(parent) = Pow2[k] * LeafBytes
    BY <1>5, <1>6 DEF LeftLength
<1> DEFINE span == Pow2[k] * LeafBytes
<1>8. /\ left.tree = PositionOf(offset, span)
      /\ right.tree = PositionOf(offset + span, total - span)
    BY <1>2, <1>6, <1>7 DEF Children
<1> HIDE DEF span
<1>9. /\ length = span
      /\ from = offset + span
      /\ rest = total - span
    BY <1>1, <1>8 DEF PositionOf
<1>10. n \in Nat
    BY <1>2, <1>3, AcceptedRange
<1>11. LeafCount(length) = Pow2[k] /\ LeafCount(rest) = n - Pow2[k]
    BY <1>5, <1>9 DEF span
<1> HIDE DEF n
<1>12. span \in Nat /\ total <= 2 * span
    BY <1>5 DEF span
<1>13. rest <= length
    BY <1>3, <1>9, <1>12
<1>14. LeafCount(rest) <= LeafCount(length)
    BY <1>5, <1>10, <1>11
<1>15. k \in 0..WorkspaceSlots
    BY <1>5, ScheduleAssumption
<1> QED BY <1>2, <1>9, <1>13, <1>14, <1>15 DEF span

\* Conversely a full subtree and what follows it, no longer, make an accepted
\* range.
LEMMA NeighboursAccepted ==
    ASSUME NEW offset \in Nat, NEW length \in Nat, RangeAccepted(offset, length),
           NEW rest \in Nat, RangeAccepted(offset + length, rest),
           NEW k \in 0..WorkspaceSlots, length = Pow2[k] * LeafBytes,
           rest <= length
    PROVE  RangeAccepted(offset, length + rest) /\ LeafCount(rest) <= Pow2[k]
<1>1. /\ Pow2[k] \in Nat \ {0}
      /\ LeafCount(length) = Pow2[k]
      /\ length \in Nat \ {0} /\ rest \in Nat \ {0}
    BY Pow2Positive, LeavesOfWhole, AcceptedRange, ScheduleAssumption
<1>2. LeafCount(rest) \in Nat /\ LeafCount(rest) <= Pow2[k]
    <2>1. LeafCount(rest) \in Nat
        BY <1>1, LeavesCover
    <2>2. ~(Pow2[k] < LeafCount(rest))
        <3>1. Pow2[k] < LeafCount(rest) => Pow2[k] * LeafBytes < rest
            BY <1>1, LeavesWithout
        <3>2. ~(length < rest)
            BY <1>1
        <3> QED BY <3>1, <3>2
    <2> QED BY <1>1, <2>1, <2>2
<1>3. LeafCount(length + rest) = Pow2[k] + LeafCount(rest)
    BY <1>1, LeavesAfter
<1>4. offset % LeafBytes = 0 /\ offset \div LeafBytes \in Nat
    BY DivMod, ScheduleAssumption DEF RangeAccepted
<1>5. (offset + length) \div LeafBytes = (offset \div LeafBytes) + Pow2[k]
    BY <1>1, <1>4, WholeLeaves
<1>6. /\ (offset + length) + rest <= SizeMax
      /\ ((offset + length) \div LeafBytes) + LeafCount(rest) <= SizeMax
    BY AcceptedRange
<1>7. /\ offset + (length + rest) <= SizeMax
      /\ (offset \div LeafBytes) + LeafCount(length + rest) <= SizeMax
    BY <1>1, <1>2, <1>3, <1>4, <1>5, <1>6
<1> QED BY <1>1, <1>2, <1>4, <1>7, AcceptsInside

\* What they combine to is the tree over both.
LEMMA CombinedInHand ==
    ASSUME NEW offset \in Nat, NEW length \in Nat, RangeAccepted(offset, length),
           NEW from \in Nat, NEW rest \in Nat, RangeAccepted(from, rest),
           NEW blocks, NEW total,
           CombineAccepted(TreeNode(Input, offset, length),
                           TreeNode(Input, from, rest), blocks, total)
    PROVE  /\ total \in Nat
           /\ RangeAccepted(offset, total)
           /\ Combine(TreeNode(Input, offset, length),
                      TreeNode(Input, from, rest), total)
                  = TreeNode(Input, offset, total)
<1> DEFINE left  == TreeNode(Input, offset, length)
           right == TreeNode(Input, from, rest)
<1>1. /\ left.tree = PositionOf(offset, length)
      /\ left.tree.byte_length = length
      /\ right.tree = PositionOf(from, rest)
      /\ right.tree.byte_length = rest
    BY NodeInHand
<1> HIDE DEF left, right
<1>2. CombineAccepted(left, right, blocks, total)
    BY DEF left, right
<1>3. /\ total = length + rest
      /\ from = offset + length
      /\ LeafCount(rest) <= LeafCount(length)
      /\ RangeAccepted(offset, total)
    BY <1>1, <1>2, AcceptedAreSiblings
<1>4. PICK k \in 0..WorkspaceSlots : length = Pow2[k] * LeafBytes
    BY <1>1, <1>2, AcceptedAreSiblings
<1>5. Pow2[k] \in Nat \ {0} /\ k \in Nat
    BY Pow2Positive, ScheduleAssumption
<1>6. LeafCount(rest) <= Pow2[k]
    BY <1>3, <1>4, <1>5, LeavesOfWhole
<1>7. rest \in Nat \ {0}
    BY AcceptedRange
<1>8. Joins(TreeNode(Input, offset, length),
            TreeNode(Input, offset + length, rest),
            TreeNode(Input, offset, length + rest))
    BY <1>3, <1>4, <1>5, <1>6, <1>7, SiblingsCombine
<1>9. CombineSlots(left, right) = TreeNode(Input, offset, total)
    BY <1>3, <1>8 DEF Joins, left, right
<1>10. CombineSlots(left, right) = Combine(left, right, total)
    BY <1>1, <1>3 DEF CombineSlots
<1> QED BY <1>3, <1>9, <1>10 DEF left, right

LEMMA CombineKeeps ==
    ASSUME HoldsTreeNodes, [CombineNext]_nodes
    PROVE  HoldsTreeNodes'
<1>1. ASSUME NEW offset \in 0..SizeMax, NEW length \in 1..LeafBytes,
             HoldLeaf(offset, length)
      PROVE  HoldsTreeNodes'
    <2>1. offset \in Nat /\ length \in Nat
        BY SizeMaxLarge, ScheduleAssumption
    <2>2. /\ LeafAccepted(Input, offset, length)
          /\ nodes' = nodes \cup {LeafNode(Input, offset, length)}
        BY <1>1 DEF HoldLeaf, Hold
    <2>3. LeafNode(Input, offset, length) = TreeNode(Input, offset, length)
        BY <2>1, <2>2, LeafInHand
    <2>4. RangeAccepted(offset, length)
        BY <2>2 DEF LeafAccepted
    <2> QED BY <2>1, <2>2, <2>3, <2>4 DEF HoldsTreeNodes
<1>2. ASSUME NEW left \in nodes, NEW right \in nodes, NEW blocks, NEW total,
             Call(left, right, blocks, total)
      PROVE  HoldsTreeNodes'
    <2>1. PICK offset \in Nat, length \in Nat :
              /\ RangeAccepted(offset, length)
              /\ left = TreeNode(Input, offset, length)
        BY DEF HoldsTreeNodes
    <2>2. PICK from \in Nat, rest \in Nat :
              /\ RangeAccepted(from, rest)
              /\ right = TreeNode(Input, from, rest)
        BY DEF HoldsTreeNodes
    <2>3. /\ CombineAccepted(left, right, blocks, total)
          /\ nodes' = nodes \cup {Combine(left, right, total)}
        BY <1>2 DEF Call, Hold
    <2>4. /\ total \in Nat
          /\ RangeAccepted(offset, total)
          /\ Combine(left, right, total) = TreeNode(Input, offset, total)
        BY <2>1, <2>2, <2>3, CombinedInHand
    <2> QED BY <2>3, <2>4 DEF HoldsTreeNodes
<1>3. ASSUME NEW node \in nodes, Release(node)
      PROVE  HoldsTreeNodes'
    BY <1>3 DEF Release, HoldsTreeNodes
<1>4. CASE UNCHANGED nodes
    BY <1>4 DEF HoldsTreeNodes
<1> QED BY <1>1, <1>2, <1>3, <1>4 DEF CombineNext

LEMMA CombineInvariant == CombineSpec => []HoldsTreeNodes
<1>1. CombineInit => HoldsTreeNodes
    BY DEF CombineInit, HoldsTreeNodes
<1>2. HoldsTreeNodes /\ [CombineNext]_nodes => HoldsTreeNodes'
    BY CombineKeeps
<1> QED BY <1>1, <1>2, PTL DEF CombineSpec

\* There is one tree over given bytes: no order of accepted calls of
\* fch_leaf_compress and fch_combine builds another node over a range.
THEOREM CombineOneTree == CombineSpec => []OneTreePerRange
<1>1. HoldsTreeNodes => OneTreePerRange
    <2> SUFFICES ASSUME HoldsTreeNodes, NEW node \in nodes
                 PROVE  node = TreeNode(Input, node.tree.byte_offset,
                                        node.tree.byte_length)
        BY DEF OneTreePerRange
    <2>1. PICK offset \in Nat, length \in Nat :
              /\ RangeAccepted(offset, length)
              /\ node = TreeNode(Input, offset, length)
        BY DEF HoldsTreeNodes
    <2> QED BY <2>1, NodeInHand
<1> QED BY <1>1, CombineInvariant, PTL

\* fch_combine accepts two nodes exactly when the left one is a full subtree
\* and the right one, no longer, starts where it ends.
THEOREM CombineSiblings == CombineSpec => []CombinesExactlySiblings
<1>1. ASSUME HoldsTreeNodes, NEW left \in nodes, NEW right \in nodes
      PROVE  LET l == left.tree.byte_length
                 r == right.tree.byte_length
                 blocks == << [offset |-> 0, length |-> l],
                              [offset |-> l, length |-> r] >>
             IN  CombineAccepted(left, right, blocks, l + r)
                 <=>
                 /\ \E k \in 0..WorkspaceSlots : l = Pow2[k] * LeafBytes
                 /\ right.tree.byte_offset = left.tree.byte_offset + l
                 /\ r <= l
    <2>1. PICK offset \in Nat, length \in Nat :
              /\ RangeAccepted(offset, length)
              /\ left = TreeNode(Input, offset, length)
        BY <1>1 DEF HoldsTreeNodes
    <2>2. PICK from \in Nat, rest \in Nat :
              /\ RangeAccepted(from, rest)
              /\ right = TreeNode(Input, from, rest)
        BY <1>1 DEF HoldsTreeNodes
    <2>3. /\ left.tree = PositionOf(offset, length)
          /\ left.tree.byte_offset = offset
          /\ left.tree.byte_length = length
          /\ right.tree = PositionOf(from, rest)
          /\ right.tree.byte_offset = from
          /\ right.tree.byte_length = rest
        BY <2>1, <2>2, NodeInHand
    <2> DEFINE blocks == << [offset |-> 0, length |-> length],
                            [offset |-> length, length |-> rest] >>
    <2>4. ASSUME CombineAccepted(left, right, blocks, length + rest)
          PROVE  /\ \E k \in 0..WorkspaceSlots : length = Pow2[k] * LeafBytes
                 /\ from = offset + length
                 /\ rest <= length
        <3> HIDE DEF blocks
        <3> QED BY <2>1, <2>2, <2>3, <2>4, AcceptedAreSiblings
    <2>5. ASSUME NEW k \in 0..WorkspaceSlots, length = Pow2[k] * LeafBytes,
                 from = offset + length, rest <= length
          PROVE  CombineAccepted(left, right, blocks, length + rest)
        <3>1. RangeAccepted(offset, length + rest) /\ LeafCount(rest) <= Pow2[k]
            BY <2>1, <2>2, <2>5, NeighboursAccepted
        <3>2. k \in Nat /\ rest \in Nat \ {0}
            BY <2>2, AcceptedRange, ScheduleAssumption
        <3>3. Joins(TreeNode(Input, offset, length),
                    TreeNode(Input, offset + length, rest),
                    TreeNode(Input, offset, length + rest))
            BY <3>1, <3>2, <2>5, SiblingsCombine
        <3>4. SlotsCombine(left, right)
            BY <3>3, <2>1, <2>2, <2>5 DEF Joins
        <3> QED BY <3>4, <2>3 DEF SlotsCombine, ChildBlocks
    <2> QED BY <2>3, <2>4, <2>5
<1>2. HoldsTreeNodes => CombinesExactlySiblings
    BY <1>1 DEF CombinesExactlySiblings
<1> QED BY <1>2, CombineInvariant, PTL

-----------------------------------------------------------------------------
(* The leaf loop *)

LeafTotal == LeafCount(request.length)

\* In the loop: the slots count the leaves pushed, and the offset and the
\* bytes left are those behind them.
InLoop(bytes) ==
    /\ RangeAccepted(request.offset, request.length)
    /\ root = EmptySlot
    /\ heap = TRUE
    /\ leaf_index \in 0..LeafTotal
    /\ leaf_offset = request.offset + End(leaf_index, request.length)
    /\ remaining = request.length - End(leaf_index, request.length)
    /\ Counts(workspace, bytes, request.offset, request.length, leaf_index)

\* The numbers of the request in hand are size_t values.
RequestOK == request.offset \in Nat /\ request.length \in Nat

\* The reader does not serve some byte of the range.
Unserved(reader) ==
    \E o \in request.offset..(request.offset + request.length - 1) :
        o \notin DOMAIN reader

\* A range that is accepted has a level within the workspace: the call is
\* refused only for its range or for want of memory.
LEMMA RefusedForCause ==
    ASSUME RequestOK, Refuse
    PROVE  /\ request' = request
           /\ pc' = "returned" /\ root' = EmptySlot /\ heap' = FALSE
           /\ ~RangeAccepted(request.offset, request.length) \/ ~request.memory
<1>1. request' = request /\ pc' = "returned" /\ root' = EmptySlot /\ heap' = FALSE
    BY DEF Refuse, ReturnNothing
<1>2. CASE RangeAccepted(request.offset, request.length)
    <2>1. RootPosition.level = Level(LeafCount(request.length))
        BY DEF RootPosition, PositionOf
    <2>2. RootPosition.level < WorkspaceSlots
        BY <1>2, <2>1, LeafOfTwo, LevelFits DEF RequestOK
    <2>3. RootPosition.level \in Nat
        <3>1. Level(LeafCount(request.length)) \in 0..WorkspaceSlots
            BY <1>2, AcceptedRange DEF RequestOK
        <3> QED BY <2>1, <3>1, ScheduleAssumption
    <2>4. ~request.memory
        BY <1>2, <2>2, <2>3, ScheduleAssumption DEF Refuse
    <2> QED BY <1>1, <2>4
<1> QED BY <1>1, <1>2

LEMMA BeginsLoop ==
    ASSUME NEW bytes, RequestOK, root = EmptySlot, Begin
    PROVE  /\ request' = request /\ request.memory
           /\ pc' = "leaves"
           /\ InLoop(bytes)'
<1>1. /\ request' = request /\ request.memory
      /\ RangeAccepted(request.offset, request.length)
      /\ root' = EmptySlot
      /\ pc' = "leaves" /\ heap' = TRUE
      /\ workspace' = EmptyWorkspace
      /\ leaf_index' = 0
      /\ leaf_offset' = request.offset
      /\ remaining' = request.length
    BY DEF Begin
<1>2. /\ request.offset \in Nat /\ request.length \in Nat \ {0}
      /\ LeafTotal \in Nat
    BY <1>1, AcceptedRange DEF LeafTotal, RequestOK
<1>3. End(0, request.length) = 0
    BY <1>2, EndOfLeaves
<1>4. Counts(EmptyWorkspace, bytes, request.offset, request.length, 0)
    BY EmptyCounts
<1>5. LeafTotal' = LeafTotal
    BY <1>1 DEF LeafTotal
<1> QED BY <1>1, <1>2, <1>3, <1>4, <1>5 DEF InLoop

\* The leaf the loop is at, and the checks of its arithmetic.
LEMMA NextLeaf ==
    ASSUME NEW bytes, RequestOK, InLoop(bytes), leaf_index < LeafTotal
    PROVE  LET place == leaf_index * LeafBytes IN
           /\ leaf_index \in Nat
           /\ place \in Nat
           /\ leaf_offset = request.offset + place
           /\ remaining = request.length - place
           /\ LeafLength = IF request.length - place > LeafBytes THEN LeafBytes
                           ELSE request.length - place
           /\ LeafLength \in Nat
           /\ leaf_offset <= SizeMax - LeafLength
           /\ place + LeafLength = End(leaf_index + 1, request.length)
<1> DEFINE place == leaf_index * LeafBytes
           count == LeafLength
<1>1. /\ RangeAccepted(request.offset, request.length)
      /\ request.offset \in Nat /\ request.length \in Nat \ {0}
      /\ request.offset + request.length <= SizeMax
      /\ SizeMax \in Nat
      /\ LeafTotal \in Nat
      /\ leaf_index \in 0..LeafTotal
    BY AcceptedRange, SizeMaxLarge DEF InLoop, LeafTotal, RequestOK
<1>2. leaf_index \in Nat /\ leaf_index < LeafCount(request.length)
    BY <1>1 DEF LeafTotal
<1>3. End(leaf_index, request.length) = place
    BY <1>1, <1>2, EndOfLeaves DEF LeafTotal
<1>4. leaf_offset = request.offset + place /\ remaining = request.length - place
    BY <1>3 DEF InLoop
<1>5. count = IF request.length - place > LeafBytes THEN LeafBytes
              ELSE request.length - place
    BY <1>4 DEF LeafLength
<1> HIDE DEF place, count
<1>6. /\ place \in Nat
      /\ count \in Nat \ {0}
      /\ place + count = End(leaf_index + 1, request.length)
      /\ place + count <= request.length
    <2>1. place = leaf_index * LeafBytes
        BY DEF place
    <2>2. PICK l \in Nat : l = request.length
        BY <1>1
    <2>3. PICK o \in Nat : o = request.offset
        BY <1>1
    <2>4. PICK c \in Nat : c = leaf_index
        BY <1>2
    <2>5. PICK f : f = place
        OBVIOUS
    <2>6. PICK n : n = count
        OBVIOUS
    <2>7. /\ RangeAccepted(o, l) /\ c < LeafCount(l) /\ f = c * LeafBytes
          /\ n = IF l - f > LeafBytes THEN LeafBytes ELSE l - f
        BY <1>1, <1>2, <1>5, <2>1, <2>2, <2>3, <2>4, <2>5, <2>6
    <2>8. /\ f \in Nat /\ n \in Nat \ {0}
          /\ f + n = End(c + 1, l) /\ f + n <= l
          /\ Over(bytes, o, l, c, c + 1) = LeafNode(bytes, o + f, n)
        BY <2>7, LeafIsOver
    <2> QED BY <2>2, <2>4, <2>5, <2>6, <2>8
<1>7. leaf_offset <= SizeMax - count
    BY <1>1, <1>4, <1>6
<1> QED BY <1>2, <1>4, <1>5, <1>6, <1>7 DEF place, count

\* One iteration: the leaf is counted, or the reader refused it.
LEMMA LeafPushed ==
    ASSUME NEW bytes, NEW reader, Serves(reader, bytes),
           RequestOK, InLoop(bytes), PushNextLeaf(reader)
    PROVE  /\ request' = request
           /\ \/ pc' = "leaves" /\ InLoop(bytes)'
              \/ /\ pc' = "returned" /\ root' = EmptySlot /\ heap' = FALSE
                 /\ Unserved(reader)
<1> DEFINE place == leaf_index * LeafBytes
           push  == PushLeaf(workspace, reader, leaf_offset, LeafLength)
<1>1. /\ request' = request
      /\ pc = "leaves" /\ leaf_index < LeafTotal
      /\ workspace' = push.workspace
    BY DEF PushNextLeaf, RootPosition, PositionOf, LeafTotal
<1>2. /\ RangeAccepted(request.offset, request.length)
      /\ request.offset \in Nat /\ request.length \in Nat
      /\ LeafTotal \in Nat
      /\ Counts(workspace, bytes, request.offset, request.length, leaf_index)
      /\ root = EmptySlot /\ heap = TRUE
    BY AcceptedRange DEF InLoop, LeafTotal, RequestOK
<1>3. /\ leaf_index \in Nat
      /\ place \in Nat
      /\ leaf_offset = request.offset + place
      /\ remaining = request.length - place
      /\ LeafLength = IF request.length - place > LeafBytes THEN LeafBytes
                      ELSE request.length - place
      /\ LeafLength \in Nat
      /\ leaf_offset <= SizeMax - LeafLength
      /\ place + LeafLength = End(leaf_index + 1, request.length)
    BY <1>1, NextLeaf
<1>4. \/ /\ push.ok
         /\ Counts(push.workspace, bytes, request.offset, request.length,
                   leaf_index + 1)
      \/ /\ ~push.ok
         /\ \E o \in request.offset..(request.offset + request.length - 1) :
                o \notin DOMAIN reader
    <2>1. place = leaf_index * LeafBytes
        BY DEF place
    <2>2. leaf_index < LeafCount(request.length)
        BY <1>1 DEF LeafTotal
    <2>3. push = PushLeaf(workspace, reader, request.offset + place,
                          LeafLength)
        BY <1>3
    <2> HIDE DEF place, push
    <2>4. PICK l \in Nat : l = request.length
        BY <1>2
    <2>5. PICK o \in Nat : o = request.offset
        BY <1>2
    <2>6. PICK c \in Nat : c = leaf_index
        BY <1>3
    <2>7. PICK f : f = place
        OBVIOUS
    <2>8. PICK n : n = LeafLength
        OBVIOUS
    <2>9. PICK r : r = reader
        OBVIOUS
    <2>10. PICK w : w = workspace
        OBVIOUS
    <2>11. /\ RangeAccepted(o, l) /\ c < LeafCount(l) /\ f = c * LeafBytes
           /\ n = IF l - f > LeafBytes THEN LeafBytes ELSE l - f
           /\ Counts(w, bytes, o, l, c)
           /\ Serves(r, bytes)
        BY <1>2, <1>3, <2>1, <2>2, <2>4, <2>5, <2>6, <2>7, <2>8, <2>9, <2>10
    <2>12. LeafCounted(PushLeaf(w, r, o + f, n), r, bytes, o, l, c)
        BY <2>11, PushLeafCounts
    <2>13. push = PushLeaf(w, r, o + f, n)
        BY <2>3, <2>5, <2>7, <2>8, <2>9, <2>10
    <2> QED BY <2>4, <2>5, <2>6, <2>9, <2>12, <2>13 DEF LeafCounted
<1>5. SizeMax \in Nat
    BY SizeMaxLarge
<1>6. CASE push.ok
    <2>1. /\ remaining' = remaining - LeafLength
          /\ leaf_offset' = leaf_offset + LeafLength
          /\ leaf_index' = leaf_index + 1
          /\ pc' = pc /\ root' = root /\ heap' = heap
        <3>1. ~(leaf_offset > SizeMax - LeafLength)
            BY <1>2, <1>3, <1>5
        <3> QED BY <1>6, <3>1 DEF PushNextLeaf, push
    <2>2. Counts(workspace', bytes, request.offset, request.length, leaf_index')
        BY <1>1, <1>4, <1>6, <2>1
    <2>3. leaf_index' \in 0..LeafTotal
        BY <1>1, <1>2, <1>3, <2>1
    <2>4. leaf_offset' = request.offset + End(leaf_index', request.length)
        BY <1>2, <1>3, <2>1
    <2>5. remaining' = request.length - End(leaf_index', request.length)
        BY <1>2, <1>3, <2>1
    <2>6. LeafTotal' = LeafTotal
        BY <1>1 DEF LeafTotal
    <2>7. InLoop(bytes)'
        BY <1>1, <1>2, <2>1, <2>2, <2>3, <2>4, <2>5, <2>6 DEF InLoop
    <2> QED BY <1>1, <2>1, <2>7
<1>7. CASE ~push.ok
    <2>1. pc' = "returned" /\ root' = EmptySlot /\ heap' = FALSE
        BY <1>7 DEF PushNextLeaf, ReturnNothing, push
    <2>2. Unserved(reader)
        BY <1>4, <1>7 DEF Unserved
    <2> QED BY <1>1, <2>1, <2>2
<1> QED BY <1>6, <1>7

\* The fold accepts the slots of the whole range and returns its node.
LEMMA RootFolded ==
    ASSUME NEW bytes, RequestOK, InLoop(bytes), FoldRoot
    PROVE  /\ request' = request
           /\ pc' = "returned"
           /\ root' = TreeNode(bytes, request.offset, request.length)
           /\ root'.occupied = TRUE
           /\ heap' = TRUE
<1>1. /\ request' = request
      /\ leaf_index = LeafCount(request.length)
    BY DEF FoldRoot, RootPosition, PositionOf
<1>2. /\ RangeAccepted(request.offset, request.length)
      /\ request.offset \in Nat /\ request.length \in Nat \ {0}
      /\ LeafCount(request.length) \in Nat \ {0}
      /\ Counts(workspace, bytes, request.offset, request.length,
                LeafCount(request.length))
      /\ heap = TRUE
      /\ SizeMax \in Nat
      /\ request.offset + request.length <= SizeMax
    BY <1>1, AcceptedRange, SizeMaxLarge DEF InLoop, RequestOK
<1>3. remaining = 0
    <2>1. End(LeafCount(request.length), request.length) = request.length
        BY <1>2, EndOfLeaves
    <2> QED BY <1>1, <1>2, <2>1 DEF InLoop
<1>4. /\ FoldAccepted(workspace, RootPosition)
      /\ Root(workspace) = TreeNode(bytes, request.offset, request.length)
    BY <1>2, FoldCounts DEF RootPosition
<1>5. pc' = "returned" /\ root' = Root(workspace) /\ heap' = TRUE
    BY <1>2, <1>3, <1>4 DEF FoldRoot
<1>6. TreeNode(bytes, request.offset, request.length).occupied = TRUE
    <2>1. <<request.offset, request.length>> \in Ranges
        BY <1>2 DEF Ranges
    <2> QED BY <2>1, NodePlace DEF TreeNode
<1> QED BY <1>1, <1>4, <1>5, <1>6

-----------------------------------------------------------------------------
(* fch_process_reader on its own *)

Cause ==
    \/ ~RangeAccepted(request.offset, request.length)
    \/ ~request.memory
    \/ Unserved(request.reader)

Failed ==
    /\ root = EmptySlot
    /\ heap = FALSE
    /\ Cause

Done ==
    /\ root = TreeNode(Content, request.offset, request.length)
    /\ root.occupied = TRUE
    /\ heap = TRUE

\* The inductive invariant.
ProcessIInv ==
    /\ request \in Requests
    /\ pc \in {"called", "leaves", "returned"}
    /\ pc = "called" => root = EmptySlot /\ heap = FALSE
    /\ pc = "leaves" => InLoop(Content)
    /\ pc = "returned" => Failed \/ Done

LEMMA RequestNumbers ==
    ASSUME request \in Requests
    PROVE  RequestOK /\ Serves(request.reader, Content)
BY ProcessAssumption, SizeMaxLarge DEF Serves, RequestOK

LEMMA RefuseKeeps ==
    ASSUME ProcessIInv, Refuse
    PROVE  ProcessIInv'
<1>1. request \in Requests /\ RequestOK
    BY RequestNumbers DEF ProcessIInv
<1>2. /\ request' = request
      /\ pc' = "returned" /\ root' = EmptySlot /\ heap' = FALSE
      /\ ~RangeAccepted(request.offset, request.length) \/ ~request.memory
    BY <1>1, RefusedForCause
<1>3. Cause'
    BY <1>2 DEF Cause
<1> QED BY <1>1, <1>2, <1>3 DEF ProcessIInv, Failed

LEMMA BeginKeeps ==
    ASSUME ProcessIInv, Begin
    PROVE  ProcessIInv'
<1>1. request \in Requests /\ RequestOK /\ root = EmptySlot
    BY RequestNumbers DEF ProcessIInv, Begin
<1>2. request' = request /\ pc' = "leaves" /\ InLoop(Content)'
    BY <1>1, BeginsLoop
<1> QED BY <1>1, <1>2 DEF ProcessIInv

LEMMA LeafKeeps ==
    ASSUME ProcessIInv, PushNextLeaf(request.reader)
    PROVE  ProcessIInv'
<1>1. /\ request \in Requests /\ RequestOK /\ InLoop(Content)
      /\ Serves(request.reader, Content)
    BY RequestNumbers DEF ProcessIInv, PushNextLeaf
<1>2. PICK r : r = request.reader
    OBVIOUS
<1>3. PushNextLeaf(r) /\ Serves(r, Content)
    BY <1>1, <1>2 DEF PushNextLeaf
<1>4. /\ request' = request
      /\ \/ pc' = "leaves" /\ InLoop(Content)'
         \/ /\ pc' = "returned" /\ root' = EmptySlot /\ heap' = FALSE
            /\ Unserved(r)
    BY <1>1, <1>3, LeafPushed
<1>5. Unserved(r) => Cause'
    BY <1>2, <1>4 DEF Cause, Unserved
<1> QED BY <1>1, <1>4, <1>5 DEF ProcessIInv, Failed

LEMMA RootKeeps ==
    ASSUME ProcessIInv, FoldRoot
    PROVE  ProcessIInv'
<1>1. request \in Requests /\ RequestOK /\ InLoop(Content)
    BY RequestNumbers DEF ProcessIInv, FoldRoot
<1>2. /\ request' = request
      /\ pc' = "returned"
      /\ root' = TreeNode(Content, request.offset, request.length)
      /\ root'.occupied = TRUE
      /\ heap' = TRUE
    BY <1>1, RootFolded
<1>3. Done'
    BY <1>2 DEF Done
<1> QED BY <1>1, <1>2, <1>3 DEF ProcessIInv

LEMMA ProcessStarts ==
    ASSUME ProcessInit
    PROVE  ProcessIInv
BY DEF ProcessInit, Idle, ProcessIInv

LEMMA ProcessKeepsIInv ==
    ASSUME ProcessIInv, [ProcessNext]_processVars
    PROVE  ProcessIInv'
<1>1. CASE Refuse
    BY <1>1, RefuseKeeps
<1>2. CASE Begin
    BY <1>2, BeginKeeps
<1>3. CASE PushNextLeaf(request.reader)
    BY <1>3, LeafKeeps
<1>4. CASE FoldRoot
    BY <1>4, RootKeeps
<1>5. CASE UNCHANGED processVars
    BY <1>5 DEF processVars, ProcessIInv, InLoop, Failed, Done, Cause, LeafTotal,
                 Unserved
<1>6. CASE Returned
    BY <1>5, <1>6 DEF Returned
<1> QED BY <1>1, <1>2, <1>3, <1>4, <1>5, <1>6 DEF ProcessNext

LEMMA ProcessInvariant == ProcessSpec => []ProcessIInv
<1>1. ProcessInit => ProcessIInv
    BY ProcessStarts
<1>2. ProcessIInv /\ [ProcessNext]_processVars => ProcessIInv'
    BY ProcessKeepsIInv
<1> QED BY <1>1, <1>2, PTL DEF ProcessSpec

-----------------------------------------------------------------------------

\* In the leaf loop the bytes behind and the bytes left make up the range, and
\* each slot holds the root of the last full subtree of its size, as the
\* reference builds it (fch_tree_push_leaf).
THEOREM ProcessSlots == ProcessSpec => []SlotsCountLeaves
<1>1. ASSUME ProcessIInv, pc = "leaves"
      PROVE  leaf_offset + remaining = request.offset + request.length
    <2>1. /\ request.offset \in Nat /\ request.length \in Nat \ {0}
          /\ LeafTotal \in Nat /\ leaf_index \in 0..LeafTotal
          /\ leaf_offset = request.offset + End(leaf_index, request.length)
          /\ remaining = request.length - End(leaf_index, request.length)
        BY <1>1, RequestNumbers, AcceptedRange
           DEF ProcessIInv, InLoop, LeafTotal, RequestOK
    <2>2. End(leaf_index, request.length) \in Nat
        BY <2>1, ScheduleAssumption DEF End
    <2> QED BY <2>1, <2>2
<1>2. ASSUME ProcessIInv, pc = "leaves", remaining > 0, NEW l \in Slots
      PROVE  LET index == leaf_index \div Pow2[l]
                 span  == Pow2[l] * LeafBytes
             IN  workspace[l] =
                     IF index % 2 = 1
                     THEN TreeNode(Content,
                                   request.offset + (index - 1) * span, span)
                     ELSE EmptySlot
    <2> DEFINE index == leaf_index \div Pow2[l]
               span  == Pow2[l] * LeafBytes
    <2>1. /\ request.length \in Nat \ {0}
          /\ LeafTotal \in Nat /\ leaf_index \in 0..LeafTotal
          /\ remaining = request.length - End(leaf_index, request.length)
        BY <1>2, RequestNumbers, AcceptedRange
           DEF ProcessIInv, InLoop, LeafTotal, RequestOK
    <2>2. leaf_index \in Nat /\ leaf_index < LeafCount(request.length)
        <3>1. leaf_index # LeafTotal
            BY <1>2, <2>1, EndOfLeaves DEF LeafTotal
        <3> QED BY <2>1, <3>1 DEF LeafTotal
    <2>3. workspace[l] = Slot(Content, request.offset, request.length,
                              leaf_index, l)
        BY <1>2 DEF ProcessIInv, InLoop, Counts
    <2>4. l \in Nat
        BY ScheduleAssumption DEF Slots
    <2>5. CASE index % 2 = 1
        <3>1. /\ ((index - 1) * Pow2[l]) * LeafBytes = (index - 1) * span
              /\ End(index * Pow2[l], request.length)
                     - ((index - 1) * Pow2[l]) * LeafBytes = span
            BY <2>1, <2>2, <2>4, <2>5, LeavesWithout, SlotNumbers
        <3>2. workspace[l] = Over(Content, request.offset, request.length,
                                  (index - 1) * Pow2[l], index * Pow2[l])
            BY <2>3, <2>5 DEF Slot
        <3> HIDE DEF index, span
        <3>3. workspace[l] =
                  TreeNode(Content, request.offset + (index - 1) * span, span)
            BY <3>1, <3>2 DEF Over
        <3> QED BY <2>5, <3>3 DEF index, span
    <2>6. CASE ~(index % 2 = 1)
        BY <2>3, <2>6 DEF Slot
    <2> QED BY <2>5, <2>6
<1>3. ProcessIInv => SlotsCountLeaves
    BY <1>1, <1>2 DEF SlotsCountLeaves
<1> QED BY <1>3, ProcessInvariant, PTL

\* The root that is returned is the node that the top-down recursion of
\* fch_reference.py defines for the range.
THEOREM ProcessRoot == ProcessSpec => []RootIsReference
<1>1. ProcessIInv => RootIsReference
    <2>1. EmptySlot.occupied = FALSE
        BY DEF EmptySlot
    <2> QED BY <2>1 DEF ProcessIInv, InLoop, Failed, Done, RootIsReference
<1> QED BY <1>1, ProcessInvariant, PTL

\* Between the checks of the range and the root, no check ever fires: the call
\* fails for a range it does not accept, for want of memory, or because the
\* reader refuses a byte.
THEOREM ProcessFailures == ProcessSpec => []FailsOnlyForCause
<1>1. ProcessIInv => FailsOnlyForCause
    BY DEF ProcessIInv, Failed, Done, Cause, Unserved, FailsOnlyForCause
<1> QED BY <1>1, ProcessInvariant, PTL

\* The state is allocated exactly while the loop runs and in a result: every
\* failure frees it (the `fail` label).
THEOREM ProcessKeeps == ProcessSpec => []NoLeak
<1>1. ProcessIInv => NoLeak
    <2>1. EmptySlot.occupied = FALSE
        BY DEF EmptySlot
    <2> QED BY <2>1 DEF ProcessIInv, InLoop, Failed, Done, NoLeak
<1> QED BY <1>1, ProcessInvariant, PTL

-----------------------------------------------------------------------------
(* The one-shot API *)

Padded == PaddedLength(call.length)
Whole  == PaddedMessage(call.input, call.length)

\* fch_process_reader at work for the one-shot API.
Running ==
    /\ request = [offset |-> 0, length |-> Padded, memory |-> call.memory]
    /\ pc \in {"called", "leaves", "returned"}
    /\ pc = "called" => root = EmptySlot /\ heap = FALSE
    /\ pc = "leaves" => call.memory /\ InLoop(Whole)
    /\ pc = "returned" =>
           \/ root = EmptySlot /\ heap = FALSE /\ ~call.memory
           \/ /\ root = TreeNode(Whole, 0, Padded)
              /\ root.occupied = TRUE
              /\ heap = TRUE
              /\ call.memory

\* The inductive invariant: the input is what it was until the call returns.
OneShotIInv ==
    /\ call \in Calls
    /\ stage \in {"called", "processing", "returned"}
    /\ stage # "returned" => input = call.input /\ out = Untouched
    /\ stage = "called" => root = EmptySlot /\ heap = FALSE
    /\ stage = "processing" => call.outputGiven /\ ArgumentsAccepted /\ Running
    /\ stage = "returned" =>
           DigestOfOriginal /\ FailsExactlyForCause /\ LeavesNothingBehind

-----------------------------------------------------------------------------

\* A chunk of the padded message is what its read returns: the early return
\* needs no padding, the marker is not missed where a chunk begins or ends at
\* it, and the length field lies behind both.
LEMMA ChunkIsPadded ==
    ASSUME NEW message, NEW length \in Nat, NEW offset \in Nat, NEW count \in Nat,
           NEW o \in offset..(offset + count - 1)
    PROVE  PaddedRead(message, length, offset, count)[o]
               = PaddedByte(message, length, o)
<1> DEFINE padded == PaddedLength(length)
           footer == padded - LengthBytes
           left   == IF offset < length THEN length - offset ELSE 0
           copied == IF left < count THEN left ELSE count
           marked == offset <= length /\ length - offset < count
           served == CASE copied = count -> message[o]
                       [] copied < count /\ o >= footer ->
                              LengthByte(length, o - footer)
                       [] copied < count /\ o < footer ->
                              IF marked /\ o = length THEN Marker
                              ELSE IF o < offset + copied THEN message[o]
                              ELSE ZeroByte
<1>1. /\ LengthBytes \in Nat /\ PaddingMin \in Nat
      /\ padded \in Nat /\ footer \in Nat /\ footer > length
    BY PaddingAssumption DEF PaddedLength, Overhead
<1>2. PaddedRead(message, length, offset, count)[o] = served
    BY DEF PaddedRead
<1>3. PaddedByte(message, length, o) =
          (IF o < length THEN message[o]
           ELSE IF o = length THEN Marker
           ELSE IF o >= footer THEN LengthByte(length, o - footer)
           ELSE ZeroByte)
    BY DEF PaddedByte
<1> HIDE DEF padded, footer
<1>4. CASE copied = count
    <2>1. o < length /\ served = message[o]
        BY <1>4
    <2> QED BY <2>1, <1>2, <1>3
<1>5. CASE copied < count /\ o >= footer
    <2>1. o > length /\ served = LengthByte(length, o - footer)
        BY <1>1, <1>5
    <2> QED BY <2>1, <1>1, <1>2, <1>3, <1>5
<1>6. CASE copied < count /\ o < footer
    <2>1. served = IF marked /\ o = length THEN Marker
                   ELSE IF o < offset + copied THEN message[o]
                   ELSE ZeroByte
        BY <1>1, <1>6
    <2>2. /\ o = length => marked
          /\ o < offset + copied <=> o < length
        BY <1>6
    <2> HIDE DEF served, marked, copied
    <2> QED BY <2>1, <2>2, <1>1, <1>2, <1>3, <1>6
<1> QED BY <1>1, <1>4, <1>5, <1>6

\* Every byte of the padded message lies in its chunk.
LEMMA ChunkHolds ==
    ASSUME NEW padded \in Nat, NEW o \in 0..(padded - 1)
    PROVE  LET chunk == ChunkOf(o, padded) IN
           /\ chunk.offset \in Nat /\ chunk.count \in Nat
           /\ o \in chunk.offset..(chunk.offset + chunk.count - 1)
<1> DEFINE m      == o \div LeafBytes
           leaf   == m * LeafBytes
           q      == (o - leaf) \div ChunkBytes
           offset == leaf + q * ChunkBytes
           end    == IF padded < leaf + LeafBytes THEN padded
                     ELSE leaf + LeafBytes
           count  == IF end - offset < ChunkBytes THEN end - offset
                     ELSE ChunkBytes
<1>1. LeafBytes \in Nat \ {0} /\ ChunkBytes \in Nat \ {0} /\ o \in Nat
    BY ScheduleAssumption, ChunkAssumption
<1>2. leaf \in Nat /\ leaf <= o /\ o < leaf + LeafBytes
    BY <1>1, DivMod
<1> HIDE DEF leaf
<1>3. /\ q \in Nat /\ q * ChunkBytes \in Nat
      /\ q * ChunkBytes <= o - leaf
      /\ o - leaf < q * ChunkBytes + ChunkBytes
    <2> DEFINE d == o - leaf
    <2>1. d \in Nat
        BY <1>1, <1>2
    <2> HIDE DEF d
    <2> DEFINE k == d \div ChunkBytes
               s == d % ChunkBytes
    <2>2. /\ k \in Nat /\ s \in 0..(ChunkBytes - 1)
          /\ d = ChunkBytes * k + s
        BY <1>1, <2>1, DivMod
    <2>3. k = q
        BY DEF d
    <2> HIDE DEF k, s, q
    <2>4. /\ ChunkBytes * k \in Nat /\ ChunkBytes * k = k * ChunkBytes
        BY <1>1, <2>2
    <2> DEFINE c == k * ChunkBytes
    <2>5. c \in Nat /\ d = c + s
        BY <2>2, <2>4
    <2> HIDE DEF c
    <2>6. c <= d /\ d < c + ChunkBytes
        BY <1>1, <2>2, <2>5
    <2> QED BY <2>2, <2>3, <2>5, <2>6 DEF c, d
<1> HIDE DEF q
<1>4. /\ offset \in Nat /\ offset <= o /\ o < offset + ChunkBytes
      /\ end \in Nat /\ o < end
    BY <1>1, <1>2, <1>3
<1>5. ChunkOf(o, padded) = [offset |-> offset, count |-> count]
    BY DEF ChunkOf, leaf, q
<1> HIDE DEF offset, end
<1>6. count \in Nat /\ o < offset + count
    BY <1>1, <1>4
<1> QED BY <1>1, <1>4, <1>5, <1>6

\* What the leaves are served is the padded message, however it falls into
\* leaves and chunks.
LEMMA ReaderIsPaddedMessage ==
    ASSUME NEW message, NEW length \in Nat
    PROVE  PaddedReader(message, length) = PaddedMessage(message, length)
<1> DEFINE padded == PaddedLength(length)
           Served(o) == LET chunk == ChunkOf(o, padded) IN
                        PaddedRead(message, length, chunk.offset, chunk.count)[o]
<1>1. padded \in Nat
    BY PaddingAssumption DEF PaddedLength, Overhead
<1>2. ASSUME NEW o \in 0..(padded - 1)
      PROVE  Served(o) = PaddedByte(message, length, o)
    BY <1>1, ChunkHolds, ChunkIsPadded
<1>3. PaddedReader(message, length) = [o \in 0..(padded - 1) |-> Served(o)]
    BY DEF PaddedReader
<1>4. PaddedMessage(message, length) =
          [o \in 0..(padded - 1) |-> PaddedByte(message, length, o)]
    BY DEF PaddedMessage
<1> QED BY <1>2, <1>3, <1>4, Zenon

\* The range the call passes on is one fch_process_reader accepts.
LEMMA PaddedAccepted ==
    ASSUME NEW n \in Nat, LengthSupported(n)
    PROVE  /\ PaddedLength(n) \in Nat \ {0}
           /\ PaddedLength(n) <= SizeMax
           /\ RangeAccepted(0, PaddedLength(n))
<1>1. PaddedLength(n) \in Nat /\ PaddedLength(n) <= SizeMax
    BY SupportedFits
<1>2. PaddedLength(n) # 0
    BY PaddingAssumption DEF PaddedLength, Overhead
<1> QED BY <1>1, <1>2, RangeFromZero

\* The arguments of a call that is being processed.
LEMMA CallNumbers ==
    ASSUME OneShotIInv
    PROVE  /\ call.length \in Nat
           /\ call.outputGiven \in BOOLEAN /\ call.inputGiven \in BOOLEAN
           /\ call.memory \in BOOLEAN
           /\ stage = "processing" =>
                  /\ input = call.input
                  /\ RequestOK
                  /\ request.offset = 0 /\ request.length = Padded
                  /\ request.memory = call.memory
                  /\ RangeAccepted(0, Padded)
                  /\ Padded \in Nat /\ Padded <= SizeMax
<1>1. /\ call.length \in Nat
      /\ call.outputGiven \in BOOLEAN /\ call.inputGiven \in BOOLEAN
      /\ call.memory \in BOOLEAN
    BY CallAssumption, SizeMaxLarge DEF OneShotIInv
<1>2. ASSUME stage = "processing"
      PROVE  /\ input = call.input
             /\ request.offset = 0 /\ request.length = Padded
             /\ request.memory = call.memory
             /\ RangeAccepted(0, Padded)
             /\ Padded \in Nat /\ Padded <= SizeMax
    <2>1. /\ input = call.input /\ LengthSupported(call.length)
          /\ request = [offset |-> 0, length |-> Padded, memory |-> call.memory]
        BY <1>2 DEF OneShotIInv, ArgumentsAccepted, Running
    <2> QED BY <1>1, <2>1, PaddedAccepted DEF Padded
<1> QED BY <1>1, <1>2 DEF RequestOK

\* A call that returns early.
LEMMA EarlyReturns ==
    ASSUME OneShotIInv, NoOutput \/ RejectArguments
    PROVE  OneShotIInv'
<1>1. /\ call \in Calls /\ call' = call
      /\ call.length \in Nat
      /\ call.outputGiven \in BOOLEAN /\ call.inputGiven \in BOOLEAN
      /\ call.memory \in BOOLEAN
      /\ input = call.input /\ heap = FALSE /\ heap' = heap
      /\ stage' = "returned" /\ ok' = FALSE
    BY CallNumbers DEF OneShotIInv, NoOutput, RejectArguments, Answer, processVars
<1>2. /\ out' = IF call.outputGiven THEN Zeroed ELSE Untouched
      /\ ~(/\ call.outputGiven
           /\ call.inputGiven \/ call.length = 0
           /\ Hashable(call.length)
           /\ call.memory)
    <2>1. LengthSupported(call.length) <=> Hashable(call.length)
        BY <1>1, SupportsHashable
    <2> QED BY <2>1 DEF NoOutput, RejectArguments, ArgumentsAccepted, Answer
<1>3. input' = [o \in DOMAIN input |->
                   IF out' # Untouched /\ o \in call.overlap
                   THEN Clobber ELSE input[o]]
    BY DEF NoOutput, RejectArguments, Answer
<1>4. LeavesNothingBehind'
    BY <1>1, <1>3 DEF LeavesNothingBehind
<1>5. FailsExactlyForCause'
    BY <1>1, <1>2 DEF FailsExactlyForCause
<1> QED BY <1>1, <1>4, <1>5 DEF OneShotIInv, DigestOfOriginal

LEMMA StartKeeps ==
    ASSUME OneShotIInv, StartProcess
    PROVE  OneShotIInv'
<1>1. /\ call \in Calls /\ call' = call
      /\ input = call.input /\ input' = input
      /\ out = Untouched /\ out' = out
      /\ root = EmptySlot /\ root' = root
      /\ heap = FALSE /\ heap' = heap
      /\ stage' = "processing" /\ pc' = "called"
      /\ call.outputGiven /\ ArgumentsAccepted
      /\ request' = [offset |-> 0, length |-> Padded, memory |-> call.memory]
    BY DEF OneShotIInv, StartProcess, Padded
<1>2. ArgumentsAccepted' /\ Padded' = Padded
    BY <1>1 DEF ArgumentsAccepted, Padded
<1> QED BY <1>1, <1>2 DEF OneShotIInv, Running

\* A step of fch_process_reader: the reader serves every byte of the range,
\* so only want of memory makes it fail.
LEMMA ProcessStepKeeps ==
    ASSUME OneShotIInv, Process
    PROVE  OneShotIInv'
<1>1. /\ stage = "processing" /\ Running
      /\ call \in Calls /\ call.outputGiven /\ ArgumentsAccepted
      /\ call' = call /\ input' = input /\ out' = out /\ stage' = stage
    BY DEF OneShotIInv, Process, oneShotVars
<1>2. /\ call.length \in Nat /\ call.memory \in BOOLEAN
      /\ input = call.input /\ out = Untouched
      /\ RequestOK
      /\ request.offset = 0 /\ request.length = Padded
      /\ request.memory = call.memory
      /\ RangeAccepted(0, Padded)
      /\ Padded \in Nat /\ Padded <= SizeMax
    BY <1>1, CallNumbers DEF OneShotIInv
<1>3. ArgumentsAccepted' /\ Padded' = Padded /\ Whole' = Whole
    BY <1>1 DEF ArgumentsAccepted, Padded, Whole
<1>4. PICK w : w = Whole
    OBVIOUS
<1>5. InLoop(w)' => InLoop(Whole)'
    BY <1>3, <1>4 DEF InLoop
<1>6. pc = "leaves" => call.memory /\ InLoop(w)
    BY <1>1, <1>4 DEF Running, InLoop
<1>7. request' = request /\ Running'
    <2>1. CASE Refuse
        <3>1. /\ request' = request
              /\ pc' = "returned" /\ root' = EmptySlot /\ heap' = FALSE
              /\ ~call.memory
            BY <1>2, <2>1, RefusedForCause
        <3> QED BY <1>1, <1>3, <3>1 DEF Running
    <2>2. CASE Begin
        <3>1. root = EmptySlot
            BY <1>1, <2>2 DEF Running, Begin
        <3>2. /\ request' = request /\ request.memory /\ pc' = "leaves"
              /\ InLoop(w)'
            BY <1>2, <2>2, <3>1, BeginsLoop
        <3> QED BY <1>1, <1>2, <1>3, <1>5, <3>2 DEF Running
    <2>3. CASE PushNextLeaf(PaddedReader(input, call.length))
        <3>1. PICK r : r = PaddedReader(input, call.length)
            OBVIOUS
        <3>2. r = w
            BY <1>2, <1>4, <3>1, ReaderIsPaddedMessage DEF Whole
        <3>3. DOMAIN r = 0..(Padded - 1)
            BY <3>1 DEF PaddedReader, Padded
        <3>4. Serves(r, w)
            BY <3>2 DEF Serves
        <3>5. ~Unserved(r)
            BY <1>2, <3>3 DEF Unserved
        <3>6. PushNextLeaf(r)
            BY <2>3, <3>1 DEF PushNextLeaf
        <3>7. call.memory /\ InLoop(w)
            BY <1>6, <3>6 DEF PushNextLeaf
        <3>8. request' = request /\ pc' = "leaves" /\ InLoop(w)'
            BY <1>2, <3>4, <3>5, <3>6, <3>7, LeafPushed
        <3> QED BY <1>1, <1>3, <1>5, <3>7, <3>8 DEF Running
    <2>4. CASE FoldRoot
        <3>1. call.memory /\ InLoop(w)
            BY <1>6, <2>4 DEF FoldRoot
        <3>2. /\ request' = request
              /\ pc' = "returned"
              /\ root' = TreeNode(w, request.offset, request.length)
              /\ root'.occupied = TRUE
              /\ heap' = TRUE
            BY <1>2, <2>4, <3>1, RootFolded
        <3>3. root' = TreeNode(Whole, 0, Padded)
            BY <1>2, <1>4, <3>2
        <3> QED BY <1>1, <1>3, <3>1, <3>2, <3>3 DEF Running
    <2> QED BY <2>1, <2>2, <2>3, <2>4 DEF Process
<1> QED BY <1>1, <1>2, <1>3, <1>7 DEF OneShotIInv

\* The digest is written from the root of the whole padded message, which
\* fch_mix_finalize_output accepts, or zeroes for want of memory.
LEMMA FinishKeeps ==
    ASSUME OneShotIInv, Finish
    PROVE  OneShotIInv'
<1> DEFINE done  == root.occupied /\ FinalizeAccepted(root, call.length, Padded)
           value == IF done
                    THEN Written(Finalize(call.variant, root, call.length, Padded))
                    ELSE Zeroed
<1>1. /\ stage = "processing" /\ pc = "returned" /\ Running
      /\ call \in Calls /\ call.outputGiven /\ ArgumentsAccepted
      /\ call' = call /\ heap' = FALSE /\ stage' = "returned"
      /\ ok' = done /\ out' = value
      /\ input' = [o \in DOMAIN input |->
                       IF value # Untouched /\ o \in call.overlap
                       THEN Clobber ELSE input[o]]
    BY DEF OneShotIInv, Finish, Answer, Padded
<1>2. /\ call.length \in Nat /\ call.memory \in BOOLEAN
      /\ call.inputGiven \in BOOLEAN
      /\ input = call.input
      /\ RangeAccepted(0, Padded)
      /\ Padded \in Nat /\ Padded <= SizeMax
    BY <1>1, CallNumbers
<1>3. Hashable(call.length)
    BY <1>1, <1>2, SupportsHashable DEF ArgumentsAccepted
<1>4. done = call.memory
    <2>1. CASE ~call.memory
        <3>1. root = EmptySlot
            BY <1>1, <2>1 DEF Running
        <3> QED BY <1>2, <2>1, <3>1 DEF EmptySlot
    <2>2. CASE call.memory
        <3>1. root = TreeNode(Whole, 0, Padded) /\ root.occupied = TRUE
            BY <1>1, <2>2 DEF Running
        <3>2. <<0, Padded>> \in Ranges
            BY <1>2, SizeMaxLarge DEF Ranges
        <3>3. root.tree = PositionOf(0, Padded)
            BY <3>1, <3>2, NodePlace DEF TreeNode
        <3>4. FinalizeAccepted(root, call.length, Padded)
            BY <1>1, <3>3 DEF FinalizeAccepted, ArgumentsAccepted, LengthSupported,
                              Padded
        <3> QED BY <1>2, <2>2, <3>1, <3>4
    <2> QED BY <1>2, <2>1, <2>2
<1>5. done => value = Written(ReferenceDigest(call.variant, call.input,
                                              call.length))
    <2> SUFFICES ASSUME done
                 PROVE  Finalize(call.variant, root, call.length, Padded)
                            = ReferenceDigest(call.variant, call.input, call.length)
        OBVIOUS
    <2>1. root = TreeNode(Whole, 0, Padded)
        BY <1>1, <1>4 DEF Running
    <2> QED BY <2>1 DEF ReferenceDigest, Whole, Padded
<1>6. ~done => value = Zeroed
    OBVIOUS
<1> HIDE DEF done, value
<1>7. DigestOfOriginal'
    BY <1>1, <1>5 DEF DigestOfOriginal
<1>8. FailsExactlyForCause'
    BY <1>1, <1>2, <1>3, <1>4, <1>6 DEF FailsExactlyForCause, ArgumentsAccepted
<1>9. LeavesNothingBehind'
    BY <1>1, <1>2 DEF LeavesNothingBehind
<1> QED BY <1>1, <1>7, <1>8, <1>9 DEF OneShotIInv

LEMMA OneShotKeeps ==
    ASSUME OneShotIInv, [OneShotNext]_hashVars
    PROVE  OneShotIInv'
<1>1. CASE NoOutput \/ RejectArguments
    BY <1>1, EarlyReturns
<1>2. CASE StartProcess
    BY <1>2, StartKeeps
<1>3. CASE Process
    BY <1>3, ProcessStepKeeps
<1>4. CASE Finish
    BY <1>4, FinishKeeps
<1>5. CASE UNCHANGED hashVars
    BY <1>5 DEF hashVars, oneShotVars, processVars, OneShotIInv, Running, InLoop,
                LeafTotal, Padded, Whole, ArgumentsAccepted, DigestOfOriginal,
                FailsExactlyForCause, LeavesNothingBehind
<1>6. CASE Finished
    BY <1>5, <1>6 DEF Finished
<1> QED BY <1>1, <1>2, <1>3, <1>4, <1>5, <1>6 DEF OneShotNext

LEMMA OneShotInvariant == OneShotSpec => []OneShotIInv
<1>1. OneShotInit => OneShotIInv
    BY DEF OneShotInit, Idle, OneShotIInv
<1>2. OneShotIInv /\ [OneShotNext]_hashVars => OneShotIInv'
    BY OneShotKeeps
<1> QED BY <1>1, <1>2, PTL DEF OneShotSpec

-----------------------------------------------------------------------------

\* fch_hash_256_checked and fch_hash_512_checked return 1 only with the
\* reference digest of the message as it was when they were called.
THEOREM OneShotDigest == OneShotSpec => []DigestOfOriginal
<1>1. OneShotIInv => DigestOfOriginal
    BY DEF OneShotIInv, DigestOfOriginal
<1> QED BY <1>1, OneShotInvariant, PTL

\* They return 0 exactly for a NULL pointer, a length the format does not
\* define a digest for, or want of memory, and leave zeroes in the output.
THEOREM OneShotFailures == OneShotSpec => []FailsExactlyForCause
<1>1. OneShotIInv => FailsExactlyForCause
    BY DEF OneShotIInv, FailsExactlyForCause
<1> QED BY <1>1, OneShotInvariant, PTL

\* They free the root's state on every path, and write nothing outside the
\* output buffer and nothing before they return.
THEOREM OneShotLeavesNothing == OneShotSpec => []LeavesNothingBehind
<1>1. OneShotIInv => LeavesNothingBehind
    BY DEF OneShotIInv, LeavesNothingBehind
<1> QED BY <1>1, OneShotInvariant, PTL

-----------------------------------------------------------------------------
(* The attack screens: how they follow each other *)

\* How many steps the report line of the screen in hand speaks of.
StepsAsked ==
    CASE Screens[screen] = "multicollision" -> CollisionSamples
      [] Screens[screen] = "tree_shape" -> 12
      [] Screens[screen] = "canonical_partition" -> 3 * LeafCounts
      [] Screens[screen] = "subtree_replacement" -> 11
      [] Screens[screen] = "second_preimage" -> PreimageSamples
      [] Screens[screen] = "long_message" -> LongVariants
      [] Screens[screen] = "expandable_message" -> ExpandablePairs
      [] Screens[screen] = "herding" -> CollisionSamples
      [] Screens[screen] = "multi_target" -> TargetSamples
      [] Screens[screen] = "variant_reuse" -> ReuseSamples

\* What PassCoversReport asks of a step.
Reports ==
    /\ (screen' # screen /\ failed' = failed) =>
              step = CASE Screens[screen] = "multicollision" -> CollisionSamples
                       [] Screens[screen] = "tree_shape" -> 12
                       [] Screens[screen] = "canonical_partition" ->
                              3 * LeafCounts
                       [] Screens[screen] = "subtree_replacement" -> 11
                       [] Screens[screen] = "second_preimage" ->
                              PreimageSamples
                       [] Screens[screen] = "long_message" -> LongVariants
                       [] Screens[screen] = "expandable_message" ->
                              ExpandablePairs
                       [] Screens[screen] = "herding" -> CollisionSamples
                       [] Screens[screen] = "multi_target" -> TargetSamples
                       [] Screens[screen] = "variant_reuse" -> ReuseSamples
    /\ phase' = "exited" => (exit_code' = 0 <=> failed' = {})

\* The names of the screens.
ScreenNames ==
    {"multicollision", "tree_shape", "canonical_partition",
     "subtree_replacement", "second_preimage", "long_message",
     "expandable_message", "herding", "multi_target", "variant_reuse"}

\* Every screen has one place.
LEMMA ScreenPlaces ==
    /\ DOMAIN Screens = 1..10 /\ Len(Screens) = 10
    /\ \A i, j \in 1..10 : Screens[i] = Screens[j] => i = j
BY DEF Screens

\* A place in the program is a number and a phase.
LEMMA AtScreen ==
    ASSUME NEW at
    PROVE  /\ In("multicollision", at) <=> screen = 1 /\ phase = at
           /\ In("tree_shape", at) <=> screen = 2 /\ phase = at
           /\ In("canonical_partition", at) <=> screen = 3 /\ phase = at
           /\ In("subtree_replacement", at) <=> screen = 4 /\ phase = at
           /\ In("second_preimage", at) <=> screen = 5 /\ phase = at
           /\ In("long_message", at) <=> screen = 6 /\ phase = at
           /\ In("expandable_message", at) <=> screen = 7 /\ phase = at
           /\ In("herding", at) <=> screen = 8 /\ phase = at
           /\ In("multi_target", at) <=> screen = 9 /\ phase = at
           /\ In("variant_reuse", at) <=> screen = 10 /\ phase = at
<1>1. /\ Screens[1] = "multicollision" /\ Screens[2] = "tree_shape"
      /\ Screens[3] = "canonical_partition"
      /\ Screens[4] = "subtree_replacement"
      /\ Screens[5] = "second_preimage" /\ Screens[6] = "long_message"
      /\ Screens[7] = "expandable_message" /\ Screens[8] = "herding"
      /\ Screens[9] = "multi_target" /\ Screens[10] = "variant_reuse"
    BY DEF Screens
<1>2. \A i \in 1..10, name \in ScreenNames :
          Screens[i] = name => (In(name, at) <=> screen = i /\ phase = at)
    BY ScreenPlaces DEF In
<1> QED BY <1>1, <1>2 DEF ScreenNames

\* The steps of each screen, by its number.
LEMMA AskedSteps ==
    /\ screen = 1 => StepsAsked = CollisionSamples
    /\ screen = 2 => StepsAsked = 12
    /\ screen = 3 => StepsAsked = 3 * LeafCounts
    /\ screen = 4 => StepsAsked = 11
    /\ screen = 5 => StepsAsked = PreimageSamples
    /\ screen = 6 => StepsAsked = LongVariants
    /\ screen = 7 => StepsAsked = ExpandablePairs
    /\ screen = 8 => StepsAsked = CollisionSamples
    /\ screen = 9 => StepsAsked = TargetSamples
    /\ screen = 10 => StepsAsked = ReuseSamples
<1>1. CASE screen = 1 BY <1>1 DEF StepsAsked, Screens
<1>2. CASE screen = 2 BY <1>2 DEF StepsAsked, Screens
<1>3. CASE screen = 3 BY <1>3 DEF StepsAsked, Screens
<1>4. CASE screen = 4 BY <1>4 DEF StepsAsked, Screens
<1>5. CASE screen = 5 BY <1>5 DEF StepsAsked, Screens
<1>6. CASE screen = 6 BY <1>6 DEF StepsAsked, Screens
<1>7. CASE screen = 7 BY <1>7 DEF StepsAsked, Screens
<1>8. CASE screen = 8 BY <1>8 DEF StepsAsked, Screens
<1>9. CASE screen = 9 BY <1>9 DEF StepsAsked, Screens
<1>10. CASE screen = 10 BY <1>10 DEF StepsAsked, Screens
<1> QED BY <1>1, <1>2, <1>3, <1>4, <1>5, <1>6, <1>7, <1>8, <1>9, <1>10

\* The loop of the k-th screen.
OfScreen(k) == screen = k /\ phase = "running"

\* tree_shape: five calls are accepted, one is a graft, and six are refused.
ShapeSoFar ==
    OfScreen(2) =>
        /\ step \in 0..12
        /\ accepted = (IF step < 6 THEN 0 ELSE 1)
        /\ rejected = (IF step < 6 THEN 0 ELSE step - 6)

\* subtree_replacement: eight calls are refused, and three are grafts.
ReplacementSoFar ==
    OfScreen(4) =>
        /\ step \in 0..11
        /\ rejected = (IF step < 8 THEN step ELSE 8)
        /\ accepted = (IF step < 8 THEN 0 ELSE step - 8)

\* canonical_partition: one partition of every length and offset is accepted,
\* and the boundary in hand is not the canonical one.
PartitionSoFar ==
    OfScreen(3) =>
        /\ step \in 0..(3 * LeafCounts)
        /\ step = 3 * LeafCounts => sub = 0
        /\ step < 3 * LeafCounts => sub \in 0..(PartitionLeaves - 1)
        /\ sub > 0 => sub # CanonicalLeft(PartitionLeaves, PartitionOffset)
        /\ accepted = step + (IF sub = 0 THEN 0 ELSE 1)
        /\ rejected \in Nat /\ rejected = expected_rejected

\* multicollision: the statistics come after all the samples.
CollisionsSoFar ==
    /\ OfScreen(1) => step \in Nat /\ step < CollisionSamples
    /\ screen = 1 /\ phase \in {"statistics", "compared", "verdict"} =>
           step = CollisionSamples

\* Every message of the herd is its prefix before the common suffix.
HerdingSoFar ==
    screen = 8 /\ phase \in {"running", "compared", "verdict"} =>
        /\ step \in 0..CollisionSamples
        /\ phase # "running" => step = CollisionSamples
        /\ recorded \in Seq({HerdingMessage(prefix) : prefix \in 0..CollisionSamples})
        /\ Len(recorded) = step
        /\ \A i \in 1..step : recorded[i] = HerdingMessage(i - 1)

\* second_preimage: no candidate so far was the target.
PreimageSoFar ==
    OfScreen(5) =>
        /\ step \in 0..PreimageSamples
        /\ matches = 0
        /\ step > 0 =>
               /\ ~Same(second, first)
               /\ DOMAIN second.chunks = DOMAIN first
               /\ second.flips \subseteq 0..(PreimageChunks * ChunkLength - 1)

\* multi_target: no candidate so far was a target.
TargetsSoFar ==
    OfScreen(9) =>
        /\ step \in 0..TargetSamples
        /\ matches = 0
        /\ step > 0 =>
               /\ \A t \in AllTargets : ~Same(second, t)
               /\ DOMAIN second.chunks = DOMAIN first
               /\ second.flips \subseteq 0..(TargetChunks * ChunkLength - 1)

\* The message the v-th long variant hashes, whatever the work buffer held.
LongSays(v) == Message(LongVariant(v, Nothing))

\* long_message: what was hashed so far, and how deep it was.
LongSoFar ==
    OfScreen(6) =>
        /\ step \in 0..LongVariants
        /\ DOMAIN second \subseteq 0..(WorkLength - 1)
        /\ recorded \in Seq({LongSays(v) : v \in 1..LongVariants})
        /\ Len(recorded) = step
        /\ \A i \in 1..step : recorded[i] = LongSays(i)
        /\ maximum_depth = (IF step = 0 THEN 0 ELSE LongDepth)

\* expandable_message: the long message is the short one with leaves put in.
ExpandableSoFar ==
    OfScreen(7) =>
        /\ step \in 0..ExpandablePairs
        /\ matches = 0
        /\ step = 0 => first = Nothing /\ second = Nothing
        /\ DOMAIN first \cup DOMAIN second \subseteq 0..(ExpandableCapacity - 1)
        /\ step > 0 =>
               \E inserted \in 1..MaxExtraLeaves :
                  \A p \in 0..SuffixLeaves :
                      first[p] = second[IF p = 0 THEN 0 ELSE p + inserted]

\* variant_reuse: every sample so far gave the same root to both variants.
ReuseSoFar ==
    OfScreen(10) =>
        /\ step \in 0..ReuseSamples
        /\ accepted = step
        /\ sub \in 0..ReuseMaxLength

\* A screen starts from nothing, and only misfortune has made one fail.
ScreensSoFar ==
    /\ screen \in 1..11
    /\ phase = "exited" => screen = 11
    /\ phase = "entered" =>
           /\ step = 0 /\ sub = 0 /\ accepted = 0 /\ rejected = 0
           /\ expected_rejected = 0 /\ matches = 0 /\ first = Nothing
           /\ second = Nothing /\ recorded = Nothing /\ maximum_depth = 0
    /\ \A f \in failed :
           /\ f.cause # "structure"
           /\ \E i \in 1..10 : i < screen /\ f.screen = Screens[i]

\* The inductive invariant.
AttackIInv ==
    /\ ScreensSoFar
    /\ CollisionsSoFar /\ ShapeSoFar /\ PartitionSoFar /\ ReplacementSoFar
    /\ PreimageSoFar /\ LongSoFar /\ ExpandableSoFar /\ HerdingSoFar
    /\ TargetsSoFar /\ ReuseSoFar

\* What a step keeps, and what it reports.
AttackStep == AttackIInv' /\ Reports

\* The program starts in a state of the inductive invariant.
LEMMA AttackStarts == Init => AttackIInv
BY DEF Init, AttackIInv, ScreensSoFar, CollisionsSoFar, ShapeSoFar, PartitionSoFar,
       ReplacementSoFar, PreimageSoFar, LongSoFar, ExpandableSoFar,
       HerdingSoFar, TargetsSoFar, ReuseSoFar, OfScreen

\* A screen that returns, for misfortune or after all its steps.
LEMMA ReturnGoesOn ==
    ASSUME AttackIInv, screen \in 1..10,
           NEW causes \in SUBSET {"memory", "statistics"}, Return(causes),
           causes = {} => step = StepsAsked
    PROVE  AttackStep
<1>1. /\ screen' = screen + 1
      /\ phase' \in {"entered", "exited"}
      /\ phase' = "exited" => screen = 10 /\ exit_code' = ExitCode(failed')
      /\ failed' = failed \cup {[screen |-> Screens[screen], cause |-> c] :
                                    c \in causes}
    BY ScreenPlaces DEF Return
<1>2. /\ step' = 0 /\ sub' = 0 /\ accepted' = 0 /\ rejected' = 0
      /\ expected_rejected' = 0 /\ matches' = 0 /\ first' = Nothing
      /\ second' = Nothing /\ recorded' = Nothing /\ maximum_depth' = 0
    BY DEF Return, FreshWork
<1>3. ASSUME NEW f \in failed'
      PROVE  /\ f.cause # "structure"
             /\ \E i \in 1..10 : i < screen' /\ f.screen = Screens[i]
    <2>1. CASE f \in failed
        BY <1>1, <2>1 DEF AttackIInv, ScreensSoFar
    <2>2. CASE f \notin failed
        <3>1. PICK c \in causes : f = [screen |-> Screens[screen], cause |-> c]
            BY <1>1, <2>2
        <3>2. f.cause = c /\ c \in {"memory", "statistics"} /\ f.screen = Screens[screen]
            BY <3>1
        <3>3. screen < screen'
            BY <1>1
        <3> QED BY <3>2, <3>3
    <2> QED BY <2>1, <2>2
<1>4. ScreensSoFar'
    <2>1. screen' \in 1..11
        BY <1>1
    <2>2. phase' = "exited" => screen' = 11
        BY <1>1
    <2> QED BY <1>2, <1>3, <2>1, <2>2 DEF ScreensSoFar
<1>5. AttackIInv'
    BY <1>1, <1>4 DEF AttackIInv, CollisionsSoFar, ShapeSoFar, PartitionSoFar,
       ReplacementSoFar, PreimageSoFar, LongSoFar, ExpandableSoFar,
       HerdingSoFar, TargetsSoFar, ReuseSoFar, OfScreen
<1>6. failed' = failed => step = StepsAsked
    <2>1. ASSUME NEW c \in causes, failed' = failed PROVE FALSE
        <3> DEFINE f == [screen |-> Screens[screen], cause |-> c]
        <3>1. f \in failed
            BY <1>1, <2>1
        <3>2. PICK i \in 1..10 : i < screen /\ f.screen = Screens[i]
            BY <3>1 DEF AttackIInv, ScreensSoFar
        <3>3. Screens[screen] = Screens[i]
            BY <3>2
        <3>4. screen = i
            BY <3>3, ScreenPlaces
        <3> QED BY <3>2, <3>4
    <2> QED BY <2>1
<1>7. phase' = "exited" => (exit_code' = 0 <=> failed' = {})
    BY <1>1 DEF ExitCode
<1> QED BY <1>5, <1>6, <1>7 DEF AttackStep, Reports, StepsAsked

\* A step inside a screen.
LEMMA StaysIn ==
    ASSUME AttackIInv, screen \in 1..10, screen' = screen, failed' = failed,
           phase' \in {"running", "statistics", "compared", "verdict"}
    PROVE  ScreensSoFar' /\ Reports
<1>1. ScreensSoFar'
    BY DEF AttackIInv, ScreensSoFar
<1>2. Reports
    BY DEF Reports
<1> QED BY <1>1, <1>2

\* Want of memory.
LEMMA OutOfMemoryGoesOn ==
    ASSUME AttackIInv, screen \in 1..10, OutOfMemory
    PROVE  AttackStep
<1>1. Return({"memory"})
    BY DEF OutOfMemory
<1>2. {"memory"} \in SUBSET {"memory", "statistics"} /\ {"memory"} # {}
    OBVIOUS
<1> QED BY <1>1, <1>2, ReturnGoesOn

\* The verdict of a screen that has tried everything and saw nothing odd.
LEMMA JudgeGoesOn ==
    ASSUME AttackIInv, screen \in 1..10, NEW sound, sound = TRUE, NEW near,
           Judge(sound, near), step = StepsAsked
    PROVE  AttackStep
<1>1. CASE Return({"statistics"})
    <2>1. {"statistics"} \in SUBSET {"memory", "statistics"}
          /\ {"statistics"} # {}
        OBVIOUS
    <2> QED BY <1>1, <2>1, ReturnGoesOn
<1>2. CASE Return({})
    BY <1>2, ReturnGoesOn
<1>3. Return({"statistics"}) \/ Return({})
    BY DEF Judge, Pass
<1> QED BY <1>1, <1>2, <1>3

-----------------------------------------------------------------------------
(* The nodes the screens make *)

\* The node stands over the leaves from `from` on, so many of them.
StandsAt(node, from, count) ==
    node.occupied = TRUE /\ node.tree = PositionOf(Leaves(from), Leaves(count))

\* Whole leaves divide by the size of a leaf.
LEMMA LeavesDivided ==
    ASSUME NEW n \in Nat
    PROVE  /\ Leaves(n) \in Nat
           /\ Leaves(n) \div LeafBytes = n
           /\ Leaves(n) % LeafBytes = 0
<1>1. LeafBytes \in Nat \ {0}
    BY ScheduleAssumption
<1>2. 0 \in 0..(LeafBytes - 1) /\ n * LeafBytes + 0 = n * LeafBytes
      /\ n * LeafBytes \in Nat
    BY <1>1
<1> QED BY <1>1, <1>2, DivModUnique DEF Leaves

\* A range of whole leaves that ends within size_t.
LEMMA WholeRange ==
    ASSUME NEW from \in Nat, NEW count \in Nat \ {0},
           Leaves(from + count) <= SizeMax
    PROVE  /\ Leaves(from) \in Nat /\ Leaves(count) \in Nat \ {0}
           /\ Leaves(from) + Leaves(count) = Leaves(from + count)
           /\ LeafCount(Leaves(count)) = count
           /\ Leaves(from) \div LeafBytes = from
           /\ RangeAccepted(Leaves(from), Leaves(count))
<1>1. LeafBytes \in Nat \ {0} /\ SizeMax \in Nat
    BY ScheduleAssumption, SizeMaxLarge
<1>2. /\ Leaves(from) \in Nat
      /\ Leaves(count) \in Nat \ {0}
      /\ LeafCount(Leaves(count)) = count
    BY <1>1, LeavesOfWhole DEF Leaves
<1>3. Leaves(from) + Leaves(count) = Leaves(from + count)
    BY <1>1 DEF Leaves
<1>4. Leaves(from) \div LeafBytes = from /\ Leaves(from) % LeafBytes = 0
    BY LeavesDivided
<1>5. from + count <= SizeMax
    <2>1. from + count \in Nat \ {0}
        OBVIOUS
    <2>2. (from + count) * 1 <= (from + count) * LeafBytes
        BY <2>1, <1>1, TimesMonotone
    <2> QED BY <2>1, <2>2, <1>1 DEF Leaves
<1> QED BY <1>1, <1>2, <1>3, <1>4, <1>5, AcceptsInside

\* Where two blocks one behind the other end.
LEMMA EndsOfTwo ==
    ASSUME NEW a \in Nat, NEW b \in Nat
    PROVE  /\ Ends(<<a, b>>)[0] = 0
           /\ Ends(<<a, b>>)[1] = a
           /\ Ends(<<a, b>>)[2] = a + b
<1> DEFINE lengths == <<a, b>>
           Eqn(e) == e = [i \in 0..Len(lengths) |->
                             IF i = 0 THEN 0 ELSE e[i - 1] + lengths[i]]
           ends == [i \in 0..2 |-> IF i = 0 THEN 0 ELSE IF i = 1 THEN a
                                   ELSE a + b]
<1>1. Eqn(ends)
    <2>1. Len(lengths) = 2 /\ lengths[1] = a /\ lengths[2] = b
        OBVIOUS
    <2> HIDE DEF lengths
    <2>2. ASSUME NEW i \in 0..2
          PROVE  ends[i] = IF i = 0 THEN 0 ELSE ends[i - 1] + lengths[i]
        <3>1. i = 0 \/ i = 1 \/ i = 2
            OBVIOUS
        <3> QED BY <2>1, <3>1
    <2> QED BY <2>1, <2>2
<1>2. Eqn(CHOOSE e : Eqn(e))
    <2> HIDE DEF Eqn
    <2> QED BY <1>1
<1>3. Eqn(Ends(lengths))
    <2>1. Ends(lengths) = CHOOSE e : Eqn(e)
        BY DEF Ends
    <2> QED BY <1>2, <2>1
<1>4. Len(lengths) = 2 /\ lengths[1] = a /\ lengths[2] = b
    OBVIOUS
<1> HIDE DEF lengths
<1>5. \A i \in 0..2 : Ends(lengths)[i] =
                          IF i = 0 THEN 0 ELSE Ends(lengths)[i - 1] + lengths[i]
    BY <1>3, <1>4
<1>6. /\ Ends(lengths)[0] = 0
      /\ Ends(lengths)[1] = Ends(lengths)[0] + a
      /\ Ends(lengths)[2] = Ends(lengths)[1] + b
    BY <1>4, <1>5
<1> QED BY <1>6 DEF lengths

\* The blocks of two children.
LEMMA BlocksOfTwo ==
    ASSUME NEW a \in Nat, NEW b \in Nat
    PROVE  BlocksOf(<<a, b>>) = << [offset |-> 0, length |-> a],
                                   [offset |-> a, length |-> b] >>
<1>1. Ends(<<a, b>>)[0] = 0 /\ Ends(<<a, b>>)[1] = a
    BY EndsOfTwo
<1>2. BlocksOf(<<a, b>>) =
          [i \in 1..2 |-> [offset |-> Ends(<<a, b>>)[i - 1],
                           length |-> <<a, b>>[i]]]
    BY DEF BlocksOf
<1> DEFINE e == Ends(<<a, b>>)
<1> HIDE DEF e
<1>3. [i \in 1..2 |-> [offset |-> e[i - 1], length |-> <<a, b>>[i]]]
          = << [offset |-> e[0], length |-> a], [offset |-> e[1], length |-> b] >>
    OBVIOUS
<1> QED BY <1>1, <1>2, <1>3 DEF e

\* combine_state looks at the positions of its children only.
LEMMA TakesByPlace ==
    ASSUME NEW left, NEW right, NEW blocks, NEW total,
           left.occupied = TRUE, right.occupied = TRUE
    PROVE  Takes(<<left, right>>, blocks, total)
               <=> CombineAccepted(left, right, blocks, total)
BY DEF Takes, Arity

\* A full subtree and its right neighbour, no larger, are taken.
LEMMA SiblingsTaken ==
    ASSUME NEW from \in Nat, NEW k \in 0..WorkspaceSlots,
           NEW count, count = Pow2[k], NEW rest \in 1..count,
           Leaves(from + (count + rest)) <= SizeMax,
           NEW left, StandsAt(left, from, count),
           NEW right, StandsAt(right, from + count, rest)
    PROVE  /\ Takes(<<left, right>>, BlocksOf(<<Leaves(count), Leaves(rest)>>),
                    Leaves(count + rest))
           /\ StandsAt(CombineState(<<left, right>>, Leaves(count + rest)),
                       from, count + rest)
<1> DEFINE one == TreeNode(left, Leaves(from), Leaves(count))
           other == TreeNode(left, Leaves(from) + Leaves(count), Leaves(rest))
<1>1. k \in Nat /\ count \in Nat \ {0} /\ rest \in Nat \ {0} /\ SizeMax \in Nat
      /\ LeafBytes \in Nat \ {0}
    BY Pow2Positive, SizeMaxLarge, ScheduleAssumption
<1>2. /\ from + count \in Nat
      /\ Leaves(from + count) \in Nat
      /\ Leaves(from + count) + Leaves(rest) = Leaves(from + (count + rest))
      /\ Leaves(from) + Leaves(count) = Leaves(from + count)
      /\ Leaves(count) + Leaves(rest) = Leaves(count + rest)
      /\ Leaves(from) \in Nat
    BY <1>1 DEF Leaves
<1>3. /\ RangeAccepted(Leaves(from), Leaves(count + rest))
      /\ Leaves(rest) \in Nat \ {0} /\ Leaves(count) \in Nat \ {0}
      /\ LeafCount(Leaves(rest)) = rest
    <2>1. count + rest \in Nat \ {0}
        BY <1>1
    <2>2. Leaves((from + count) + rest) <= SizeMax
        BY <1>1
    <2>3. Leaves(from + count) <= SizeMax
        BY <1>1, <1>2 DEF Leaves
    <2> QED BY <1>1, <1>2, <2>1, <2>2, <2>3, WholeRange
<1>4. Joins(one, other, TreeNode(left, Leaves(from), Leaves(count) + Leaves(rest)))
    <2>1. Leaves(count) = Pow2[k] * LeafBytes
        BY DEF Leaves
    <2>2. RangeAccepted(Leaves(from), Leaves(count) + Leaves(rest))
        BY <1>2, <1>3
    <2>3. LeafCount(Leaves(rest)) <= Pow2[k]
        BY <1>3
    <2> QED BY <1>1, <1>2, <1>3, <2>1, <2>2, <2>3, SiblingsCombine
<1>5. /\ <<Leaves(from), Leaves(count)>> \in Ranges
      /\ <<Leaves(from) + Leaves(count), Leaves(rest)>> \in Ranges
    BY <1>1, <1>2, <1>3 DEF Ranges
<1>6. /\ one.tree = left.tree /\ one.occupied = TRUE
      /\ other.tree = right.tree /\ other.occupied = TRUE
    BY <1>2, <1>5, NodePlace DEF StandsAt, TreeNode
<1> HIDE DEF one, other
<1>7. /\ left.tree.byte_length = Leaves(count)
      /\ right.tree.byte_length = Leaves(rest)
      /\ left.tree.byte_offset = Leaves(from)
    BY DEF StandsAt, PositionOf
<1>8. CombineAccepted(one, other, ChildBlocks(one, other), Leaves(count + rest))
    BY <1>2, <1>4, <1>6, <1>7 DEF Joins, SlotsCombine
<1>9. ChildBlocks(one, other) = BlocksOf(<<Leaves(count), Leaves(rest)>>)
    BY <1>3, <1>6, <1>7, BlocksOfTwo DEF ChildBlocks
<1>10. CombineAccepted(left, right, BlocksOf(<<Leaves(count), Leaves(rest)>>),
                       Leaves(count + rest))
    BY <1>6, <1>8, <1>9 DEF CombineAccepted
<1>11. StandsAt(CombineState(<<left, right>>, Leaves(count + rest)), from,
                count + rest)
    BY <1>7 DEF CombineState, Combine, NodeOf, StandsAt
<1> QED BY <1>10, <1>11, TakesByPlace DEF StandsAt

\* Nothing else is taken of two nodes over whole leaves.
LEMMA TakenAreSiblings ==
    ASSUME NEW from \in Nat, NEW count \in Nat \ {0},
           Leaves(from + count) <= SizeMax,
           NEW begin \in Nat, NEW rest \in Nat \ {0},
           Leaves(begin + rest) <= SizeMax,
           NEW left, StandsAt(left, from, count),
           NEW right, StandsAt(right, begin, rest),
           NEW blocks, NEW total, Takes(<<left, right>>, blocks, total)
    PROVE  /\ begin = from + count
           /\ rest <= count
           /\ \E k \in 0..WorkspaceSlots : count = Pow2[k]
           /\ blocks = BlocksOf(<<Leaves(count), Leaves(rest)>>)
           /\ total = Leaves(count) + Leaves(rest)
<1>1. CombineAccepted(left, right, blocks, total)
    BY DEF Takes
<1>2. /\ Leaves(from) \in Nat /\ Leaves(count) \in Nat \ {0}
      /\ Leaves(begin) \in Nat /\ Leaves(rest) \in Nat \ {0}
      /\ Leaves(from) + Leaves(count) = Leaves(from + count)
      /\ RangeAccepted(Leaves(from), Leaves(count))
      /\ RangeAccepted(Leaves(begin), Leaves(rest))
      /\ LeafCount(Leaves(count)) = count /\ LeafCount(Leaves(rest)) = rest
      /\ Leaves(begin) \div LeafBytes = begin
    BY WholeRange
<1>3. /\ total = Leaves(count) + Leaves(rest)
      /\ Leaves(begin) = Leaves(from) + Leaves(count)
      /\ LeafCount(Leaves(rest)) <= LeafCount(Leaves(count))
      /\ \E k \in 0..WorkspaceSlots : Leaves(count) = Pow2[k] * LeafBytes
    BY <1>1, <1>2, AcceptedAreSiblings DEF StandsAt
<1>4. begin = from + count
    <2>1. Leaves(from + count) \div LeafBytes = from + count
        BY LeavesDivided
    <2> QED BY <1>2, <1>3, <2>1
<1>5. PICK k \in 0..WorkspaceSlots : Leaves(count) = Pow2[k] * LeafBytes
    BY <1>3
<1>6. count = Pow2[k]
    BY <1>2, <1>5, LeavesOfWhole, Pow2Positive, ScheduleAssumption
<1>7. blocks = BlocksOf(<<Leaves(count), Leaves(rest)>>)
    <2>1. left.tree.byte_length = Leaves(count) /\ right.tree.byte_length = Leaves(rest)
        BY DEF StandsAt, PositionOf
    <2> QED BY <1>1, <1>2, <2>1, BlocksOfTwo DEF CombineAccepted
<1> QED BY <1>2, <1>3, <1>4, <1>6, <1>7

\* Random filling is as long as asked.
LEMMA RandomLength ==
    ASSUME NEW stream, NEW seed, NEW length \in Nat
    PROVE  Len(Random(stream, seed, length)) = length
BY DEF Random

\* An index in it does not make it longer.
LEMMA IndexedLength ==
    ASSUME NEW stream, NEW seed, NEW length \in Nat, NEW index
    PROVE  Len(Indexed(Random(stream, seed, length), index)) = length
<1>1. DOMAIN Indexed(Random(stream, seed, length), index) = 1..length
    BY DEF Random, Indexed
<1> QED BY <1>1 DEF Random, Indexed

\* A leaf made at a whole offset stands there.
LEMMA LeafStands ==
    ASSUME NEW message, Len(message) = LeafBytes, NEW i \in Nat
    PROVE  StandsAt(MakeLeaf(message, Leaves(i)), i, 1)
<1>1. Leaves(1) = LeafBytes
    BY ScheduleAssumption DEF Leaves
<1> QED BY <1>1 DEF MakeLeaf, LeafNode, NodeOf, StandsAt

\* The sizes the screens need.
LEMMA ScreensFit ==
    /\ MinLeaves \in Nat /\ MaxLeaves \in Nat
    /\ 2 <= MinLeaves /\ MinLeaves <= MaxLeaves
    /\ \A n \in 0..(MaxLeaves + 7) : Leaves(n) \in Nat /\ Leaves(n) <= SizeMax
    /\ \A n \in 0..9 : Leaves(n) \in Nat /\ Leaves(n) <= SizeMax
<1>1. /\ MinLeaves \in Nat /\ MaxLeaves \in Nat
      /\ 2 <= MinLeaves /\ MinLeaves <= MaxLeaves
      /\ Leaves(MaxLeaves + 7) <= SizeMax
    BY AttackAssumption
<1>2. LeafBytes \in Nat \ {0} /\ SizeMax \in Nat
    BY ScheduleAssumption, SizeMaxLarge
<1>3. ASSUME NEW n \in 0..(MaxLeaves + 7)
      PROVE  Leaves(n) \in Nat /\ Leaves(n) <= SizeMax
    <2>1. n \in Nat /\ MaxLeaves + 7 \in Nat /\ n <= MaxLeaves + 7
        BY <1>1
    <2>2. n * LeafBytes <= (MaxLeaves + 7) * LeafBytes
        BY <2>1, <1>2, TimesMonotone
    <2>3. n * LeafBytes \in Nat /\ (MaxLeaves + 7) * LeafBytes \in Nat
        BY <2>1, <1>2
    <2> QED BY <1>1, <1>2, <2>2, <2>3 DEF Leaves
<1>4. \A n \in 0..9 : n \in 0..(MaxLeaves + 7)
    BY <1>1
<1> QED BY <1>1, <1>3, <1>4

\* One leaf and its neighbour, and two pairs.
LEMMA PairsTaken ==
    ASSUME NEW from \in 0..6, NEW left, NEW right
    PROVE  /\ StandsAt(left, from, 1) /\ StandsAt(right, from + 1, 1) =>
                  /\ Takes(<<left, right>>, BlocksOf(<<Leaves(1), Leaves(1)>>),
                           Leaves(2))
                  /\ StandsAt(CombineState(<<left, right>>, Leaves(2)), from, 2)
           /\ from <= 4 /\ StandsAt(left, from, 2) /\ StandsAt(right, from + 2, 1) =>
                  /\ Takes(<<left, right>>, BlocksOf(<<Leaves(2), Leaves(1)>>),
                           Leaves(3))
                  /\ StandsAt(CombineState(<<left, right>>, Leaves(3)), from, 3)
           /\ from <= 4 /\ StandsAt(left, from, 2) /\ StandsAt(right, from + 2, 2) =>
                  /\ Takes(<<left, right>>, BlocksOf(<<Leaves(2), Leaves(2)>>),
                           Leaves(4))
                  /\ StandsAt(CombineState(<<left, right>>, Leaves(4)), from, 4)
<1>1. /\ 0 \in 0..WorkspaceSlots /\ 1 \in 0..WorkspaceSlots
      /\ Pow2[0] = 1 /\ Pow2[1] = 2
    <2>1. 0 \in Nat /\ 0 + 1 = 1
        OBVIOUS
    <2> QED BY <2>1, Pow2Equation, ScheduleAssumption
<1>2. \A n \in 0..9 : Leaves(n) <= SizeMax
    BY ScreensFit
<1>3. from \in Nat /\ from + (1 + 1) \in 0..9 /\ 1 \in 1..1
    OBVIOUS
<1>4. ASSUME StandsAt(left, from, 1), StandsAt(right, from + 1, 1)
      PROVE  /\ Takes(<<left, right>>, BlocksOf(<<Leaves(1), Leaves(1)>>),
                      Leaves(1 + 1))
             /\ StandsAt(CombineState(<<left, right>>, Leaves(1 + 1)), from, 1 + 1)
    <2> DEFINE one == 1
    <2>1. one = Pow2[0] /\ 1 \in 1..one
        BY <1>1
    <2>2. Leaves(from + (one + 1)) <= SizeMax
        BY <1>2, <1>3
    <2>3. StandsAt(left, from, one) /\ StandsAt(right, from + one, 1)
        BY <1>4
    <2> HIDE DEF one
    <2>4. /\ Takes(<<left, right>>, BlocksOf(<<Leaves(one), Leaves(1)>>),
                   Leaves(one + 1))
          /\ StandsAt(CombineState(<<left, right>>, Leaves(one + 1)), from, one + 1)
        BY <1>1, <1>3, <2>1, <2>2, <2>3, SiblingsTaken
    <2> QED BY <2>4 DEF one
<1>5. ASSUME NEW rest \in 1..2, from <= 4,
             StandsAt(left, from, 2), StandsAt(right, from + 2, rest)
      PROVE  /\ Takes(<<left, right>>, BlocksOf(<<Leaves(2), Leaves(rest)>>),
                      Leaves(2 + rest))
             /\ StandsAt(CombineState(<<left, right>>, Leaves(2 + rest)), from,
                         2 + rest)
    <2> DEFINE two == 2
    <2>1. two = Pow2[1] /\ rest \in 1..two
        BY <1>1
    <2>2. Leaves(from + (two + rest)) <= SizeMax
        BY <1>2, <1>5
    <2>3. StandsAt(left, from, two) /\ StandsAt(right, from + two, rest)
        BY <1>5
    <2> HIDE DEF two
    <2>4. /\ Takes(<<left, right>>, BlocksOf(<<Leaves(two), Leaves(rest)>>),
                   Leaves(two + rest))
          /\ StandsAt(CombineState(<<left, right>>, Leaves(two + rest)), from,
                      two + rest)
        BY <1>1, <1>3, <2>1, <2>2, <2>3, SiblingsTaken
    <2> QED BY <2>4 DEF two
<1>6. 1 + 1 = 2 /\ 2 + 1 = 3 /\ 2 + 2 = 4 /\ 1 \in 1..2 /\ 2 \in 1..2
    OBVIOUS
<1>7. StandsAt(left, from, 1) /\ StandsAt(right, from + 1, 1) =>
          /\ Takes(<<left, right>>, BlocksOf(<<Leaves(1), Leaves(1)>>), Leaves(2))
          /\ StandsAt(CombineState(<<left, right>>, Leaves(2)), from, 2)
    BY <1>4, <1>6
<1>8. from <= 4 /\ StandsAt(left, from, 2) /\ StandsAt(right, from + 2, 1) =>
          /\ Takes(<<left, right>>, BlocksOf(<<Leaves(2), Leaves(1)>>), Leaves(3))
          /\ StandsAt(CombineState(<<left, right>>, Leaves(3)), from, 3)
    BY <1>5, <1>6
<1>9. from <= 4 /\ StandsAt(left, from, 2) /\ StandsAt(right, from + 2, 2) =>
          /\ Takes(<<left, right>>, BlocksOf(<<Leaves(2), Leaves(2)>>), Leaves(4))
          /\ StandsAt(CombineState(<<left, right>>, Leaves(4)), from, 4)
    BY <1>5, <1>6
<1> QED BY <1>7, <1>8, <1>9

-----------------------------------------------------------------------------
(* multicollision_screen *)

\* The fixed leaves of the screen combine.
LEMMA FixedTaken ==
    /\ Takes(FixedLeaves, BlocksOf(<<Leaves(1), Leaves(1)>>), Leaves(2))
    /\ StandsAt(FixedSubtree, 2, 2)
<1>1. LeafBytes \in Nat
    BY ScheduleAssumption
<1>2. /\ StandsAt(MakeLeaf(Random("fixed", 1, LeafBytes), Leaves(2)), 2, 1)
      /\ StandsAt(MakeLeaf(Random("fixed", 2, LeafBytes), Leaves(3)), 3, 1)
    BY <1>1, RandomLength, LeafStands
<1>3. FixedLeaves = << MakeLeaf(Random("fixed", 1, LeafBytes), Leaves(2)),
                       MakeLeaf(Random("fixed", 2, LeafBytes), Leaves(3)) >>
    <2> DEFINE leaf(i) == MakeLeaf(Random("fixed", i, LeafBytes), Leaves(i + 1))
    <2>1. FixedLeaves = [i \in 1..2 |-> leaf(i)]
        BY DEF FixedLeaves
    <2>2. leaf(1) = MakeLeaf(Random("fixed", 1, LeafBytes), Leaves(2))
          /\ leaf(2) = MakeLeaf(Random("fixed", 2, LeafBytes), Leaves(3))
        BY <1>1
    <2> HIDE DEF leaf
    <2>3. [i \in 1..2 |-> leaf(i)] = << leaf(1), leaf(2) >>
        OBVIOUS
    <2> QED BY <2>1, <2>2, <2>3
<1>4. 2 \in 0..6 /\ 2 + 1 = 3
    OBVIOUS
<1> QED BY <1>2, <1>3, <1>4, PairsTaken DEF FixedSubtree

\* So do the nodes of every sample.
LEMMA SampleTaken ==
    ASSUME NEW sample
    PROVE  SampleMade(sample)
<1>1. LeafBytes \in Nat /\ Leaves(0) = 0 /\ 0 \in Nat /\ 1 \in Nat
    BY ScheduleAssumption DEF Leaves
<1>2. StandsAt(SampleLeaf(sample), 0, 1)
    <2> DEFINE message == Indexed(Random("sample", sample, LeafBytes), sample)
    <2>1. Len(message) = LeafBytes
        BY <1>1, IndexedLength
    <2>2. SampleLeaf(sample) = MakeLeaf(message, Leaves(0))
        BY <1>1 DEF SampleLeaf
    <2> HIDE DEF message
    <2> QED BY <1>1, <2>1, <2>2, LeafStands
<1>3. StandsAt(SiblingLeaf, 1, 1)
    BY <1>1, RandomLength, LeafStands DEF SiblingLeaf
<1>4. 0 \in 0..6 /\ 0 <= 4 /\ 0 + 1 = 1 /\ 0 + 2 = 2
    OBVIOUS
<1>5. /\ Takes(<<SampleLeaf(sample), SiblingLeaf>>,
               BlocksOf(<<Leaves(1), Leaves(1)>>), Leaves(2))
      /\ StandsAt(SampleNode(sample), 0, 2)
    BY <1>2, <1>3, <1>4, PairsTaken DEF SampleNode
<1>6. Takes(<<SampleNode(sample), FixedSubtree>>,
            BlocksOf(<<Leaves(2), Leaves(2)>>), Leaves(4))
    BY <1>4, <1>5, FixedTaken, PairsTaken
<1> QED BY <1>5, <1>6 DEF SampleMade

-----------------------------------------------------------------------------
(* tree_shape_screen *)

\* What combine_state is to do in an attempt, and does.
Taken(attempt) == Takes(attempt.children, attempt.blocks, attempt.node_length)

\* An attempt ends as the screen says it must.
AsExpected(attempt) ==
    /\ attempt.expect \in {"accept", "reject", "graft"}
    /\ attempt.expect = "reject" <=> ~Taken(attempt)
    /\ attempt.expect = "graft" =>
           CombineState(attempt.children, attempt.node_length) # attempt.other

\* The fields of an attempt with two children.
LEMMA AttemptOfTwo ==
    ASSUME NEW expect, NEW children, NEW a \in Nat, NEW b \in Nat, NEW other
    PROVE  LET attempt == Attempt(expect, children, <<a, b>>, other) IN
           /\ attempt.expect = expect /\ attempt.children = children
           /\ attempt.blocks = BlocksOf(<<a, b>>)
           /\ attempt.node_length = a + b
           /\ attempt.other = other
<1>1. Ends(<<a, b>>)[Len(<<a, b>>)] = a + b
    <2>1. Len(<<a, b>>) = 2
        OBVIOUS
    <2> QED BY <2>1, EndsOfTwo
<1> QED BY <1>1 DEF Attempt

\* Records absorbed one after the other.
LEMMA AppendOne ==
    ASSUME NEW x, NEW y, NEW z
    PROVE  /\ Append(<<x>>, y) = <<x, y>>
           /\ Append(<<x, y>>, z) = <<x, y, z>>
<1> DEFINE S == {x, y, z}
           one == Append(<<x>>, y)
           two == Append(<<x, y>>, z)
<1>1. /\ <<x>> \in Seq(S) /\ Len(<<x>>) = 1
      /\ <<x, y>> \in Seq(S) /\ Len(<<x, y>>) = 2
      /\ <<x, y, z>> \in Seq(S) /\ Len(<<x, y, z>>) = 3
      /\ y \in S /\ z \in S
    OBVIOUS
<1>2. one \in Seq(S) /\ Len(one) = 2 /\ one[1] = x /\ one[2] = y
    BY <1>1, AppendProperties
<1>3. two \in Seq(S) /\ Len(two) = 3 /\ two[1] = x /\ two[2] = y /\ two[3] = z
    BY <1>1, AppendProperties
<1> HIDE DEF one, two
<1>4. \A i \in 1..Len(one) : one[i] = <<x, y>>[i]
    BY <1>2
<1>5. \A i \in 1..Len(two) : two[i] = <<x, y, z>>[i]
    BY <1>3
<1>6. one = <<x, y>>
    BY <1>1, <1>2, <1>4, SeqEqual
<1>7. two = <<x, y, z>>
    BY <1>1, <1>3, <1>5, SeqEqual
<1> QED BY <1>6, <1>7 DEF one, two

\* The compression of a record appends it.
LEMMA CompressAppends ==
    ASSUME NEW domain, NEW absorbed, NEW record
    PROVE  MixCompress([domain |-> domain, absorbed |-> absorbed], record)
               = [domain |-> domain, absorbed |-> Append(absorbed, record)]
BY DEF MixCompress

\* Two nodes over other children than a node's have other words.
LEMMA OtherChild ==
    ASSUME NEW left, NEW right, NEW one, NEW other, NEW a, NEW b,
           left.words # one.words
    PROVE  CombineState(<<left, right>>, a) # CombineState(<<one, other>>, b)
<1> DEFINE node(l, r, n) == CombineState(<<l, r>>, n)
           third(l, r, n) == node(l, r, n).words.absorbed[2].words
<1>1. ASSUME NEW l, NEW r, NEW n PROVE third(l, r, n) = l.words
    <2> DEFINE blank == MixInit("node")
               header == NodeHeader(PositionOf(l.tree.byte_offset, n))
               one1 == NodeChild(0, l)
               two2 == NodeChild(1, r)
    <2>1. node(l, r, n).words
              = MixCompress(MixCompress(MixCompress(blank, header), one1), two2)
        BY DEF CombineState, Combine, NodeOf
    <2>2. one1.words = l.words
        BY DEF NodeChild, Record
    <2> HIDE DEF header, one1, two2, node
    <2>3. MixCompress(MixCompress(MixCompress(blank, header), one1), two2).absorbed
              = <<header, one1, two2>>
        <3>1. MixCompress(blank, header)
                  = [domain |-> "node", absorbed |-> Append(<< >>, header)]
            BY DEF MixCompress, MixInit
        <3>2. Append(<< >>, header) = <<header>>
            OBVIOUS
        <3>3. /\ Append(<<header>>, one1) = <<header, one1>>
              /\ Append(<<header, one1>>, two2) = <<header, one1, two2>>
            BY AppendOne
        <3>4. MixCompress([domain |-> "node", absorbed |-> <<header>>], one1)
                  = [domain |-> "node", absorbed |-> Append(<<header>>, one1)]
            BY CompressAppends, Zenon
        <3>5. MixCompress([domain |-> "node", absorbed |-> <<header, one1>>], two2)
                  = [domain |-> "node", absorbed |-> Append(<<header, one1>>, two2)]
            BY CompressAppends, Zenon
        <3>6. MixCompress(MixCompress(MixCompress(blank, header), one1), two2)
                  = [domain |-> "node", absorbed |-> <<header, one1, two2>>]
            BY <3>1, <3>2, <3>3, <3>4, <3>5
        <3> QED BY <3>6
    <2> QED BY <2>1, <2>2, <2>3
<1> HIDE DEF node
<1>2. third(left, right, a) # third(one, other, b)
    BY <1>1
<1> QED BY <1>2 DEF node

\* A right child whose position is not the one of its range is refused.
LEMMA ForgedRefused ==
    ASSUME NEW left, NEW right, NEW blocks, NEW total,
           right.tree # PositionOf(right.tree.byte_offset, right.tree.byte_length)
    PROVE  ~Takes(<<left, right>>, blocks, total)
BY DEF Takes, CombineAccepted, PositionValid

\* Blocks that do not divide the node where its children do are refused.
LEMMA MisplacedRefused ==
    ASSUME NEW left, NEW right, NEW a \in Nat, NEW b \in Nat, NEW total,
           left.tree.byte_length # a
    PROVE  ~Takes(<<left, right>>, BlocksOf(<<a, b>>), total)
<1>1. BlocksOf(<<a, b>>)[1].length = a
    <2>1. BlocksOf(<<a, b>>) = << [offset |-> 0, length |-> a],
                                  [offset |-> a, length |-> b] >>
        BY BlocksOfTwo
    <2> QED BY <2>1
<1>2. SUFFICES ASSUME CombineAccepted(left, right, BlocksOf(<<a, b>>), total)
               PROVE  FALSE
    BY DEF Takes
<1>3. BlocksOf(<<a, b>>) = << [offset |-> 0, length |-> left.tree.byte_length],
                              [offset |-> left.tree.byte_length,
                               length |-> right.tree.byte_length] >>
    BY <1>2 DEF CombineAccepted
<1> QED BY <1>1, <1>3

\* The library takes two children and no other number.
LEMMA OtherThanTwoRefused ==
    ASSUME NEW children, Len(children) # 2, NEW blocks, NEW total
    PROVE  ~Takes(children, blocks, total)
BY DEF Takes, Arity

\* The words of a node made by combine_state start from their domain.
LEMMA AlteredWords ==
    ASSUME NEW left, NEW right, NEW total
    PROVE  LET node == CombineState(<<left, right>>, total) IN
           /\ Altered(node).words # node.words
           /\ Altered(node).tree = node.tree
           /\ Altered(node).occupied = node.occupied
<1> DEFINE node == CombineState(<<left, right>>, total)
<1>1. \E s : node.words = [domain |-> "node", absorbed |-> s]
           /\ node = [occupied |-> TRUE, tree |-> node.tree, words |-> node.words]
    BY DEF CombineState, Combine, NodeOf, MixCompress, MixInit
<1>2. PICK s : /\ node.words = [domain |-> "node", absorbed |-> s]
               /\ node = [occupied |-> TRUE, tree |-> node.tree,
                          words |-> node.words]
    BY <1>1
<1> HIDE DEF node
<1>3. /\ Altered(node).words.domain = "altered"
      /\ Altered(node).tree = node.tree
      /\ Altered(node).occupied = node.occupied
    BY <1>2 DEF Altered
<1>4. node.words.domain = "node"
    BY <1>2
<1> QED BY <1>3, <1>4 DEF node

\* Every attempt of tree_shape_screen ends as it expects.
LEMMA ShapeExpected ==
    ASSUME NEW a, StandsAt(a, 0, 1), NEW b, StandsAt(b, 1, 1),
           NEW c, StandsAt(c, 2, 1), NEW d, StandsAt(d, 3, 1)
    PROVE  LET ab  == Pair(a, b)
               cd  == Pair(c, d)
               bc  == Pair(b, c)
               all == ShapeAttempts(a, b, c, d, ab, cd, bc,
                                    CombineState(<<bc, d>>, Leaves(3)),
                                    <<Leaves(1), Leaves(1)>>,
                                    <<Leaves(2), Leaves(2)>>)
           IN  /\ Len(all) = 12
               /\ \A i \in 1..12 :
                      /\ AsExpected(all[i])
                      /\ all[i].expect = IF i <= 5 THEN "accept"
                                         ELSE IF i = 6 THEN "graft" ELSE "reject"
<1> DEFINE ab  == Pair(a, b)
           cd  == Pair(c, d)
           bc  == Pair(b, c)
           bcd == CombineState(<<bc, d>>, Leaves(3))
           pair == <<Leaves(1), Leaves(1)>>
           half == <<Leaves(2), Leaves(2)>>
<1>1. /\ Leaves(1) \in Nat \ {0} /\ Leaves(2) = Leaves(1) + Leaves(1)
      /\ Leaves(3) = Leaves(2) + Leaves(1) /\ Leaves(4) = Leaves(2) + Leaves(2)
      /\ Leaves(2) \in Nat \ {0} /\ Leaves(2) - 1 \in Nat
      /\ Leaves(3) \in Nat \ {0} /\ Leaves(4) \in Nat \ {0}
    BY ScheduleAssumption DEF Leaves
<1>2. \A n \in 0..9 : Leaves(n) <= SizeMax
    BY ScreensFit
<1>3. /\ Takes(<<a, b>>, BlocksOf(pair), Leaves(2)) /\ StandsAt(ab, 0, 2)
      /\ Takes(<<c, d>>, BlocksOf(pair), Leaves(2)) /\ StandsAt(cd, 2, 2)
      /\ Takes(<<b, c>>, BlocksOf(pair), Leaves(2)) /\ StandsAt(bc, 1, 2)
    <2>1. /\ 0 \in 0..6 /\ 1 \in 0..6 /\ 2 \in 0..6
          /\ 0 + 1 = 1 /\ 1 + 1 = 2 /\ 2 + 1 = 3
        OBVIOUS
    <2> QED BY <2>1, PairsTaken DEF Pair
<1> HIDE DEF ab, cd, bc
<1>4. /\ Takes(<<bc, d>>, BlocksOf(<<Leaves(2), Leaves(1)>>), Leaves(3))
      /\ StandsAt(bcd, 1, 3)
      /\ Takes(<<ab, cd>>, BlocksOf(half), Leaves(4))
    <2>1. 1 \in 0..6 /\ 0 \in 0..6 /\ 1 <= 4 /\ 0 <= 4 /\ 1 + 2 = 3 /\ 0 + 2 = 2
        OBVIOUS
    <2> QED BY <1>3, <2>1, PairsTaken
<1> HIDE DEF bcd
<1>5. /\ Altered(ab).words # ab.words
      /\ Altered(ab).tree = ab.tree /\ Altered(ab).occupied = ab.occupied
    BY AlteredWords DEF ab, Pair
<1>6. /\ Takes(<<Altered(ab), cd>>, BlocksOf(half), Leaves(4))
      /\ CombineState(<<Altered(ab), cd>>, Leaves(4))
             # CombineState(<<ab, cd>>, Leaves(4))
    <2>1. StandsAt(Altered(ab), 0, 2)
        BY <1>3, <1>5 DEF StandsAt
    <2>2. 0 \in 0..6 /\ 0 <= 4 /\ 0 + 2 = 2
        OBVIOUS
    <2> QED BY <1>3, <1>5, <2>1, <2>2, PairsTaken, OtherChild
<1>7. ~Takes(<<cd, ab>>, BlocksOf(half), Leaves(4))
    <2>1. 0 # 2 + 2 /\ 2 \in Nat \ {0} /\ 0 \in Nat /\ 2 + 2 \in 0..9
          /\ 0 + 2 \in 0..9
        OBVIOUS
    <2> QED BY <1>2, <1>3, <2>1, TakenAreSiblings
<1>8. ~Takes(<<a, bcd>>, BlocksOf(<<Leaves(1), Leaves(3)>>), Leaves(4))
    <2>1. ~(3 <= 1) /\ 0 \in Nat /\ 1 \in Nat \ {0} /\ 3 \in Nat \ {0}
          /\ 0 + 1 \in 0..9 /\ 1 + 3 \in 0..9
        OBVIOUS
    <2> QED BY <1>2, <1>4, <2>1, TakenAreSiblings
<1>9. \A blocks, total : ~Takes(<<a, b, c, d>>, blocks, total)
    BY OtherThanTwoRefused
<1>10. ~Takes(<<ab, cd>>, BlocksOf(<<Leaves(2) - 1, Leaves(2) + 1>>), Leaves(4))
    <2>1. ab.tree.byte_length = Leaves(2)
        BY <1>3 DEF StandsAt, PositionOf
    <2>2. Leaves(2) # Leaves(2) - 1 /\ Leaves(2) + 1 \in Nat
        BY <1>1
    <2> QED BY <1>1, <2>1, <2>2, MisplacedRefused
<1> DEFINE late == [cd EXCEPT !.tree.first_leaf = @ + 1]
           high == [cd EXCEPT !.tree.level = @ + 1]
<1>11. /\ ~Takes(<<ab, late>>, BlocksOf(half), Leaves(4))
       /\ ~Takes(<<ab, high>>, BlocksOf(half), Leaves(4))
    <2> DEFINE p == PositionOf(Leaves(2), Leaves(2))
    <2>1. cd.tree = p /\ cd.occupied = TRUE
        BY <1>3 DEF StandsAt
    <2>2. p.first_leaf \in Nat /\ p.level \in Nat
        <3>1. RangeAccepted(Leaves(2), Leaves(2)) /\ Leaves(2) \div LeafBytes = 2
            <4>1. 2 \in Nat /\ 2 \in Nat \ {0} /\ 2 + 2 \in 0..9
                OBVIOUS
            <4> QED BY <1>2, <4>1, WholeRange
        <3>2. Level(LeafCount(Leaves(2))) \in 0..WorkspaceSlots
            BY <1>1, <3>1, AcceptedRange
        <3> QED BY <3>1, <3>2, ScheduleAssumption DEF PositionOf
    <2>3. /\ cd.tree.first_leaf = p.first_leaf /\ cd.tree.level = p.level
          /\ cd.tree.byte_offset = p.byte_offset
          /\ cd.tree.byte_length = p.byte_length
          /\ p = PositionOf(p.byte_offset, p.byte_length)
        BY <2>1 DEF PositionOf
    <2> HIDE DEF p
    <2>4. DOMAIN cd = {"occupied", "tree", "words"}
          /\ DOMAIN cd.tree = {"level", "first_leaf", "leaf_count",
                               "byte_offset", "byte_length"}
        BY <2>1 DEF cd, Pair, CombineState, Combine, NodeOf, p, PositionOf
    <2>5. /\ late.tree.first_leaf = p.first_leaf + 1
          /\ late.tree.byte_offset = p.byte_offset
          /\ late.tree.byte_length = p.byte_length
        BY <2>3, <2>4
    <2>6. /\ high.tree.level = p.level + 1
          /\ high.tree.byte_offset = p.byte_offset
          /\ high.tree.byte_length = p.byte_length
        BY <2>3, <2>4
    <2> HIDE DEF late, high
    <2>7. late.tree # PositionOf(late.tree.byte_offset, late.tree.byte_length)
        BY <2>2, <2>3, <2>5
    <2>8. high.tree # PositionOf(high.tree.byte_offset, high.tree.byte_length)
        BY <2>2, <2>3, <2>6
    <2> QED BY <2>7, <2>8, ForgedRefused
<1> HIDE DEF late, high
<1> DEFINE all == ShapeAttempts(a, b, c, d, ab, cd, bc, bcd, pair, half)
           e(i) == all[i]
<1>12. Len(all) = 12
    BY DEF ShapeAttempts
<1>13. /\ AsExpected(e(1)) /\ e(1).expect = "accept"
    <2>1. e(1) = Attempt("accept", <<a, b>>, <<Leaves(1), Leaves(1)>>, EmptySlot)
        BY DEF ShapeAttempts, Accept
    <2> QED BY <2>1, <1>1, <1>3, AttemptOfTwo DEF AsExpected, Taken
<1>14. /\ AsExpected(e(2)) /\ e(2).expect = "accept"
    <2>1. e(2) = Attempt("accept", <<c, d>>, <<Leaves(1), Leaves(1)>>, EmptySlot)
        BY DEF ShapeAttempts, Accept
    <2> QED BY <2>1, <1>1, <1>3, AttemptOfTwo DEF AsExpected, Taken
<1>15. /\ AsExpected(e(3)) /\ e(3).expect = "accept"
    <2>1. e(3) = Attempt("accept", <<b, c>>, <<Leaves(1), Leaves(1)>>, EmptySlot)
        BY DEF ShapeAttempts, Accept
    <2> QED BY <2>1, <1>1, <1>3, AttemptOfTwo DEF AsExpected, Taken
<1>16. /\ AsExpected(e(4)) /\ e(4).expect = "accept"
    <2>1. e(4) = Attempt("accept", <<bc, d>>, <<Leaves(2), Leaves(1)>>, EmptySlot)
        BY DEF ShapeAttempts, Accept
    <2> QED BY <2>1, <1>1, <1>4, AttemptOfTwo DEF AsExpected, Taken
<1>17. /\ AsExpected(e(5)) /\ e(5).expect = "accept"
    <2>1. e(5) = Attempt("accept", <<ab, cd>>, <<Leaves(2), Leaves(2)>>, EmptySlot)
        BY DEF ShapeAttempts, Accept
    <2> QED BY <2>1, <1>1, <1>4, AttemptOfTwo DEF AsExpected, Taken
<1>18. /\ AsExpected(e(6)) /\ e(6).expect = "graft"
    <2>1. e(6) = Attempt("graft", <<Altered(ab), cd>>, <<Leaves(2), Leaves(2)>>,
                         CombineState(<<ab, cd>>, Leaves(4)))
        BY DEF ShapeAttempts
    <2> QED BY <2>1, <1>1, <1>6, AttemptOfTwo DEF AsExpected, Taken
<1>19. /\ AsExpected(e(7)) /\ e(7).expect = "reject"
    <2>1. e(7) = Attempt("reject", <<cd, ab>>, <<Leaves(2), Leaves(2)>>, EmptySlot)
        BY DEF ShapeAttempts, Reject
    <2> QED BY <2>1, <1>1, <1>7, AttemptOfTwo DEF AsExpected, Taken
<1>20. /\ AsExpected(e(8)) /\ e(8).expect = "reject"
    <2>1. e(8) = Attempt("reject", <<a, bcd>>, <<Leaves(1), Leaves(3)>>, EmptySlot)
        BY DEF ShapeAttempts, Reject
    <2>2. Leaves(1) + Leaves(3) = Leaves(4)
        BY <1>1
    <2> QED BY <2>1, <2>2, <1>1, <1>8, AttemptOfTwo DEF AsExpected, Taken
<1>21. /\ AsExpected(e(9)) /\ e(9).expect = "reject"
    <2>1. e(9) = Attempt("reject", <<a, b, c, d>>, [i \in 1..4 |-> Leaves(1)],
                         EmptySlot)
        BY DEF ShapeAttempts, Reject
    <2>2. e(9).expect = "reject" /\ e(9).children = <<a, b, c, d>>
        BY <2>1 DEF Attempt
    <2> QED BY <2>2, <1>9 DEF AsExpected, Taken
<1>22. /\ AsExpected(e(10)) /\ e(10).expect = "reject"
    <2>1. e(10) = Attempt("reject", <<ab, cd>>, <<Leaves(2) - 1, Leaves(2) + 1>>,
                          EmptySlot)
        BY DEF ShapeAttempts, Reject
    <2>2. (Leaves(2) - 1) + (Leaves(2) + 1) = Leaves(4) /\ Leaves(2) + 1 \in Nat
        BY <1>1
    <2> QED BY <2>1, <2>2, <1>1, <1>10, AttemptOfTwo DEF AsExpected, Taken
<1>23. /\ AsExpected(e(11)) /\ e(11).expect = "reject"
    <2>1. e(11) = Attempt("reject", <<ab, late>>, <<Leaves(2), Leaves(2)>>, EmptySlot)
        BY DEF ShapeAttempts, Reject, late
    <2> QED BY <2>1, <1>1, <1>11, AttemptOfTwo DEF AsExpected, Taken
<1>24. /\ AsExpected(e(12)) /\ e(12).expect = "reject"
    <2>1. e(12) = Attempt("reject", <<ab, high>>, <<Leaves(2), Leaves(2)>>, EmptySlot)
        BY DEF ShapeAttempts, Reject, high
    <2> QED BY <2>1, <1>1, <1>11, AttemptOfTwo DEF AsExpected, Taken
<1> HIDE DEF all
<1>25. ASSUME NEW i \in 1..12
       PROVE  /\ AsExpected(all[i])
              /\ all[i].expect = IF i <= 5 THEN "accept"
                                 ELSE IF i = 6 THEN "graft" ELSE "reject"
    <2>1. \/ i = 1 \/ i = 2 \/ i = 3 \/ i = 4 \/ i = 5 \/ i = 6 \/ i = 7 \/ i = 8
          \/ i = 9 \/ i = 10 \/ i = 11 \/ i = 12
        OBVIOUS
    <2> QED BY <2>1, <1>13, <1>14, <1>15, <1>16, <1>17, <1>18, <1>19, <1>20,
               <1>21, <1>22, <1>23, <1>24
<1> QED BY <1>12, <1>25 DEF all, ab, cd, bc, bcd

\* The attempts of tree_shape_screen, and what its verdict counts.
LEMMA ShapeAttempted ==
    /\ Len(TreeShape) = 12
    /\ \A i \in 1..12 :
           /\ AsExpected(TreeShape[i])
           /\ TreeShape[i].expect = IF i <= 5 THEN "accept"
                                    ELSE IF i = 6 THEN "graft" ELSE "reject"
    /\ Expecting(TreeShape, "reject") = 6
    /\ Expecting(TreeShape, "graft") = 1
<1> DEFINE leaf == [i \in 0..3 |-> ShapeLeaf(i)]
<1>1. ASSUME NEW i \in 0..3 PROVE StandsAt(leaf[i], i, 1)
    <2> DEFINE message == Indexed(Random("shape", i, LeafBytes), i)
    <2>1. Len(message) = LeafBytes
        BY ScheduleAssumption, IndexedLength
    <2>2. leaf[i] = MakeLeaf(message, Leaves(i))
        BY DEF ShapeLeaf
    <2> HIDE DEF message, leaf
    <2> QED BY <2>1, <2>2, LeafStands
<1> HIDE DEF leaf
<1>2. /\ StandsAt(leaf[0], 0, 1) /\ StandsAt(leaf[1], 1, 1)
      /\ StandsAt(leaf[2], 2, 1) /\ StandsAt(leaf[3], 3, 1)
    BY <1>1
<1>3. TreeShape = TreeShapeOf(leaf)
    BY DEF TreeShape, leaf
<1> DEFINE a == leaf[0]
           b == leaf[1]
           c == leaf[2]
           d == leaf[3]
           all == ShapeAttempts(a, b, c, d, Pair(a, b), Pair(c, d), Pair(b, c),
                                CombineState(<<Pair(b, c), d>>, Leaves(3)),
                                <<Leaves(1), Leaves(1)>>,
                                <<Leaves(2), Leaves(2)>>)
<1>4. TreeShape = all
    BY <1>3 DEF TreeShapeOf
<1>5. /\ Len(all) = 12
      /\ \A i \in 1..12 :
             /\ AsExpected(all[i])
             /\ all[i].expect = IF i <= 5 THEN "accept"
                                ELSE IF i = 6 THEN "graft" ELSE "reject"
    <2> HIDE DEF a, b, c, d
    <2>1. /\ StandsAt(a, 0, 1) /\ StandsAt(b, 1, 1)
          /\ StandsAt(c, 2, 1) /\ StandsAt(d, 3, 1)
        BY <1>2 DEF a, b, c, d
    <2> QED BY <2>1, ShapeExpected
<1>6. DOMAIN all = 1..12
    BY DEF ShapeAttempts
<1> HIDE DEF all
<1>7. /\ {i \in DOMAIN all : all[i].expect = "reject"} = 7..12
      /\ {i \in DOMAIN all : all[i].expect = "graft"} = 6..6
    BY <1>5, <1>6
<1>8. Cardinality(7..12) = 6 /\ Cardinality(6..6) = 1
    <2>1. 7 \in Int /\ 12 \in Int /\ 6 \in Int
          /\ (IF 7 > 12 THEN 0 ELSE 12 - 7 + 1) = 6
          /\ (IF 6 > 6 THEN 0 ELSE 6 - 6 + 1) = 1
        OBVIOUS
    <2>2. Cardinality(7..12) = IF 7 > 12 THEN 0 ELSE 12 - 7 + 1
        BY <2>1, FS_Interval
    <2>3. Cardinality(6..6) = IF 6 > 6 THEN 0 ELSE 6 - 6 + 1
        BY <2>1, FS_Interval
    <2> QED BY <2>1, <2>2, <2>3
<1> QED BY <1>4, <1>5, <1>7, <1>8 DEF Expecting

\* One call of a screen that ends as it expects: it counts, or memory is
\* wanting.
LEMMA TryGoes ==
    ASSUME AttackIInv, screen \in 1..10, NEW attempt, AsExpected(attempt),
           NEW at_once \in BOOLEAN, Try(attempt, at_once)
    PROVE  \/ AttackStep
           \/ /\ UNCHANGED <<screen, phase, failed, exit_code>>
              /\ step' = step + 1
              /\ accepted' = accepted
                                 + (IF attempt.expect = "graft" THEN 1 ELSE 0)
              /\ rejected' = rejected
                                 + (IF attempt.expect = "reject" THEN 1 ELSE 0)
<1> DEFINE taken == Takes(attempt.children, attempt.blocks, attempt.node_length)
           other == CombineState(attempt.children, attempt.node_length)
                        # attempt.other
           fails == ~taken \/ (at_once /\ attempt.expect = "graft" /\ ~other)
           Count(accept, reject) ==
               /\ step' = step + 1
               /\ accepted' = accepted + (IF accept THEN 1 ELSE 0)
               /\ rejected' = rejected + (IF reject THEN 1 ELSE 0)
               /\ Continue
<1>1. /\ attempt.expect = "reject" =>
             \E memory \in BOOLEAN : Count(FALSE, ~(taken /\ memory))
      /\ attempt.expect # "reject" /\ ~fails =>
             Count(attempt.expect = "graft" /\ other, FALSE) \/ OutOfMemory
    BY Zenon DEF Try
<1>2. /\ attempt.expect = "reject" <=> ~taken
      /\ attempt.expect = "graft" => other
    BY DEF AsExpected, Taken
<1>3. ~taken => \A memory \in BOOLEAN : ~(taken /\ memory)
    OBVIOUS
<1> HIDE DEF taken, other
<1>4. CASE attempt.expect = "reject"
    <2>1. /\ step' = step + 1 /\ accepted' = accepted + 0
          /\ rejected' = rejected + 1 /\ Continue
        BY <1>1, <1>2, <1>3, <1>4
    <2> QED BY <1>4, <2>1 DEF Continue
<1>5. CASE attempt.expect # "reject" /\ OutOfMemory
    BY <1>5, OutOfMemoryGoesOn
<1>6. CASE attempt.expect # "reject" /\ ~OutOfMemory
    <2>1. ~fails
        BY <1>2, <1>6
    <2>2. Count(attempt.expect = "graft" /\ other, FALSE)
        BY <1>1, <1>6, <2>1
    <2> QED BY <1>2, <1>6, <2>2 DEF Continue
<1> QED BY <1>4, <1>5, <1>6

\* A step inside a screen need only keep what is said of that screen.
LEMMA InScreen ==
    ASSUME AttackIInv, screen \in 1..10, screen' = screen, failed' = failed,
           phase' \in {"running", "statistics", "compared", "verdict"},
           screen = 1 => CollisionsSoFar', screen = 2 => ShapeSoFar',
           screen = 3 => PartitionSoFar', screen = 4 => ReplacementSoFar',
           screen = 5 => PreimageSoFar', screen = 6 => LongSoFar',
           screen = 7 => ExpandableSoFar', screen = 8 => HerdingSoFar',
           screen = 9 => TargetsSoFar', screen = 10 => ReuseSoFar'
    PROVE  AttackStep
<1>1. ScreensSoFar' /\ Reports
    BY StaysIn
<1>2. CollisionsSoFar' /\ ShapeSoFar'
    BY DEF CollisionsSoFar, ShapeSoFar, OfScreen
<1>3. PartitionSoFar' /\ ReplacementSoFar'
    BY DEF PartitionSoFar, ReplacementSoFar, OfScreen
<1>4. PreimageSoFar' /\ TargetsSoFar'
    BY DEF PreimageSoFar, TargetsSoFar, OfScreen
<1>5. LongSoFar'
    BY DEF LongSoFar, OfScreen
<1>6. ExpandableSoFar' /\ ReuseSoFar'
    BY DEF ExpandableSoFar, ReuseSoFar, OfScreen
<1>7. HerdingSoFar'
    BY DEF HerdingSoFar
<1> QED BY <1>1, <1>2, <1>3, <1>4, <1>5, <1>6, <1>7 DEF AttackIInv, AttackStep

\* tree_shape_screen
LEMMA ShapeGoes ==
    ASSUME AttackIInv, TreeShapeScreen
    PROVE  AttackStep
<1>1. CASE In("tree_shape", "entered") /\ GoTo("running") /\ UNCHANGED work
    <2>1. screen = 2 /\ phase = "entered"
        BY <1>1, AtScreen
    <2>2. step = 0 /\ accepted = 0 /\ rejected = 0
        BY <2>1 DEF AttackIInv, ScreensSoFar
    <2>3. screen' = screen /\ failed' = failed /\ phase' = "running"
          /\ step' = 0 /\ accepted' = 0 /\ rejected' = 0
        BY <1>1, <2>2 DEF GoTo, work
    <2>4. ShapeSoFar'
        BY <2>3 DEF ShapeSoFar
    <2> QED BY <2>1, <2>3, <2>4, InScreen
<1>2. CASE /\ In("tree_shape", "running") /\ step < Len(TreeShape)
           /\ Try(TreeShape[step + 1], FALSE)
    <2>1. screen = 2 /\ phase = "running" /\ screen \in 1..10
        BY <1>2, AtScreen
    <2>2. /\ step \in 0..12
          /\ accepted = (IF step < 6 THEN 0 ELSE 1)
          /\ rejected = (IF step < 6 THEN 0 ELSE step - 6)
        BY <2>1 DEF AttackIInv, ShapeSoFar, OfScreen
    <2>3. step < 12 /\ step + 1 \in 1..12
        BY <1>2, <2>2, ShapeAttempted
    <2> DEFINE attempt == TreeShape[step + 1]
    <2>4. /\ AsExpected(attempt)
          /\ attempt.expect = IF step + 1 <= 5 THEN "accept"
                              ELSE IF step + 1 = 6 THEN "graft" ELSE "reject"
        BY <2>3, ShapeAttempted
    <2>5. Try(attempt, FALSE) /\ FALSE \in BOOLEAN
        BY <1>2
    <2> HIDE DEF attempt
    <2>6. \/ AttackStep
          \/ /\ UNCHANGED <<screen, phase, failed, exit_code>>
             /\ step' = step + 1
             /\ accepted' = accepted
                                + (IF attempt.expect = "graft" THEN 1 ELSE 0)
             /\ rejected' = rejected
                                + (IF attempt.expect = "reject" THEN 1 ELSE 0)
        BY <2>1, <2>4, <2>5, TryGoes
    <2>7. CASE ~AttackStep
        <3>1. /\ screen' = screen /\ failed' = failed /\ phase' = "running"
              /\ step' = step + 1
              /\ accepted' = accepted + (IF step = 5 THEN 1 ELSE 0)
              /\ rejected' = rejected + (IF step >= 6 THEN 1 ELSE 0)
            BY <2>1, <2>2, <2>3, <2>4, <2>6, <2>7
        <3>2. ShapeSoFar'
            BY <3>1, <2>2, <2>3 DEF ShapeSoFar
        <3> QED BY <2>1, <3>1, <3>2, InScreen
    <2> QED BY <2>7
<1>3. CASE /\ In("tree_shape", "running") /\ step = Len(TreeShape)
           /\ \E near \in {FALSE, ~FALSE} : Judge(Counted(TreeShape), near)
    <2>1. screen = 2 /\ phase = "running" /\ screen \in 1..10
        BY <1>3, AtScreen
    <2>2. step = 12 /\ accepted = 1 /\ rejected = 6
        BY <1>3, <2>1, ShapeAttempted DEF AttackIInv, ShapeSoFar, OfScreen
    <2>3. Counted(TreeShape) = TRUE
        BY <2>2, ShapeAttempted DEF Counted
    <2>4. step = StepsAsked
        BY <2>1, <2>2, AskedSteps
    <2> QED BY <1>3, <2>1, <2>3, <2>4, JudgeGoesOn
<1> QED BY <1>1, <1>2, <1>3 DEF TreeShapeScreen, TryAll

\* multicollision_screen
LEMMA MulticollisionGoes ==
    ASSUME AttackIInv, Multicollision
    PROVE  AttackStep
<1>0. CollisionSamples \in Nat /\ CollisionSamples > 0
    BY AttackAssumption
<1>1. \A at : In("multicollision", at) => screen = 1 /\ phase = at
    BY AtScreen
<1>2. screen = 1 /\ screen \in 1..10 /\ StepsAsked = CollisionSamples
    <2>1. \E at : In("multicollision", at)
        BY Zenon DEF Multicollision
    <2> QED BY <1>1, <2>1, AskedSteps
<1>3. CASE OutOfMemory
    BY <1>2, <1>3, OutOfMemoryGoesOn
<1>4. ASSUME screen' = screen, failed' = failed,
             phase' \in {"running", "statistics", "compared", "verdict"},
             CollisionsSoFar'
      PROVE  AttackStep
    BY <1>2, <1>4, InScreen
<1>5. CASE /\ In("multicollision", "entered")
           /\ IF Takes(FixedLeaves, BlocksOf(<<Leaves(1), Leaves(1)>>),
                       Leaves(2))
              THEN OutOfMemory \/ (GoTo("running") /\ UNCHANGED work)
              ELSE Return({"structure"})
    <2>1. OutOfMemory \/ (GoTo("running") /\ UNCHANGED work)
        BY <1>5, FixedTaken
    <2>2. UNCHANGED work => step' = 0
        BY <1>1, <1>5 DEF AttackIInv, ScreensSoFar, work
    <2> QED BY <1>0, <1>3, <1>4, <2>1, <2>2 DEF GoTo, CollisionsSoFar, OfScreen
<1>6. CASE In("multicollision", "running") /\ MakeSample
    <2>1. /\ step' = step + 1
          /\ GoTo(IF AllSamples(CollisionSamples - 1) THEN "statistics"
                  ELSE "running")
        BY <1>6, SampleTaken DEF MakeSample
    <2>2. step \in Nat /\ step < CollisionSamples
        BY <1>1, <1>6 DEF AttackIInv, CollisionsSoFar, OfScreen
    <2>3. CASE step >= CollisionSamples - 1
        <3>1. phase' = "statistics" /\ step' = CollisionSamples
            BY <1>0, <2>1, <2>2, <2>3 DEF GoTo, AllSamples
        <3> QED BY <1>4, <2>1, <3>1 DEF GoTo, CollisionsSoFar, OfScreen
    <2>4. CASE ~(step >= CollisionSamples - 1)
        <3>1. phase' = "running" /\ step' \in Nat /\ step' < CollisionSamples
            BY <1>0, <2>1, <2>2, <2>4 DEF GoTo, AllSamples
        <3> QED BY <1>4, <2>1, <3>1 DEF GoTo, CollisionsSoFar, OfScreen
    <2> QED BY <2>3, <2>4
<1>7. CASE /\ In("multicollision", "statistics")
           /\ GoTo("compared") /\ step' = step
    <2>1. step = CollisionSamples
        BY <1>1, <1>7 DEF AttackIInv, CollisionsSoFar
    <2> QED BY <1>4, <1>7, <2>1 DEF GoTo, CollisionsSoFar, OfScreen
<1>8. CASE /\ In("multicollision", "compared")
           /\ GoTo(IF sub' = 3 THEN "verdict" ELSE "statistics")
           /\ step' = step
    <2>1. step = CollisionSamples
        BY <1>1, <1>8 DEF AttackIInv, CollisionsSoFar
    <2> QED BY <1>4, <1>8, <2>1 DEF GoTo, CollisionsSoFar, OfScreen
<1>9. CASE In("multicollision", "verdict") /\ Judge(TRUE, matches > 0)
    <2>1. step = StepsAsked
        BY <1>1, <1>2, <1>9 DEF AttackIInv, CollisionsSoFar
    <2> QED BY <1>2, <1>9, <2>1, JudgeGoesOn
<1> QED BY <1>3, <1>5, <1>6, <1>7, <1>8, <1>9, Zenon DEF Multicollision

-----------------------------------------------------------------------------
(* The buffers *)

\* Data of n elements.
Sized(data, n) == DOMAIN data = 0..(n - 1)

\* The positions a memcpy writes.
Overwritten(at, data) == {at + c : c \in DOMAIN data}

\* Inside the data put into it, a buffer holds the data.
LEMMA PutInside ==
    ASSUME NEW buffer, NEW at, NEW data, NEW p \in Overwritten(at, data)
    PROVE  p \in DOMAIN Put(buffer, at, data) /\ Put(buffer, at, data)[p] = data[p - at]
BY DEF Put, Overwritten

\* Outside of them it holds what it held.
LEMMA PutOutside ==
    ASSUME NEW buffer, NEW at, NEW data, NEW p, p \notin Overwritten(at, data)
    PROVE  /\ p \in DOMAIN Put(buffer, at, data) <=> p \in DOMAIN buffer
           /\ p \in DOMAIN buffer => Put(buffer, at, data)[p] = buffer[p]
BY DEF Put, Overwritten

\* The places data of n elements are put to.
LEMMA WrittenAre ==
    ASSUME NEW at, at \in Nat, NEW n, n \in Nat, NEW data, Sized(data, n),
           NEW p
    PROVE  p \in Overwritten(at, data) <=> p \in Nat /\ at <= p /\ p < at + n
<1>0. DOMAIN data = 0..(n - 1)
    BY DEF Sized
<1>1. ASSUME p \in Overwritten(at, data) PROVE p \in Nat /\ at <= p /\ p < at + n
    <2>1. PICK c \in DOMAIN data : p = at + c
        BY <1>1 DEF Overwritten
    <2> QED BY <1>0, <2>1
<1>2. ASSUME p \in Nat, at <= p, p < at + n PROVE p \in Overwritten(at, data)
    <2>1. p - at \in 0..(n - 1) /\ p = at + (p - at)
        BY <1>2
    <2> QED BY <1>0, <2>1 DEF Overwritten
<1> QED BY <1>1, <1>2

\* The elements of a filling.
LEMMA FillingSays ==
    ASSUME NEW stream, NEW seed, NEW n \in Nat
    PROVE  /\ DOMAIN Filling(stream, seed, n) = 0..(n - 1)
           /\ \A c \in 0..(n - 1) : Filling(stream, seed, n)[c] = <<stream, seed, c>>
BY DEF Filling

\* The elements of a slice.
LEMMA SliceSays ==
    ASSUME NEW buffer, NEW from, NEW n \in Nat
    PROVE  /\ DOMAIN Slice(buffer, from, n) = 0..(n - 1)
           /\ \A c \in 0..(n - 1) : Slice(buffer, from, n)[c] = buffer[from + c]
BY DEF Slice

-----------------------------------------------------------------------------
(* herding_screen *)

\* Two prefixes make two messages.
LEMMA HerdDiffers ==
    ASSUME NEW a, NEW b, HerdingMessage(a) = HerdingMessage(b)
    PROVE  a = b
<1>1. ASSUME NEW prefix PROVE HerdingMessage(prefix)[0] = <<"prefix", prefix, 0>>
    <2> DEFINE head == Filling("prefix", prefix, 1)
               tail == Filling("suffix", 0, 3)
    <2>1. DOMAIN head = 0..(1 - 1) /\ head[0] = <<"prefix", prefix, 0>>
        <3>1. 1 \in Nat /\ 0 \in 0..(1 - 1)
            OBVIOUS
        <3> QED BY <3>1, FillingSays
    <2>2. DOMAIN tail = 0..(3 - 1)
        BY FillingSays
    <2> HIDE DEF head, tail
    <2>3. 0 \in DOMAIN head /\ 0 \notin Overwritten(1, tail)
        BY <2>1, <2>2 DEF Overwritten
    <2>4. Put(head, 1, tail)[0] = head[0]
        BY <2>3, PutOutside
    <2> QED BY <2>1, <2>4 DEF HerdingMessage, head, tail
<1>2. <<"prefix", a, 0>> = <<"prefix", b, 0>>
    BY <1>1
<1> QED BY <1>2

\* herding_screen: the messages are the prefixes before one suffix.
LEMMA HerdingGoes ==
    ASSUME AttackIInv, Herding
    PROVE  AttackStep
<1>0. CollisionSamples \in Nat
    BY AttackAssumption
<1>1. \A at : In("herding", at) => screen = 8 /\ phase = at
    BY AtScreen
<1>2. screen = 8 /\ screen \in 1..10 /\ StepsAsked = CollisionSamples
    BY <1>1, AskedSteps DEF Herding
<1>3. CASE OutOfMemory
    BY <1>2, <1>3, OutOfMemoryGoesOn
<1>4. ASSUME screen' = screen, failed' = failed,
             phase' \in {"running", "statistics", "compared", "verdict"},
             HerdingSoFar'
      PROVE  AttackStep
    BY <1>2, <1>4, InScreen
<1> DEFINE Herd == {HerdingMessage(prefix) : prefix \in 0..CollisionSamples}
<1>5. CASE In("herding", "entered")
    <2>1. GoTo("running") /\ UNCHANGED work
        BY <1>1, <1>5 DEF Herding
    <2>2. step' = 0 /\ recorded' = << >>
        BY <1>1, <1>5, <2>1 DEF AttackIInv, ScreensSoFar, work, Nothing
    <2>3. screen' = screen /\ failed' = failed /\ phase' = "running"
        BY <2>1 DEF GoTo
    <2>4. HerdingSoFar'
        BY <1>0, <2>2, <2>3 DEF HerdingSoFar
    <2> QED BY <1>4, <2>3, <2>4
<1>6. ASSUME phase \in {"running", "compared", "verdict"}
      PROVE  /\ step \in 0..CollisionSamples
             /\ phase # "running" => step = CollisionSamples
             /\ recorded \in Seq(Herd)
             /\ Len(recorded) = step
             /\ \A i \in 1..step : recorded[i] = HerdingMessage(i - 1)
    BY <1>2, <1>6 DEF AttackIInv, HerdingSoFar
<1> HIDE DEF Herd
<1>7. CASE In("herding", "running") /\ ~AllSamples(CollisionSamples) /\ ~OutOfMemory
    <2>1. /\ first' = HerdingMessage(step)
          /\ recorded' = Append(recorded, first')
          /\ step' = step + 1
          /\ Continue
        BY <1>1, <1>7 DEF Herding
    <2>2. phase = "running" /\ screen' = screen /\ failed' = failed
          /\ phase' = "running"
        BY <1>1, <1>7, <2>1 DEF Continue
    <2>3. step + 1 \in 0..CollisionSamples /\ step \in 0..CollisionSamples
        BY <1>0, <1>6, <1>7, <2>2 DEF AllSamples
    <2>4. first' \in Herd
        BY <2>1, <2>3 DEF Herd
    <2>5. /\ recorded' \in Seq(Herd) /\ Len(recorded') = step + 1
          /\ recorded'[step + 1] = HerdingMessage(step)
          /\ \A i \in 1..step : recorded'[i] = recorded[i]
        BY <1>6, <2>1, <2>2, <2>4, AppendProperties
    <2>6. \A i \in 1..(step + 1) : recorded'[i] = HerdingMessage(i - 1)
        <3>1. ASSUME NEW i \in 1..(step + 1) PROVE recorded'[i] = HerdingMessage(i - 1)
            <4>1. CASE i = step + 1
                BY <2>3, <2>5, <4>1
            <4>2. CASE i # step + 1
                <5>1. i \in 1..step
                    BY <2>3, <4>2
                <5> QED BY <1>6, <2>2, <2>5, <5>1
            <4> QED BY <4>1, <4>2
        <3> QED BY <3>1
    <2>7. HerdingSoFar'
        BY <2>1, <2>2, <2>3, <2>5, <2>6 DEF HerdingSoFar, Herd
    <2> QED BY <1>4, <2>2, <2>7
<1>8. CASE In("herding", "running") /\ AllSamples(CollisionSamples) /\ ~OutOfMemory
    <2>1. GoTo("compared") /\ UNCHANGED <<step, recorded>>
        BY <1>1, <1>8 DEF Herding
    <2>2. phase = "running"
        BY <1>1, <1>8
    <2>3. step = CollisionSamples
        BY <1>0, <1>6, <1>8, <2>2 DEF AllSamples
    <2>4. HerdingSoFar'
        BY <1>6, <2>1, <2>2, <2>3 DEF GoTo, HerdingSoFar, Herd
    <2> QED BY <1>4, <2>1, <2>4 DEF GoTo
<1>9. CASE In("herding", "compared")
    <2>1. GoTo("verdict") /\ UNCHANGED <<step, recorded>>
        BY <1>1, <1>9 DEF Herding
    <2>2. phase = "compared"
        BY <1>1, <1>9
    <2>3. HerdingSoFar'
        BY <1>6, <2>1, <2>2 DEF GoTo, HerdingSoFar, Herd
    <2> QED BY <1>4, <2>1, <2>3 DEF GoTo
<1>10. CASE In("herding", "verdict")
    <2>1. PICK near \in BOOLEAN : Judge(NoCollision, near \/ matches > 0)
        BY <1>1, <1>10 DEF Herding
    <2>2. phase = "verdict"
        BY <1>1, <1>10
    <2>3. NoCollision = TRUE
        <3>1. DOMAIN recorded = 1..step
            BY <1>6, <2>2
        <3>2. ASSUME NEW a \in 1..step, NEW b \in 1..step, a < b
              PROVE  recorded[a] # recorded[b]
            <4>1. a - 1 # b - 1
                BY <1>0, <1>6, <2>2, <3>2
            <4> QED BY <1>6, <2>2, <4>1, HerdDiffers
        <3> QED BY <3>1, <3>2 DEF NoCollision
    <2>4. step = StepsAsked
        BY <1>2, <1>6, <2>2
    <2> QED BY <1>2, <2>1, <2>3, <2>4, JudgeGoesOn
<1> QED BY <1>3, <1>5, <1>7, <1>8, <1>9, <1>10 DEF Herding

\* A memcpy inside the first `size` elements of a buffer of that size.
LEMMA PutFits ==
    ASSUME NEW buffer, NEW at, at \in Nat, NEW n, n \in Nat, NEW data,
           NEW size, size \in Nat,
           Sized(data, n), DOMAIN buffer \subseteq 0..(size - 1),
           at + n <= size
    PROVE  DOMAIN Put(buffer, at, data) \subseteq 0..(size - 1)
<1>1. ASSUME NEW p \in DOMAIN Put(buffer, at, data) PROVE p \in 0..(size - 1)
    <2>1. CASE p \in Overwritten(at, data)
        <3>1. p \in Nat /\ p < at + n
            BY <2>1, WrittenAre
        <3> QED BY <3>1
    <2>2. CASE p \notin Overwritten(at, data)
        BY <2>2, PutOutside
    <2> QED BY <2>1, <2>2
<1> QED BY <1>1

\* A long message is the short one with leaves put in after the prefix.
LEMMA ExpandableSays ==
    ASSUME NEW buffer, DOMAIN buffer \subseteq 0..(ExpandableCapacity - 1),
           NEW other, DOMAIN other \subseteq 0..(ExpandableCapacity - 1),
           NEW sample \in Nat
    PROVE  LET short == ShortMessage(buffer, sample)
               long  == LongMessage(other, short, sample)
               extra == ExtraLeaves(sample)
           IN  /\ extra \in 1..MaxExtraLeaves
               /\ DOMAIN short \subseteq 0..(ExpandableCapacity - 1)
               /\ DOMAIN long \subseteq 0..(ExpandableCapacity - 1)
               /\ \A p \in 0..SuffixLeaves :
                      short[p] = long[IF p = 0 THEN 0 ELSE p + extra]
<1> DEFINE extra  == ExtraLeaves(sample)
           prefix == Filling("prefix", sample, 1)
           suffix == Filling("suffix", 0, SuffixLeaves)
           added  == Filling("extra", sample, extra)
           begun  == Put(buffer, 0, prefix)
           short  == Put(begun, 1, suffix)
           head   == Slice(short, 0, 1)
           copied == Put(other, 0, head)
           grown  == Put(copied, 1, added)
           long   == Put(grown, 1 + extra, suffix)
           size   == ExpandableCapacity
<1>1. extra \in 1..4 /\ SuffixLeaves = 2 /\ size = 7 /\ MaxExtraLeaves = 4
    BY DEF ExtraLeaves, MaxExtraLeaves, SuffixLeaves, ExpandableCapacity
<1>2. /\ ShortMessage(buffer, sample) = short
      /\ LongMessage(other, ShortMessage(buffer, sample), sample) = long
    BY DEF ShortMessage, LongMessage
<1> HIDE DEF extra, size
<1>3. PICK one \in Nat : one = 1
    OBVIOUS
<1>4. PICK two \in Nat : two = 2
    OBVIOUS
<1>5. PICK zero \in Nat : zero = 0
    OBVIOUS
<1>6. /\ Sized(prefix, one) /\ Sized(suffix, two)
      /\ Sized(added, extra) /\ Sized(head, one)
      /\ head[zero] = short[0 + 0]
    BY <1>1, <1>3, <1>4, <1>5 DEF Filling, Slice, Sized
<1>7. begun = Put(buffer, zero, prefix) /\ short = Put(begun, one, suffix)
      /\ copied = Put(other, zero, head) /\ grown = Put(copied, one, added)
      /\ long = Put(grown, one + extra, suffix)
    BY <1>3, <1>5
<1> HIDE DEF prefix, suffix, added, begun, short, head, copied, grown, long
<1>8. size \in Nat /\ extra \in Nat /\ one \in Nat /\ two \in Nat /\ one + extra \in Nat
      /\ zero + one <= size /\ one + two <= size /\ one + extra <= size
      /\ (one + extra) + two <= size
    BY <1>1, <1>3, <1>4, <1>5
<1>9. DOMAIN buffer \subseteq 0..(size - 1) /\ DOMAIN other \subseteq 0..(size - 1)
    BY DEF size
<1>10. DOMAIN begun \subseteq 0..(size - 1)
    BY <1>5, <1>6, <1>7, <1>8, <1>9, PutFits
<1>11. DOMAIN short \subseteq 0..(size - 1)
    BY <1>5, <1>6, <1>7, <1>8, <1>10, PutFits
<1>12. DOMAIN copied \subseteq 0..(size - 1)
    BY <1>5, <1>6, <1>7, <1>8, <1>9, PutFits
<1>13. DOMAIN grown \subseteq 0..(size - 1)
    BY <1>5, <1>6, <1>7, <1>8, <1>12, PutFits
<1>14. DOMAIN long \subseteq 0..(size - 1)
    BY <1>5, <1>6, <1>7, <1>8, <1>13, PutFits
<1>15. /\ \A p : p \in Overwritten(zero, head) <=> p = 0
       /\ \A p : p \in Overwritten(one, added) <=> p \in Nat /\ 1 <= p /\ p < 1 + extra
       /\ \A p : p \in Overwritten(one, suffix) <=> p \in Nat /\ 1 <= p /\ p < 3
       /\ \A p : p \in Overwritten(one + extra, suffix)
                     <=> p \in Nat /\ 1 + extra <= p /\ p < 3 + extra
    <2>1. one + two = 3 /\ (one + extra) + two = 3 + extra /\ zero + one = 1
        BY <1>3, <1>4, <1>5, <1>8
    <2>2. \A p : p \in Overwritten(zero, head) <=> p \in Nat /\ zero <= p /\ p < zero + one
        BY <1>3, <1>5, <1>6, WrittenAre
    <2>3. \A p : p \in Overwritten(one, added) <=> p \in Nat /\ one <= p /\ p < one + extra
        BY <1>5, <1>6, <1>8, WrittenAre
    <2>4. \A p : p \in Overwritten(one, suffix) <=> p \in Nat /\ one <= p /\ p < one + two
        BY <1>5, <1>6, <1>8, WrittenAre
    <2>5. \A p : p \in Overwritten(one + extra, suffix)
                     <=> p \in Nat /\ one + extra <= p /\ p < (one + extra) + two
        BY <1>5, <1>6, <1>8, WrittenAre
    <2> QED BY <1>3, <1>5, <1>8, <2>1, <2>2, <2>3, <2>4, <2>5
<1>16. ASSUME NEW c \in 0..1
       PROVE  short[1 + c] = suffix[c] /\ long[1 + extra + c] = suffix[c]
    <2> DEFINE p == 1 + c
               q == 1 + extra + c
    <2>1. p - one = c /\ q - (one + extra) = c
        BY <1>3, <1>8
    <2>2. p \in Overwritten(one, suffix) /\ q \in Overwritten(one + extra, suffix)
        BY <1>8, <1>15
    <2> HIDE DEF p, q
    <2>3. Put(begun, one, suffix)[p] = suffix[p - one]
        BY <2>2, PutInside
    <2>4. Put(grown, one + extra, suffix)[q] = suffix[q - (one + extra)]
        BY <2>2, PutInside
    <2> QED BY <2>1, <2>3, <2>4, <1>7 DEF p, q
<1>17. long[0] = short[0]
    <2>1. /\ 0 \in Overwritten(zero, head) /\ 0 \notin Overwritten(one, added)
          /\ 0 \notin Overwritten(one + extra, suffix)
        BY <1>8, <1>15
    <2>2. 0 \in DOMAIN copied /\ copied[0] = head[0 - zero]
        BY <2>1, <1>7, PutInside
    <2>3. 0 \in DOMAIN grown /\ grown[0] = copied[0]
        BY <2>1, <2>2, <1>7, PutOutside
    <2>4. long[0] = grown[0]
        BY <2>1, <2>3, <1>7, PutOutside
    <2>5. 0 - zero = zero /\ 0 + 0 = 0
        BY <1>5
    <2> QED BY <2>2, <2>3, <2>4, <2>5, <1>6
<1>18. ASSUME NEW p \in 0..SuffixLeaves
       PROVE  short[p] = long[IF p = 0 THEN 0 ELSE p + extra]
    <2>1. CASE p = 0
        BY <2>1, <1>17
    <2>2. CASE p # 0
        <3>1. /\ p - 1 \in 0..1 /\ 1 + (p - 1) = p
              /\ 1 + extra + (p - 1) = p + extra
            BY <1>1, <1>8, <2>2
        <3> QED BY <3>1, <2>2, <1>16
    <2> QED BY <2>1, <2>2
<1> QED BY <1>1, <1>2, <1>11, <1>14, <1>18 DEF size, extra

\* expandable_message_screen
LEMMA ExpandableGoes ==
    ASSUME AttackIInv, Expandable
    PROVE  AttackStep
<1>0. ExpandablePairs \in Nat
    BY AttackAssumption
<1>1. \A at : In("expandable_message", at) => screen = 7 /\ phase = at
    BY AtScreen
<1>2. screen = 7 /\ screen \in 1..10 /\ StepsAsked = ExpandablePairs
    BY <1>1, AskedSteps DEF Expandable
<1>3. CASE OutOfMemory
    BY <1>2, <1>3, OutOfMemoryGoesOn
<1>4. ASSUME screen' = screen, failed' = failed, phase' = "running",
             ExpandableSoFar'
      PROVE  AttackStep
    BY <1>2, <1>4, InScreen
<1>5. CASE In("expandable_message", "entered") /\ ~OutOfMemory
    <2>1. GoTo("running") /\ UNCHANGED work
        BY <1>1, <1>5 DEF Expandable
    <2>2. /\ step' = 0 /\ matches' = 0 /\ first' = Nothing
          /\ second' = Nothing
        BY <1>1, <1>5, <2>1 DEF AttackIInv, ScreensSoFar, work
    <2>3. DOMAIN Nothing = {}
        BY DEF Nothing
    <2>4. ExpandableSoFar'
        BY <1>0, <2>2, <2>3 DEF ExpandableSoFar
    <2> QED BY <1>4, <2>1, <2>4 DEF GoTo
<1>6. ASSUME phase = "running"
      PROVE  /\ step \in 0..ExpandablePairs
             /\ matches = 0
             /\ DOMAIN first \subseteq 0..(ExpandableCapacity - 1)
             /\ DOMAIN second \subseteq 0..(ExpandableCapacity - 1)
    BY <1>2, <1>6 DEF AttackIInv, ExpandableSoFar, OfScreen
<1>7. CASE /\ In("expandable_message", "running") /\ ~AllSamples(ExpandablePairs)
           /\ ~OutOfMemory
    <2> DEFINE short == ShortMessage(first, step)
               long  == LongMessage(second, short, step)
               extra == ExtraLeaves(step)
    <2>1. HashExpandable(short, long)
        BY <1>1, <1>7 DEF Expandable
    <2>2. phase = "running" /\ step \in Nat
        BY <1>0, <1>1, <1>6, <1>7
    <2>3. /\ extra \in 1..MaxExtraLeaves
          /\ DOMAIN short \subseteq 0..(ExpandableCapacity - 1)
          /\ DOMAIN long \subseteq 0..(ExpandableCapacity - 1)
          /\ \A p \in 0..SuffixLeaves :
                 short[p] = long[IF p = 0 THEN 0 ELSE p + extra]
        BY <1>6, <2>2, ExpandableSays
    <2> HIDE DEF short, long, extra
    <2>4. Slice(short, 0, 1 + SuffixLeaves)
              # Slice(long, 0, 1 + extra + SuffixLeaves)
        <3>1. /\ DOMAIN Slice(short, 0, 1 + SuffixLeaves)
                     = 0..((1 + SuffixLeaves) - 1)
              /\ DOMAIN Slice(long, 0, 1 + extra + SuffixLeaves)
                     = 0..((1 + extra + SuffixLeaves) - 1)
            BY Zenon DEF Slice
        <3>2. SuffixLeaves = 2 /\ extra \in 1..4
            BY <2>3 DEF MaxExtraLeaves, SuffixLeaves
        <3>3. /\ 3 \notin 0..((1 + SuffixLeaves) - 1)
              /\ 3 \in 0..((1 + extra + SuffixLeaves) - 1)
            BY <3>2
        <3> QED BY <3>1, <3>3
    <2>5. /\ first' = short /\ second' = long
          /\ matches' = matches + 0 /\ step' = step + 1 /\ Continue
        BY <2>1, <2>4 DEF HashExpandable, extra
    <2>6. step + 1 \in 0..ExpandablePairs /\ step + 1 > 0
        BY <1>0, <1>6, <1>7, <2>2 DEF AllSamples
    <2>7. screen' = screen /\ failed' = failed /\ phase' = "running" /\ matches' = 0
        BY <1>6, <2>2, <2>5 DEF Continue
    <2>8. ExpandableSoFar'
        BY <2>3, <2>5, <2>6, <2>7 DEF ExpandableSoFar
    <2> QED BY <1>4, <2>7, <2>8
<1>8. CASE /\ In("expandable_message", "running") /\ AllSamples(ExpandablePairs)
           /\ ~OutOfMemory
    <2>1. \E near \in BOOLEAN : Judge(matches = 0, near)
        BY <1>1, <1>8 DEF Expandable
    <2>2. phase = "running"
        BY <1>1, <1>8
    <2>3. step = StepsAsked /\ (matches = 0) = TRUE
        BY <1>0, <1>2, <1>6, <1>8, <2>2 DEF AllSamples
    <2> QED BY <1>2, <2>1, <2>3, JudgeGoesOn
<1> QED BY <1>3, <1>5, <1>7, <1>8 DEF Expandable

\* variant_reuse_screen
LEMMA ReuseGoes ==
    ASSUME AttackIInv, VariantReuse
    PROVE  AttackStep
<1>0. ReuseSamples \in Nat
    BY AttackAssumption
<1>1. \A at : In("variant_reuse", at) => screen = 10 /\ phase = at
    BY AtScreen
<1>2. screen = 10 /\ screen \in 1..10 /\ StepsAsked = ReuseSamples
    BY <1>1, AskedSteps DEF VariantReuse
<1>3. CASE OutOfMemory
    BY <1>2, <1>3, OutOfMemoryGoesOn
<1>4. ASSUME screen' = screen, failed' = failed, phase' = "running",
             ReuseSoFar'
      PROVE  AttackStep
    BY <1>2, <1>4, InScreen
<1>5. CASE In("variant_reuse", "entered") /\ ~OutOfMemory
    <2>1. GoTo("running") /\ UNCHANGED work
        BY <1>1, <1>5 DEF VariantReuse
    <2>2. step' = 0 /\ accepted' = 0 /\ sub' = 0
        BY <1>1, <1>5, <2>1 DEF AttackIInv, ScreensSoFar, work
    <2>3. ReuseSoFar'
        BY <1>0, <2>2 DEF ReuseSoFar, ReuseMaxLength
    <2> QED BY <1>4, <2>1, <2>3 DEF GoTo
<1>6. ASSUME phase = "running"
      PROVE  step \in 0..ReuseSamples /\ accepted = step
    BY <1>2, <1>6 DEF AttackIInv, ReuseSoFar, OfScreen
<1>7. CASE /\ In("variant_reuse", "running") /\ ~AllSamples(ReuseSamples)
           /\ ~OutOfMemory
    <2>1. /\ sub' = ReuseLength(step) /\ accepted' = accepted + 1
          /\ step' = step + 1 /\ Continue
        BY <1>1, <1>7 DEF VariantReuse
    <2>2. phase = "running" /\ step \in Nat
        BY <1>0, <1>1, <1>6, <1>7
    <2>3. ReuseLength(step) \in 0..ReuseMaxLength
        BY <2>2 DEF ReuseLength, ReuseMaxLength
    <2>4. step + 1 \in 0..ReuseSamples
        BY <1>0, <1>6, <1>7, <2>2 DEF AllSamples
    <2>5. ReuseSoFar'
        BY <1>6, <2>1, <2>2, <2>3, <2>4 DEF ReuseSoFar
    <2> QED BY <1>4, <2>1, <2>2, <2>5 DEF Continue
<1>8. CASE /\ In("variant_reuse", "running") /\ AllSamples(ReuseSamples)
           /\ ~OutOfMemory
    <2>1. \E near \in BOOLEAN : Judge(accepted = ReuseSamples, near)
        BY <1>1, <1>8 DEF VariantReuse
    <2>2. phase = "running"
        BY <1>1, <1>8
    <2>3. step = StepsAsked /\ (accepted = ReuseSamples) = TRUE
        BY <1>0, <1>2, <1>6, <1>8, <2>2 DEF AllSamples
    <2> QED BY <1>2, <2>1, <2>3, JudgeGoesOn
<1> QED BY <1>3, <1>5, <1>7, <1>8 DEF VariantReuse

-----------------------------------------------------------------------------
(* long_message_screen *)

\* The sizes of the long messages, as assumed.
LEMMA LongSizes ==
    /\ LongLength \in Nat /\ LongChunk \in Nat \ {0} /\ LongUnit \in Nat
    /\ FooterLength \in Nat \ {0} /\ ExtensionLength \in Nat \ {0}
    /\ 2 <= LongUnit /\ LongUnit <= LongChunk /\ 9 * LongChunk <= LongLength
    /\ FooterLength + ExtensionLength <= 2 * LongUnit
    /\ WorkLength = LongLength + 2 * LongUnit /\ WorkLength \in Nat
<1>1. LongLength >= 9 * LongChunk /\ 2 <= LongUnit /\ LongUnit <= LongChunk
      /\ FooterLength + ExtensionLength <= 2 * LongUnit
    BY MessageAssumption
<1>2. LongLength \in Nat /\ LongChunk \in Nat \ {0} /\ LongUnit \in Nat
      /\ FooterLength \in Nat \ {0} /\ ExtensionLength \in Nat \ {0}
    BY MessageAssumption
<1> QED BY <1>1, <1>2 DEF WorkLength

\* What every variant hashes.
LEMMA LongVariantIs ==
    ASSUME NEW held
    PROVE  LET L      == LongLength
               copied == Put(held, 0, LongBase)
               back   == L - 2 * LongChunk
           IN
           /\ LongVariant(1, held) = Hashed(LongBase, L)
           /\ LongVariant(2, held) = Hashed(Put(copied, L, Value(1, 1)), L + 1)
           /\ LongVariant(3, held) =
                  Hashed(Put(copied, L, Filling("suffix", 0, LongUnit)),
                         L + LongUnit)
           /\ LongVariant(4, held) = Hashed(LongBase, L - 1)
           /\ LongVariant(5, held) = Hashed(LongBase, L - LongUnit)
           /\ LongVariant(6, held) =
                  Hashed(Put(Put(held, 0, Filling("prefix", 0, LongUnit)),
                             LongUnit, LongBase), L + LongUnit)
           /\ LongVariant(7, held) =
                  Hashed(Put(Put(copied, L, Footer), L + FooterLength, Extension),
                         L + FooterLength + ExtensionLength)
           /\ LongVariant(8, held) =
                  Hashed(Put(copied, L, Extension), L + ExtensionLength)
           /\ LongVariant(9, held) =
                  Hashed(Exchange(copied, LongChunk, back, LongChunk), L)
           /\ LongVariant(10, held) =
                  Hashed(Put(copied, 3 * LongChunk,
                             Slice(LongBase, 7 * LongChunk, LongChunk)), L)
           /\ LongVariant(11, held) =
                  Hashed(Put(Put(copied, 0, Slice(copied, LongChunk,
                                                  L - LongChunk)),
                             L - LongChunk, Slice(copied, 0, LongChunk)), L)
           /\ LongVariant(12, held) = Hashed(FlipBoundaries(copied), L)
           /\ LongVariant(13, held) = Hashed(Put(held, 0, Value(0, L)), L)
           /\ LongVariant(14, held) = Hashed(Put(held, 0, Value(255, L)), L)
           /\ LongVariant(15, held) = Hashed(Put(held, 0, Pattern), L)
BY DEF LongVariant

\* Two buffers hold the same n bytes.
Alike(one, other, n) ==
    \A p \in 0..(n - 1) :
        p \in DOMAIN one /\ p \in DOMAIN other /\ one[p] = other[p]

\* Buffers that begin alike still do after the same data are put into both.
LEMMA AlikePut ==
    ASSUME NEW one, NEW other, NEW n, n \in Nat, Alike(one, other, n),
           NEW at, at \in Nat, at <= n, NEW k, k \in Nat,
           NEW data, Sized(data, k),
           NEW m, m \in Nat, m <= n \/ m <= at + k
    PROVE  Alike(Put(one, at, data), Put(other, at, data), m)
<1>1. ASSUME NEW p \in 0..(m - 1)
      PROVE  /\ p \in DOMAIN Put(one, at, data) /\ p \in DOMAIN Put(other, at, data)
             /\ Put(one, at, data)[p] = Put(other, at, data)[p]
    <2>1. CASE p \in Overwritten(at, data)
        BY <2>1, PutInside
    <2>2. CASE p \notin Overwritten(at, data)
        <3>0. p \in Nat
            OBVIOUS
        <3>4. p \in Overwritten(at, data) <=> p \in Nat /\ at <= p /\ p < at + k
            BY WrittenAre
        <3>1. ~(at <= p /\ p < at + k)
            BY <2>2, <3>0, <3>4
        <3>2. p \in 0..(n - 1)
            BY <3>1
        <3>3. p \in DOMAIN one /\ p \in DOMAIN other /\ one[p] = other[p]
            BY <3>2 DEF Alike
        <3> QED BY <2>2, <3>3, PutOutside
    <2> QED BY <2>1, <2>2
<1> QED BY <1>1 DEF Alike

\* Slices of buffers that begin alike are the same.
LEMMA AlikeSlice ==
    ASSUME NEW one, NEW other, NEW n, n \in Nat, Alike(one, other, n),
           NEW from, from \in Nat, NEW k, k \in Nat, from + k <= n
    PROVE  Slice(one, from, k) = Slice(other, from, k)
<1>1. ASSUME NEW c \in 0..(k - 1) PROVE one[from + c] = other[from + c]
    <2>1. from + c \in 0..(n - 1)
        OBVIOUS
    <2> QED BY <2>1 DEF Alike
<1> QED BY <1>1 DEF Slice

\* Buffers that begin alike do so for any shorter length.
LEMMA AlikeLess ==
    ASSUME NEW one, NEW other, NEW n, n \in Nat, Alike(one, other, n),
           NEW m, m \in Nat, m <= n
    PROVE  Alike(one, other, m)
<1>1. \A p \in 0..(m - 1) : p \in 0..(n - 1)
    OBVIOUS
<1> QED BY <1>1 DEF Alike

\* The data the long variants are made of have their sizes.
LEMMA LongData ==
    /\ Sized(LongBase, LongLength) /\ Sized(Pattern, LongLength)
    /\ Sized(Footer, FooterLength) /\ Sized(Extension, ExtensionLength)
    /\ \A v, n : Sized(Value(v, n), n)
    /\ \A s, t, n : Sized(Filling(s, t, n), n)
    /\ \A b, f, n : Sized(Slice(b, f, n), n)
BY DEF LongBase, Footer, Extension, Pattern, Value, Filling, Slice, Sized

\* Whatever the work buffer held, a variant hashes the same message.
LEMMA LongHashesSame ==
    ASSUME NEW v \in 1..15, NEW held, NEW other
    PROVE  /\ LongVariant(v, held).length = LongVariant(v, other).length
           /\ Message(LongVariant(v, held)) = Message(LongVariant(v, other))
<1> DEFINE L == LongLength
           H == Put(held, 0, LongBase)
           O == Put(other, 0, LongBase)
           back == L - 2 * LongChunk
<1>1. /\ L \in Nat /\ 0 \in Nat /\ 1 \in Nat
      /\ back \in Nat /\ L - LongChunk \in Nat /\ L + 1 \in Nat
      /\ L - 1 \in Nat /\ L - LongUnit \in Nat
      /\ L + LongUnit \in Nat /\ L + FooterLength \in Nat
      /\ L + ExtensionLength \in Nat /\ L + FooterLength + ExtensionLength \in Nat
      /\ 3 * LongChunk \in Nat /\ 7 * LongChunk \in Nat
      /\ LongChunk \in Nat /\ LongUnit \in Nat
      /\ FooterLength \in Nat /\ ExtensionLength \in Nat
    BY LongSizes
<1> DEFINE Same2(x, y, n) ==
              /\ Hashed(x, n).length = Hashed(y, n).length
              /\ Message(Hashed(x, n)) = Message(Hashed(y, n))
<1>2. ASSUME NEW x, NEW y, NEW n, n \in Nat, Alike(x, y, n)
      PROVE  Same2(x, y, n)
    <2>1. Slice(x, 0, n) = Slice(y, 0, n)
        BY <1>2, AlikeSlice
    <2> QED BY <2>1 DEF Message, Hashed
<1>3. Alike(held, other, 0)
    BY DEF Alike
<1>4. Alike(H, O, L)
    BY <1>1, <1>3, LongData, AlikePut
<1> HIDE DEF H, O
<1>5. Same2(Put(H, L, Value(1, 1)), Put(O, L, Value(1, 1)), L + 1)
    <2>1. Sized(Value(1, 1), 1) /\ L <= L /\ L + 1 <= L + 1
        BY <1>1, LongData
    <2>2. Alike(Put(H, L, Value(1, 1)), Put(O, L, Value(1, 1)), L + 1)
        BY <1>1, <1>4, <2>1, AlikePut
    <2> QED BY <1>1, <1>2, <2>2
<1>6. Same2(Put(H, L, Filling("suffix", 0, LongUnit)),
            Put(O, L, Filling("suffix", 0, LongUnit)), L + LongUnit)
    <2>1. Sized(Filling("suffix", 0, LongUnit), LongUnit) /\ L <= L
          /\ L + LongUnit <= L + LongUnit
        BY <1>1, LongData
    <2>2. Alike(Put(H, L, Filling("suffix", 0, LongUnit)),
                Put(O, L, Filling("suffix", 0, LongUnit)), L + LongUnit)
        BY <1>1, <1>4, <2>1, AlikePut
    <2> QED BY <1>1, <1>2, <2>2
<1>7. Same2(Put(Put(held, 0, Filling("prefix", 0, LongUnit)), LongUnit, LongBase),
            Put(Put(other, 0, Filling("prefix", 0, LongUnit)), LongUnit, LongBase),
            L + LongUnit)
    <2> DEFINE h == Put(held, 0, Filling("prefix", 0, LongUnit))
               o == Put(other, 0, Filling("prefix", 0, LongUnit))
    <2>1. Sized(Filling("prefix", 0, LongUnit), LongUnit)
        BY LongData
    <2>2. Alike(h, o, LongUnit)
        BY <1>1, <1>3, <2>1, AlikePut
    <2> HIDE DEF h, o
    <2>3. L + LongUnit <= LongUnit + L /\ LongUnit <= LongUnit
        BY <1>1
    <2>4. Alike(Put(h, LongUnit, LongBase), Put(o, LongUnit, LongBase), L + LongUnit)
        BY <1>1, <2>2, <2>3, LongData, AlikePut
    <2> QED BY <1>1, <1>2, <2>4 DEF h, o
<1>8. Same2(Put(Put(H, L, Footer), L + FooterLength, Extension),
            Put(Put(O, L, Footer), L + FooterLength, Extension),
            L + FooterLength + ExtensionLength)
    <2> DEFINE h == Put(H, L, Footer)
               o == Put(O, L, Footer)
               n == L + FooterLength
    <2>1. n \in Nat /\ L <= L /\ n <= L + FooterLength
        BY <1>1
    <2>2. Alike(h, o, n)
        BY <1>1, <1>4, <2>1, LongData, AlikePut
    <2> HIDE DEF h, o
    <2>3. n + ExtensionLength = L + FooterLength + ExtensionLength /\ n <= n
          /\ n + ExtensionLength \in Nat
        BY <1>1
    <2> HIDE DEF n
    <2>4. Alike(Put(h, n, Extension), Put(o, n, Extension), n + ExtensionLength)
        BY <1>1, <2>1, <2>2, <2>3, LongData, AlikePut
    <2>5. Same2(Put(h, n, Extension), Put(o, n, Extension), n + ExtensionLength)
        BY <1>2, <2>3, <2>4
    <2> QED BY <2>3, <2>5 DEF h, o, n
<1>9. Same2(Put(H, L, Extension), Put(O, L, Extension), L + ExtensionLength)
    <2>1. L <= L /\ L + ExtensionLength <= L + ExtensionLength
        BY <1>1
    <2>2. Alike(Put(H, L, Extension), Put(O, L, Extension), L + ExtensionLength)
        BY <1>1, <1>4, <2>1, LongData, AlikePut
    <2> QED BY <1>1, <1>2, <2>2
<1>10. Same2(Exchange(H, LongChunk, back, LongChunk),
             Exchange(O, LongChunk, back, LongChunk), L)
    <2> DEFINE far  == Slice(H, back, LongChunk)
               near == Slice(H, LongChunk, LongChunk)
               h == Put(H, LongChunk, far)
               o == Put(O, LongChunk, far)
    <2>1. /\ back + LongChunk <= L /\ LongChunk + LongChunk <= L
          /\ back <= L /\ LongChunk <= L /\ L <= L
        BY LongSizes
    <2>2. far = Slice(O, back, LongChunk) /\ near = Slice(O, LongChunk, LongChunk)
        BY <1>1, <1>4, <2>1, AlikeSlice
    <2>3. Sized(far, LongChunk) /\ Sized(near, LongChunk)
        BY LongData
    <2> HIDE DEF far, near
    <2>4. Alike(h, o, L)
        BY <1>1, <1>4, <2>1, <2>3, AlikePut
    <2> HIDE DEF h, o
    <2>5. Alike(Put(h, back, near), Put(o, back, near), L)
        BY <1>1, <2>1, <2>3, <2>4, AlikePut
    <2>6. /\ Exchange(H, LongChunk, back, LongChunk) = Put(h, back, near)
          /\ Exchange(O, LongChunk, back, LongChunk) = Put(o, back, near)
        BY <2>2 DEF Exchange, h, o, far, near
    <2> QED BY <1>1, <1>2, <2>5, <2>6
<1>11. Same2(Put(H, 3 * LongChunk, Slice(LongBase, 7 * LongChunk, LongChunk)),
             Put(O, 3 * LongChunk, Slice(LongBase, 7 * LongChunk, LongChunk)), L)
    <2> DEFINE data == Slice(LongBase, 7 * LongChunk, LongChunk)
    <2>1. 3 * LongChunk <= L /\ L <= L
        BY LongSizes
    <2>2. Sized(data, LongChunk)
        BY LongData
    <2> HIDE DEF data
    <2>3. Alike(Put(H, 3 * LongChunk, data), Put(O, 3 * LongChunk, data), L)
        BY <1>1, <1>4, <2>1, <2>2, AlikePut
    <2> QED BY <1>1, <1>2, <2>3 DEF data
<1>12. Same2(Put(Put(H, 0, Slice(H, LongChunk, L - LongChunk)), L - LongChunk,
                 Slice(H, 0, LongChunk)),
             Put(Put(O, 0, Slice(O, LongChunk, L - LongChunk)), L - LongChunk,
                 Slice(O, 0, LongChunk)), L)
    <2> DEFINE rest == L - LongChunk
               tail == Slice(H, LongChunk, rest)
               head == Slice(H, 0, LongChunk)
               h == Put(H, 0, tail)
               o == Put(O, 0, tail)
    <2>1. rest \in Nat /\ LongChunk + rest <= L /\ 0 + LongChunk <= L /\ rest <= L
          /\ 0 <= L /\ L <= L
        BY <1>1, LongSizes
    <2>2. tail = Slice(O, LongChunk, rest) /\ head = Slice(O, 0, LongChunk)
        BY <1>1, <1>4, <2>1, AlikeSlice
    <2>3. Sized(tail, rest) /\ Sized(head, LongChunk)
        BY LongData
    <2> HIDE DEF tail, head, rest
    <2>4. Alike(h, o, L)
        BY <1>1, <1>4, <2>1, <2>3, AlikePut
    <2> HIDE DEF h, o
    <2>5. Alike(Put(h, rest, head), Put(o, rest, head), L)
        BY <1>1, <2>1, <2>3, <2>4, AlikePut
    <2>6. Same2(Put(h, rest, head), Put(o, rest, head), L)
        BY <1>1, <1>2, <2>5
    <2> QED BY <2>2, <2>6 DEF h, o, tail, head, rest
<1>13. Same2(FlipBoundaries(H), FlipBoundaries(O), L)
    <2>1. Alike(FlipBoundaries(H), FlipBoundaries(O), L)
        BY <1>4 DEF Alike, FlipBoundaries
    <2> QED BY <1>1, <1>2, <2>1
<1>14. ASSUME NEW data, Sized(data, L)
       PROVE  Same2(Put(held, 0, data), Put(other, 0, data), L)
    <2>1. L <= 0 + L /\ 0 <= 0
        BY <1>1
    <2>2. Alike(Put(held, 0, data), Put(other, 0, data), L)
        BY <1>1, <1>3, <1>14, <2>1, AlikePut
    <2> QED BY <1>1, <1>2, <2>2
<1>15. /\ Same2(Put(held, 0, Value(0, L)), Put(other, 0, Value(0, L)), L)
       /\ Same2(Put(held, 0, Value(255, L)), Put(other, 0, Value(255, L)), L)
       /\ Same2(Put(held, 0, Pattern), Put(other, 0, Pattern), L)
    BY <1>14, LongData
<1>16. /\ v \in {1, 4, 5} => LongVariant(v, held) = LongVariant(v, other)
    <2>1. CASE v = 1 BY <2>1, LongVariantIs
    <2>2. CASE v = 4 BY <2>2, LongVariantIs
    <2>3. CASE v = 5 BY <2>3, LongVariantIs
    <2> QED BY <2>1, <2>2, <2>3
<1> DEFINE Goal(w) ==
              /\ LongVariant(w, held).length = LongVariant(w, other).length
              /\ Message(LongVariant(w, held)) = Message(LongVariant(w, other))
<1>17. Goal(2) BY <1>5, LongVariantIs DEF H, O
<1>18. Goal(3) BY <1>6, LongVariantIs DEF H, O
<1>19. Goal(6) BY <1>7, LongVariantIs DEF H, O
<1>20. Goal(7) BY <1>8, LongVariantIs DEF H, O
<1>21. Goal(8) BY <1>9, LongVariantIs DEF H, O
<1>22. Goal(9) BY <1>10, LongVariantIs DEF H, O
<1>23. Goal(10) BY <1>11, LongVariantIs DEF H, O
<1>24. Goal(11) BY <1>12, LongVariantIs DEF H, O
<1>25. Goal(12) BY <1>13, LongVariantIs DEF H, O
<1>26. Goal(13) /\ Goal(14) /\ Goal(15) BY <1>15, LongVariantIs DEF H, O
<1> QED
    <2>1. \/ v \in {1, 4, 5} \/ v = 2 \/ v = 3 \/ v = 6 \/ v = 7 \/ v = 8 \/ v = 9
          \/ v = 10 \/ v = 11 \/ v = 12 \/ v = 13 \/ v = 14 \/ v = 15
        OBVIOUS
    <2>2. Goal(v)
        BY <2>1, <1>16, <1>17, <1>18, <1>19, <1>20, <1>21, <1>22, <1>23, <1>24,
           <1>25, <1>26
    <2> QED BY <2>2

\* Element c of n lands at place p when they are put at `at`; p stays as it is.
Lands(at, n, c, p) == at \in Nat /\ n \in Nat /\ c \in 0..(n - 1) /\ p = at + c
Stays(at, n, p) == at \in Nat /\ n \in Nat /\ p \in Nat /\ (p < at \/ at + n <= p)

\* A place the data land at holds their element.
LEMMA PutAt ==
    ASSUME NEW buffer, NEW at, NEW n, NEW data, Sized(data, n),
           NEW c, NEW p, Lands(at, n, c, p)
    PROVE  p \in DOMAIN Put(buffer, at, data) /\ Put(buffer, at, data)[p] = data[c]
<1>1. p \in Nat /\ at <= p /\ p < at + n /\ p - at = c /\ at \in Nat /\ n \in Nat
    BY DEF Lands
<1>2. p \in Overwritten(at, data)
    BY <1>1, WrittenAre
<1> QED BY <1>1, <1>2, PutInside

\* A place the data do not reach stays as it was.
LEMMA PutElse ==
    ASSUME NEW buffer, NEW at, NEW n, NEW data, Sized(data, n),
           NEW p \in DOMAIN buffer, Stays(at, n, p)
    PROVE  p \in DOMAIN Put(buffer, at, data) /\ Put(buffer, at, data)[p] = buffer[p]
<1>1. ~(p \in Nat /\ at <= p /\ p < at + n) /\ at \in Nat /\ n \in Nat
    BY DEF Stays
<1>2. p \notin Overwritten(at, data)
    BY <1>1, WrittenAre
<1> QED BY <1>2, PutOutside

\* The work buffer has room for every variant.
LEMMA LongFits ==
    ASSUME NEW v \in 1..15, v \notin FromBase, NEW held,
           DOMAIN held \subseteq 0..(WorkLength - 1)
    PROVE  DOMAIN LongVariant(v, held).work \subseteq 0..(WorkLength - 1)
<1> DEFINE L == LongLength
           H == Put(held, 0, LongBase)
           back == L - 2 * LongChunk
           fits(b) == DOMAIN b \subseteq 0..(WorkLength - 1)
<1>1. /\ L \in Nat /\ 0 \in Nat /\ 1 \in Nat /\ WorkLength \in Nat
      /\ back \in Nat /\ L - LongChunk \in Nat
      /\ L + FooterLength \in Nat /\ 3 * LongChunk \in Nat
      /\ LongChunk \in Nat /\ LongUnit \in Nat
      /\ FooterLength \in Nat /\ ExtensionLength \in Nat
    BY LongSizes
<1>2. /\ 0 + L <= WorkLength /\ L + 1 <= WorkLength /\ L + LongUnit <= WorkLength
      /\ 0 + LongUnit <= WorkLength /\ LongUnit + L <= WorkLength
      /\ L + FooterLength <= WorkLength
      /\ (L + FooterLength) + ExtensionLength <= WorkLength
      /\ L + ExtensionLength <= WorkLength
      /\ LongChunk + LongChunk <= WorkLength /\ back + LongChunk <= WorkLength
      /\ 3 * LongChunk + LongChunk <= WorkLength
      /\ 0 + (L - LongChunk) <= WorkLength
      /\ (L - LongChunk) + LongChunk <= WorkLength
    BY LongSizes
<1>3. ASSUME NEW b, fits(b), NEW at, at \in Nat, NEW n, n \in Nat, at + n <= WorkLength,
             NEW data, Sized(data, n)
      PROVE  fits(Put(b, at, data))
    BY <1>1, <1>3, PutFits
<1> HIDE DEF fits
<1>4. fits(held)
    BY DEF fits
<1>5. fits(H)
    BY <1>1, <1>2, <1>3, <1>4, LongData
<1> HIDE DEF H
<1>6. fits(Put(H, L, Value(1, 1)))
    <2>1. Sized(Value(1, 1), 1)
        BY LongData
    <2> QED BY <1>1, <1>2, <1>3, <1>5, <2>1
<1>7. fits(Put(H, L, Filling("suffix", 0, LongUnit)))
    <2>1. Sized(Filling("suffix", 0, LongUnit), LongUnit)
        BY LongData
    <2> QED BY <1>1, <1>2, <1>3, <1>5, <2>1
<1>8. fits(Put(Put(held, 0, Filling("prefix", 0, LongUnit)), LongUnit, LongBase))
    <2>1. Sized(Filling("prefix", 0, LongUnit), LongUnit)
        BY LongData
    <2>2. fits(Put(held, 0, Filling("prefix", 0, LongUnit)))
        BY <1>1, <1>2, <1>3, <1>4, <2>1
    <2> QED BY <1>1, <1>2, <1>3, <2>2, LongData
<1>9. fits(Put(Put(H, L, Footer), L + FooterLength, Extension))
    <2>1. fits(Put(H, L, Footer))
        BY <1>1, <1>2, <1>3, <1>5, LongData
    <2> QED BY <1>1, <1>2, <1>3, <2>1, LongData
<1>10. fits(Put(H, L, Extension))
    BY <1>1, <1>2, <1>3, <1>5, LongData
<1>11. fits(Exchange(H, LongChunk, back, LongChunk))
    <2> DEFINE far  == Slice(H, back, LongChunk)
               near == Slice(H, LongChunk, LongChunk)
    <2>1. Sized(far, LongChunk) /\ Sized(near, LongChunk)
        BY LongData
    <2> HIDE DEF far, near
    <2>2. fits(Put(H, LongChunk, far))
        BY <1>1, <1>2, <1>3, <1>5, <2>1
    <2>3. fits(Put(Put(H, LongChunk, far), back, near))
        BY <1>1, <1>2, <1>3, <2>1, <2>2
    <2> QED BY <2>3 DEF Exchange, far, near
<1>12. fits(Put(H, 3 * LongChunk, Slice(LongBase, 7 * LongChunk, LongChunk)))
    <2> DEFINE data == Slice(LongBase, 7 * LongChunk, LongChunk)
    <2>1. Sized(data, LongChunk)
        BY LongData
    <2> HIDE DEF data
    <2>2. fits(Put(H, 3 * LongChunk, data))
        BY <1>1, <1>2, <1>3, <1>5, <2>1
    <2> QED BY <2>2 DEF data
<1>13. fits(Put(Put(H, 0, Slice(H, LongChunk, L - LongChunk)), L - LongChunk,
                Slice(H, 0, LongChunk)))
    <2> DEFINE rest == L - LongChunk
               tail == Slice(H, LongChunk, rest)
               head == Slice(H, 0, LongChunk)
    <2>1. Sized(tail, rest) /\ Sized(head, LongChunk)
        BY LongData
    <2>2. rest \in Nat /\ 0 + rest <= WorkLength /\ rest + LongChunk <= WorkLength
        BY <1>1, <1>2
    <2> HIDE DEF tail, head, rest
    <2>3. fits(Put(H, 0, tail))
        BY <1>1, <1>2, <1>3, <1>5, <2>1, <2>2
    <2>4. fits(Put(Put(H, 0, tail), rest, head))
        BY <1>1, <1>2, <1>3, <2>1, <2>2, <2>3
    <2> QED BY <2>4 DEF tail, head, rest
<1>14. fits(FlipBoundaries(H))
    BY <1>5 DEF fits, FlipBoundaries
<1>15. /\ fits(Put(held, 0, Value(0, L))) /\ fits(Put(held, 0, Value(255, L)))
       /\ fits(Put(held, 0, Pattern))
    <2>1. Sized(Value(0, L), L) /\ Sized(Value(255, L), L) /\ Sized(Pattern, L)
        BY LongData
    <2> QED BY <1>1, <1>2, <1>3, <1>4, <2>1
<1>16. \A x, n : Hashed(x, n).work = x
    BY DEF Hashed
<1> DEFINE goal(w) == fits(LongVariant(w, held).work)
<1>17. goal(2) /\ goal(3) /\ goal(6)
    BY <1>6, <1>7, <1>8, <1>16, LongVariantIs DEF H
<1>18. goal(7) /\ goal(8) /\ goal(9)
    BY <1>9, <1>10, <1>11, <1>16, LongVariantIs DEF H
<1>19. goal(10) /\ goal(11) /\ goal(12)
    BY <1>12, <1>13, <1>14, <1>16, LongVariantIs DEF H
<1>20. goal(13) /\ goal(14) /\ goal(15)
    BY <1>15, <1>16, LongVariantIs
<1>21. goal(v)
    <2>1. v \in {2, 3, 6} \/ v \in {7, 8, 9} \/ v \in {10, 11, 12}
          \/ v \in {13, 14, 15}
        BY DEF FromBase
    <2> HIDE DEF goal
    <2> QED BY <2>1, <1>17, <1>18, <1>19, <1>20
<1> QED BY <1>21 DEF fits

\* The length of a variant, and an element of it.
LongSize(v) == LongVariant(v, Nothing).length
LongByte(v, p) == LongVariant(v, Nothing).work[p]

\* The lengths of the fifteen variants.
LEMMA LongSizeIs ==
    /\ \A v \in {1, 9, 10, 11, 12, 13, 14, 15} : LongSize(v) = LongLength
    /\ LongSize(2) = LongLength + 1
    /\ LongSize(3) = LongLength + LongUnit
    /\ LongSize(4) = LongLength - 1
    /\ LongSize(5) = LongLength - LongUnit
    /\ LongSize(6) = LongLength + LongUnit
    /\ LongSize(7) = LongLength + FooterLength + ExtensionLength
    /\ LongSize(8) = LongLength + ExtensionLength
<1>1. \A x, n : Hashed(x, n).length = n
    BY DEF Hashed
<1>2. /\ LongSize(1) = LongLength /\ LongSize(9) = LongLength
      /\ LongSize(10) = LongLength /\ LongSize(11) = LongLength
    BY <1>1, LongVariantIs DEF LongSize
<1>3. /\ LongSize(12) = LongLength /\ LongSize(13) = LongLength
      /\ LongSize(14) = LongLength /\ LongSize(15) = LongLength
    BY <1>1, LongVariantIs DEF LongSize
<1>4. /\ LongSize(2) = LongLength + 1
      /\ LongSize(3) = LongLength + LongUnit
      /\ LongSize(4) = LongLength - 1
      /\ LongSize(5) = LongLength - LongUnit
    BY <1>1, LongVariantIs DEF LongSize
<1>5. /\ LongSize(6) = LongLength + LongUnit
      /\ LongSize(7) = LongLength + FooterLength + ExtensionLength
      /\ LongSize(8) = LongLength + ExtensionLength
    BY <1>1, LongVariantIs DEF LongSize
<1> QED BY <1>2, <1>3, <1>4, <1>5

\* Two messages of other lengths, or with another element, are others.
LEMMA LongTold ==
    ASSUME NEW a \in 1..15, NEW b \in 1..15,
           LongSize(a) \in Nat, LongSize(b) \in Nat,
           \/ LongSize(a) # LongSize(b)
           \/ \E p \in Nat : /\ p < LongSize(a) /\ p < LongSize(b)
                             /\ LongByte(a, p) # LongByte(b, p)
    PROVE  LongSays(a) # LongSays(b)
<1>1. \A v : DOMAIN LongSays(v) = 0..(LongSize(v) - 1)
    BY DEF LongSays, Message, Slice, LongSize
<1>2. \A v, p : p \in 0..(LongSize(v) - 1) => LongSays(v)[p] = LongByte(v, 0 + p)
    BY DEF LongSays, Message, Slice, LongSize, LongByte
<1>3. CASE LongSize(a) # LongSize(b)
    <2>1. 0..(LongSize(a) - 1) # 0..(LongSize(b) - 1)
        <3>1. CASE LongSize(a) < LongSize(b)
            <4>1. /\ LongSize(a) \in 0..(LongSize(b) - 1)
                  /\ LongSize(a) \notin 0..(LongSize(a) - 1)
                BY <3>1
            <4> QED BY <4>1
        <3>2. CASE LongSize(b) < LongSize(a)
            <4>1. /\ LongSize(b) \in 0..(LongSize(a) - 1)
                  /\ LongSize(b) \notin 0..(LongSize(b) - 1)
                BY <3>2
            <4> QED BY <4>1
        <3> QED BY <1>3, <3>1, <3>2
    <2> QED BY <1>1, <2>1
<1>4. ASSUME NEW p \in Nat, p < LongSize(a), p < LongSize(b),
             LongByte(a, p) # LongByte(b, p)
      PROVE  LongSays(a) # LongSays(b)
    <2>1. p \in 0..(LongSize(a) - 1) /\ p \in 0..(LongSize(b) - 1) /\ 0 + p = p
        BY <1>4
    <2> QED BY <1>2, <1>4, <2>1
<1> QED BY <1>3, <1>4

\* The elements that tell the variants apart.
LEMMA LongBytes ==
    LET L == LongLength
        B(p) == <<"base", 0, p>>
        V(x) == <<"value", x>>
        near == LongUnit - 1
    IN
    /\ LongByte(1, 0) = B(0) /\ LongByte(1, near) = B(near)
    /\ LongByte(1, LongChunk) = B(LongChunk)
    /\ LongByte(1, 3 * LongChunk) = B(3 * LongChunk)
    /\ LongByte(2, L) = V(1)
    /\ LongByte(3, 0) = B(0) /\ LongByte(3, L) = <<"suffix", 0, 0>>
    /\ LongByte(6, 0) = <<"prefix", 0, 0>>
    /\ LongByte(7, 0) = B(0) /\ LongByte(7, L) = V(128)
    /\ LongByte(8, 0) = B(0) /\ LongByte(8, L) = <<"extension", 0, 0>>
    /\ LongByte(9, 0) = B(0) /\ LongByte(9, near) = B(near)
    /\ LongByte(9, LongChunk) = B(L - 2 * LongChunk)
    /\ LongByte(10, 0) = B(0) /\ LongByte(10, near) = B(near)
    /\ LongByte(10, LongChunk) = B(LongChunk)
    /\ LongByte(10, 3 * LongChunk) = B(7 * LongChunk)
    /\ LongByte(11, 0) = B(LongChunk)
    /\ LongByte(11, near) = B(LongChunk + near)
    /\ LongByte(12, near) = <<"flipped", near>>
    /\ \A p \in 0..(L - 1) : LongByte(13, p) = V(0) /\ LongByte(14, p) = V(255)
    /\ LongByte(15, 0) = V(0) /\ LongByte(15, 1) = V(131)
    /\ \E x \in Nat : LongByte(15, near) = V(x)
<1> DEFINE L == LongLength
           B(p) == <<"base", 0, p>>
           V(x) == <<"value", x>>
           near == LongUnit - 1
           back == L - 2 * LongChunk
           H == Put(Nothing, 0, LongBase)
<1>1. /\ L \in Nat /\ 0 \in Nat /\ 1 \in Nat /\ near \in Nat /\ back \in Nat
      /\ LongChunk \in Nat /\ LongUnit \in Nat /\ FooterLength \in Nat
      /\ ExtensionLength \in Nat /\ L + FooterLength \in Nat
      /\ L - LongChunk \in Nat /\ 3 * LongChunk \in Nat /\ 7 * LongChunk \in Nat
    BY LongSizes
<1>2. \A x, n : Hashed(x, n).work = x
    BY DEF Hashed
<1>3. ASSUME NEW p \in 0..(L - 1) PROVE LongBase[p] = B(p)
    BY DEF LongBase, Filling
<1>4. ASSUME NEW p \in 0..(L - 1) PROVE p \in DOMAIN H /\ H[p] = B(p)
    <2>1. Lands(0, L, p, p)
        BY <1>1 DEF Lands
    <2> QED BY <1>3, <2>1, LongData, PutAt
<1> HIDE DEF H
<1>5. /\ 0 \in 0..(L - 1) /\ near \in 0..(L - 1) /\ LongChunk \in 0..(L - 1)
      /\ 3 * LongChunk \in 0..(L - 1) /\ 7 * LongChunk \in 0..(L - 1)
      /\ back \in 0..(L - 1) /\ LongChunk + near \in 0..(L - 1) /\ 1 \in 0..(L - 1)
      /\ near < LongChunk
    BY LongSizes
<1>6. /\ LongByte(1, 0) = B(0) /\ LongByte(1, near) = B(near)
      /\ LongByte(1, LongChunk) = B(LongChunk)
      /\ LongByte(1, 3 * LongChunk) = B(3 * LongChunk)
    <2>1. LongVariant(1, Nothing).work = LongBase
        BY <1>2, LongVariantIs
    <2> QED BY <1>3, <1>5, <2>1 DEF LongByte
<1>0. /\ 0 \in DOMAIN H /\ near \in DOMAIN H /\ LongChunk \in DOMAIN H
      /\ H[0] = B(0) /\ H[near] = B(near) /\ H[LongChunk] = B(LongChunk)
      /\ H[back] = B(back) /\ H[LongChunk + near] = B(LongChunk + near)
    BY <1>4, <1>5
<1>7. LongByte(2, L) = V(1)
    <2>1. LongVariant(2, Nothing).work = Put(H, L, Value(1, 1))
        BY <1>2, LongVariantIs DEF H
    <2>2. Sized(Value(1, 1), 1)
        BY LongData
    <2>3. Lands(L, 1, 0, L)
        BY <1>1 DEF Lands
    <2>4. Put(H, L, Value(1, 1))[L] = Value(1, 1)[0]
        BY <2>2, <2>3, PutAt
    <2>5. Value(1, 1)[0] = V(1)
        BY DEF Value
    <2> QED BY <2>1, <2>4, <2>5 DEF LongByte
<1>8. LongByte(3, 0) = B(0) /\ LongByte(3, L) = <<"suffix", 0, 0>>
    <2> DEFINE data == Filling("suffix", 0, LongUnit)
    <2>1. LongVariant(3, Nothing).work = Put(H, L, data)
        BY <1>2, LongVariantIs DEF H
    <2>2. Sized(data, LongUnit)
        BY LongData
    <2>3. data[0] = <<"suffix", 0, 0>>
        <3>1. 0 \in 0..(LongUnit - 1)
            BY LongSizes
        <3> QED BY <3>1 DEF Filling
    <2> HIDE DEF data
    <2>4. Lands(L, LongUnit, 0, L)
        BY LongSizes DEF Lands
    <2>5. Stays(L, LongUnit, 0)
        BY LongSizes DEF Stays
    <2>6. Put(H, L, data)[L] = data[0]
        BY <2>2, <2>4, PutAt
    <2>7. Put(H, L, data)[0] = H[0]
        BY <1>0, <2>2, <2>5, PutElse
    <2> QED BY <1>0, <2>1, <2>3, <2>6, <2>7 DEF LongByte
<1>9. LongByte(6, 0) = <<"prefix", 0, 0>>
    <2> DEFINE data == Filling("prefix", 0, LongUnit)
               begun == Put(Nothing, 0, data)
    <2>1. LongVariant(6, Nothing).work = Put(begun, LongUnit, LongBase)
        BY <1>2, LongVariantIs
    <2>2. Sized(data, LongUnit)
        BY LongData
    <2>3. data[0] = <<"prefix", 0, 0>>
        <3>1. 0 \in 0..(LongUnit - 1)
            BY LongSizes
        <3> QED BY <3>1 DEF Filling
    <2> HIDE DEF data
    <2>4. Lands(0, LongUnit, 0, 0)
        BY LongSizes DEF Lands
    <2>5. 0 \in DOMAIN begun /\ begun[0] = data[0]
        BY <2>2, <2>4, PutAt
    <2> HIDE DEF begun
    <2>6. Stays(LongUnit, L, 0)
        BY LongSizes DEF Stays
    <2>7. Put(begun, LongUnit, LongBase)[0] = begun[0]
        BY <2>5, <2>6, LongData, PutElse
    <2> QED BY <2>1, <2>3, <2>5, <2>7 DEF LongByte
<1>10. LongByte(7, 0) = B(0) /\ LongByte(7, L) = V(128)
    <2> DEFINE begun == Put(H, L, Footer)
               far == L + FooterLength
    <2>1. LongVariant(7, Nothing).work = Put(begun, far, Extension)
        BY <1>2, LongVariantIs DEF H
    <2>2. Footer[0] = V(128)
        <3>1. 0 \in 0..(FooterLength - 1)
            BY LongSizes
        <3> QED BY <3>1 DEF Footer
    <2>3. Lands(L, FooterLength, 0, L)
        BY LongSizes DEF Lands
    <2>4. Stays(L, FooterLength, 0)
        BY LongSizes DEF Stays
    <2>5. L \in DOMAIN begun /\ begun[L] = Footer[0]
        BY <2>3, LongData, PutAt
    <2>6. 0 \in DOMAIN begun /\ begun[0] = H[0]
        BY <1>0, <2>4, LongData, PutElse
    <2>7. Stays(far, ExtensionLength, 0) /\ Stays(far, ExtensionLength, L)
        BY LongSizes DEF Stays
    <2> HIDE DEF begun, far
    <2>8. Put(begun, far, Extension)[0] = begun[0]
        BY <2>6, <2>7, LongData, PutElse
    <2>9. Put(begun, far, Extension)[L] = begun[L]
        BY <2>5, <2>7, LongData, PutElse
    <2> QED BY <1>0, <2>1, <2>2, <2>5, <2>6, <2>8, <2>9 DEF LongByte
<1>11. LongByte(8, 0) = B(0) /\ LongByte(8, L) = <<"extension", 0, 0>>
    <2>1. LongVariant(8, Nothing).work = Put(H, L, Extension)
        BY <1>2, LongVariantIs DEF H
    <2>2. Extension[0] = <<"extension", 0, 0>>
        <3>1. 0 \in 0..(ExtensionLength - 1)
            BY LongSizes
        <3> QED BY <3>1 DEF Extension, Filling
    <2>3. Lands(L, ExtensionLength, 0, L)
        BY LongSizes DEF Lands
    <2>4. Stays(L, ExtensionLength, 0)
        BY LongSizes DEF Stays
    <2>5. Put(H, L, Extension)[L] = Extension[0]
        BY <2>3, LongData, PutAt
    <2>6. Put(H, L, Extension)[0] = H[0]
        BY <1>0, <2>4, LongData, PutElse
    <2> QED BY <1>0, <2>1, <2>2, <2>5, <2>6 DEF LongByte
<1>12. /\ LongByte(9, 0) = B(0) /\ LongByte(9, near) = B(near)
       /\ LongByte(9, LongChunk) = B(back)
    <2> DEFINE far  == Slice(H, back, LongChunk)
               here == Slice(H, LongChunk, LongChunk)
               begun == Put(H, LongChunk, far)
    <2>1. LongVariant(9, Nothing).work = Put(begun, back, here)
        BY <1>2, LongVariantIs DEF H, Exchange
    <2>2. Sized(far, LongChunk) /\ Sized(here, LongChunk)
        BY LongData
    <2>3. far[0] = H[back]
        <3>1. 0 \in 0..(LongChunk - 1) /\ back + 0 = back
            BY LongSizes
        <3>2. far[0] = H[back + 0]
            BY <3>1 DEF Slice
        <3> QED BY <3>1, <3>2
    <2> HIDE DEF far, here
    <2>4. /\ Lands(LongChunk, LongChunk, 0, LongChunk)
          /\ Stays(LongChunk, LongChunk, near) /\ Stays(LongChunk, LongChunk, 0)
        BY LongSizes DEF Lands, Stays
    <2>5. /\ Stays(back, LongChunk, LongChunk) /\ Stays(back, LongChunk, near)
          /\ Stays(back, LongChunk, 0)
        BY LongSizes DEF Stays
    <2>6. LongChunk \in DOMAIN begun /\ begun[LongChunk] = far[0]
        BY <2>2, <2>4, PutAt
    <2>7. near \in DOMAIN begun /\ begun[near] = H[near]
        BY <1>0, <2>2, <2>4, PutElse
    <2>8. 0 \in DOMAIN begun /\ begun[0] = H[0]
        BY <1>0, <2>2, <2>4, PutElse
    <2> HIDE DEF begun
    <2>9. Put(begun, back, here)[LongChunk] = begun[LongChunk]
        BY <2>2, <2>5, <2>6, PutElse
    <2>10. Put(begun, back, here)[near] = begun[near]
        BY <2>2, <2>5, <2>7, PutElse
    <2>11. Put(begun, back, here)[0] = begun[0]
        BY <2>2, <2>5, <2>8, PutElse
    <2> HIDE DEF near, back, B
    <2> QED BY <1>0, <2>1, <2>3, <2>6, <2>7, <2>8, <2>9, <2>10, <2>11
            DEF LongByte
<1>13. /\ LongByte(10, 0) = B(0) /\ LongByte(10, near) = B(near)
       /\ LongByte(10, LongChunk) = B(LongChunk)
       /\ LongByte(10, 3 * LongChunk) = B(7 * LongChunk)
    <2> DEFINE data == Slice(LongBase, 7 * LongChunk, LongChunk)
               third == 3 * LongChunk
    <2>1. LongVariant(10, Nothing).work = Put(H, third, data)
        BY <1>2, LongVariantIs DEF H
    <2>2. Sized(data, LongChunk)
        BY LongData
    <2>3. data[0] = B(7 * LongChunk)
        <3>1. 0 \in 0..(LongChunk - 1) /\ 7 * LongChunk + 0 = 7 * LongChunk
            BY LongSizes
        <3>2. data[0] = LongBase[7 * LongChunk + 0]
            BY <3>1 DEF Slice
        <3> QED BY <1>3, <1>5, <3>1, <3>2
    <2> HIDE DEF data
    <2>4. /\ Lands(third, LongChunk, 0, third)
          /\ Stays(third, LongChunk, LongChunk)
          /\ Stays(third, LongChunk, near) /\ Stays(third, LongChunk, 0)
        BY LongSizes DEF Lands, Stays
    <2> HIDE DEF third
    <2>5. Put(H, third, data)[third] = data[0]
        BY <2>2, <2>4, PutAt
    <2>6. Put(H, third, data)[near] = H[near]
        BY <1>0, <2>2, <2>4, PutElse
    <2>7. Put(H, third, data)[0] = H[0]
        BY <1>0, <2>2, <2>4, PutElse
    <2>8. Put(H, third, data)[LongChunk] = H[LongChunk]
        BY <1>0, <2>2, <2>4, PutElse
    <2>9. LongByte(10, third) = B(7 * LongChunk)
        BY <2>1, <2>3, <2>5 DEF LongByte
    <2>10. LongByte(10, 0) = B(0) /\ LongByte(10, near) = B(near)
           /\ LongByte(10, LongChunk) = B(LongChunk)
        BY <1>0, <2>1, <2>6, <2>7, <2>8 DEF LongByte
    <2> QED BY <2>9, <2>10 DEF third
<1>14. LongByte(11, 0) = B(LongChunk) /\ LongByte(11, near) = B(LongChunk + near)
    <2> DEFINE rest == L - LongChunk
               tail == Slice(H, LongChunk, rest)
               head == Slice(H, 0, LongChunk)
               begun == Put(H, 0, tail)
    <2>1. LongVariant(11, Nothing).work = Put(begun, rest, head)
        BY <1>2, LongVariantIs DEF H
    <2>2. Sized(tail, rest) /\ Sized(head, LongChunk)
        BY LongData
    <2>3. tail[0] = H[LongChunk] /\ tail[near] = H[LongChunk + near]
        <3>1. 0 \in 0..(rest - 1) /\ near \in 0..(rest - 1) /\ LongChunk + 0 = LongChunk
            BY LongSizes
        <3>2. tail[0] = H[LongChunk + 0] /\ tail[near] = H[LongChunk + near]
            BY <3>1 DEF Slice
        <3> QED BY <3>1, <3>2
    <2>4. /\ Lands(0, rest, 0, 0) /\ Lands(0, rest, near, near)
          /\ Stays(rest, LongChunk, 0) /\ Stays(rest, LongChunk, near)
        BY LongSizes DEF Lands, Stays
    <2> HIDE DEF rest, tail, head
    <2>5. 0 \in DOMAIN begun /\ begun[0] = tail[0]
        BY <2>2, <2>4, PutAt
    <2>6. near \in DOMAIN begun /\ begun[near] = tail[near]
        BY <2>2, <2>4, PutAt
    <2> HIDE DEF begun
    <2>7. Put(begun, rest, head)[0] = begun[0]
        BY <2>2, <2>4, <2>5, PutElse
    <2>8. Put(begun, rest, head)[near] = begun[near]
        BY <2>2, <2>4, <2>6, PutElse
    <2> HIDE DEF near, B
    <2> QED BY <1>0, <2>1, <2>3, <2>5, <2>6, <2>7, <2>8 DEF LongByte
<1>15. LongByte(12, near) = <<"flipped", near>>
    <2>1. LongVariant(12, Nothing).work = FlipBoundaries(H)
        BY <1>2, LongVariantIs DEF H
    <2>2. near \in Boundaries
        BY DEF Boundaries
    <2> QED BY <1>0, <2>1, <2>2 DEF LongByte, FlipBoundaries
<1>16. ASSUME NEW p \in 0..(L - 1), NEW data, Sized(data, L)
       PROVE  Put(Nothing, 0, data)[p] = data[p]
    <2>1. Lands(0, L, p, p)
        BY <1>1 DEF Lands
    <2> QED BY <1>16, <2>1, PutAt
<1>17. ASSUME NEW p \in 0..(L - 1)
       PROVE  LongByte(13, p) = V(0) /\ LongByte(14, p) = V(255)
    <2>1. /\ LongVariant(13, Nothing).work = Put(Nothing, 0, Value(0, L))
          /\ LongVariant(14, Nothing).work = Put(Nothing, 0, Value(255, L))
        BY <1>2, LongVariantIs
    <2>2. Value(0, L)[p] = V(0) /\ Value(255, L)[p] = V(255)
        BY DEF Value
    <2>3. Sized(Value(0, L), L) /\ Sized(Value(255, L), L)
        BY LongData
    <2> QED BY <1>16, <2>1, <2>2, <2>3 DEF LongByte
<1>18. ASSUME NEW p \in 0..(L - 1)
       PROVE  LongByte(15, p) = V((p * 131 + (p \div 17)) % 256)
    <2>1. LongVariant(15, Nothing).work = Put(Nothing, 0, Pattern)
        BY <1>2, LongVariantIs
    <2>2. Pattern[p] = V((p * 131 + (p \div 17)) % 256)
        BY DEF Pattern
    <2> QED BY <1>16, <2>1, <2>2, LongData DEF LongByte
<1>19. /\ (0 * 131 + (0 \div 17)) % 256 = 0
       /\ (1 * 131 + (1 \div 17)) % 256 = 131
       /\ (near * 131 + (near \div 17)) % 256 \in Nat
    BY <1>1
<1> HIDE DEF B, V
<1>20. LongByte(15, 0) = V(0) /\ LongByte(15, 1) = V(131)
    BY <1>5, <1>18, <1>19
<1>21. \E x \in Nat : LongByte(15, near) = V(x)
    BY <1>5, <1>18, <1>19
<1> QED BY <1>6, <1>7, <1>8, <1>9, <1>10, <1>11, <1>12, <1>13, <1>14, <1>15,
           <1>17, <1>20, <1>21 DEF B, V

\* Bytes of other kinds, or from other places, are others.
LEMMA BytesDiffer ==
    /\ \A p, x : <<"base", 0, p>> # <<"value", x>>
    /\ \A p, x : <<"flipped", p>> # <<"value", x>>
    /\ \A p, q : <<"base", 0, p>> # <<"flipped", q>>
    /\ \A p, q : <<"base", 0, p>> # <<"prefix", 0, q>>
    /\ \A p, q : p # q => <<"base", 0, p>> # <<"base", 0, q>>
    /\ \A x, y : x # y => <<"value", x>> # <<"value", y>>
    /\ \A p, x : <<"extension", 0, p>> # <<"value", x>>
    /\ \A p, x : <<"suffix", 0, p>> # <<"value", x>>
    /\ \A p, q : <<"suffix", 0, p>> # <<"extension", 0, q>>
<1>1. \A s, p, x : <<s, 0, p>>[1] = s /\ <<s, x>>[1] = s
    OBVIOUS
<1>2. \A p, q : p # q => <<"base", 0, p>> # <<"base", 0, q>>
    <2>1. \A p : <<"base", 0, p>>[3] = p
        OBVIOUS
    <2> QED BY <2>1
<1>3. \A x, y : x # y => <<"value", x>> # <<"value", y>>
    <2>1. \A x : <<"value", x>>[2] = x
        OBVIOUS
    <2> QED BY <2>1
<1>4. \A s, t, p, q, x : s # t => <<s, 0, p>> # <<t, 0, q>> /\ <<s, 0, p>> # <<t, x>>
                                  /\ <<s, p>> # <<t, x>>
    BY <1>1
<1> QED BY <1>2, <1>3, <1>4

\* The messages differ at place p.
ToldAt(a, b, p) ==
    p \in Nat /\ p < LongSize(a) /\ p < LongSize(b) /\ LongByte(a, p) # LongByte(b, p)

Told(a, b) == LongSize(a) # LongSize(b) \/ \E p \in Nat : ToldAt(a, b, p)

\* Messages that are as long as the base and made of it.
LEMMA BaseTold ==
    /\ Told(1, 9) /\ Told(1, 10) /\ Told(9, 10)
    /\ Told(1, 11) /\ Told(9, 11) /\ Told(10, 11)
    /\ Told(1, 12) /\ Told(9, 12) /\ Told(10, 12) /\ Told(11, 12)
<1> DEFINE near == LongUnit - 1
           L == LongLength
<1>1. \A v \in {1, 9, 10, 11, 12} : LongSize(v) = L
    BY LongSizeIs
<1>2. /\ 0 \in Nat /\ 0 < L /\ near \in Nat /\ near < L
      /\ LongChunk \in Nat /\ LongChunk < L /\ 3 * LongChunk \in Nat /\ 3 * LongChunk < L
    BY LongSizes
<1>3. /\ 0 # LongChunk /\ LongChunk # L - 2 * LongChunk
      /\ 3 * LongChunk # 7 * LongChunk
    BY LongSizes
<1>4. ToldAt(1, 9, LongChunk) /\ ToldAt(9, 10, LongChunk)
    BY <1>1, <1>2, <1>3, LongBytes, BytesDiffer DEF ToldAt
<1>5. ToldAt(1, 10, 3 * LongChunk)
    BY <1>1, <1>2, <1>3, LongBytes, BytesDiffer DEF ToldAt
<1>6. ToldAt(1, 11, 0) /\ ToldAt(9, 11, 0) /\ ToldAt(10, 11, 0)
    BY <1>1, <1>2, <1>3, LongBytes, BytesDiffer DEF ToldAt
<1>7. /\ ToldAt(1, 12, near) /\ ToldAt(9, 12, near) /\ ToldAt(10, 12, near)
      /\ ToldAt(11, 12, near)
    BY <1>1, <1>2, LongBytes, BytesDiffer DEF ToldAt
<1> QED BY <1>2, <1>4, <1>5, <1>6, <1>7 DEF Told

\* Messages that are as long and made of nothing of it.
LEMMA ValueTold ==
    /\ \A a \in {1, 9, 10, 11, 12}, b \in {13, 14, 15} : Told(a, b)
    /\ Told(13, 14) /\ Told(13, 15) /\ Told(14, 15)
<1> DEFINE near == LongUnit - 1
           L == LongLength
<1>1. \A v \in {1, 9, 10, 11, 12, 13, 14, 15} : LongSize(v) = L
    BY LongSizeIs
<1>2. /\ 0 \in Nat /\ 0 < L /\ 1 \in Nat /\ 1 < L /\ near \in Nat /\ near < L
      /\ 0 \in 0..(L - 1) /\ 1 \in 0..(L - 1) /\ near \in 0..(L - 1)
    BY LongSizes
<1>3. /\ LongByte(13, 0) = <<"value", 0>> /\ LongByte(13, 1) = <<"value", 0>>
      /\ LongByte(13, near) = <<"value", 0>>
      /\ LongByte(14, 0) = <<"value", 255>> /\ LongByte(14, near) = <<"value", 255>>
    BY <1>2, LongBytes
<1>4. LongByte(15, 0) = <<"value", 0>> /\ LongByte(15, 1) = <<"value", 131>>
    BY LongBytes
<1>5. PICK x \in Nat : LongByte(15, near) = <<"value", x>>
    BY LongBytes
<1>6. /\ LongByte(1, 0) = <<"base", 0, 0>> /\ LongByte(9, 0) = <<"base", 0, 0>>
      /\ LongByte(10, 0) = <<"base", 0, 0>> /\ LongByte(11, 0) = <<"base", 0, LongChunk>>
      /\ LongByte(12, near) = <<"flipped", near>>
    BY LongBytes
<1>7. ASSUME NEW b \in {13, 14, 15}
      PROVE  ToldAt(1, b, 0) /\ ToldAt(9, b, 0) /\ ToldAt(10, b, 0) /\ ToldAt(11, b, 0)
    <2>1. PICK y : LongByte(b, 0) = <<"value", y>>
        BY <1>3, <1>4
    <2> QED BY <1>1, <1>2, <1>6, <2>1, BytesDiffer DEF ToldAt
<1>8. ASSUME NEW b \in {13, 14, 15} PROVE ToldAt(12, b, near)
    <2>1. PICK y : LongByte(b, near) = <<"value", y>>
        BY <1>3, <1>5
    <2> QED BY <1>1, <1>2, <1>6, <2>1, BytesDiffer DEF ToldAt
<1>9. ToldAt(13, 14, 0) /\ ToldAt(14, 15, 0) /\ ToldAt(13, 15, 1)
    BY <1>1, <1>2, <1>3, <1>4, BytesDiffer DEF ToldAt
<1> QED BY <1>2, <1>7, <1>8, <1>9 DEF Told

\* Longer messages.
LEMMA LongerTold ==
    Told(2, 8) /\ Told(3, 6) /\ Told(3, 7) /\ Told(3, 8) /\ Told(6, 7) /\ Told(6, 8)
<1> DEFINE L == LongLength
<1>1. /\ L \in Nat /\ 0 \in Nat
      /\ \A v \in {2, 3, 6, 7, 8} : 0 < LongSize(v) /\ L < LongSize(v)
    BY LongSizeIs, LongSizes
<1>2. ToldAt(3, 6, 0) /\ ToldAt(6, 7, 0) /\ ToldAt(6, 8, 0)
    BY <1>1, LongBytes, BytesDiffer DEF ToldAt
<1>3. ToldAt(2, 8, L) /\ ToldAt(3, 7, L) /\ ToldAt(3, 8, L)
    BY <1>1, LongBytes, BytesDiffer DEF ToldAt
<1> QED BY <1>1, <1>2, <1>3 DEF Told

\* Messages of other lengths.
LEMMA LengthsTold ==
    /\ \A a \in {1, 9, 10, 11, 12, 13, 14, 15}, b \in {2, 3, 4, 5, 6, 7, 8} :
           Told(a, b) /\ Told(b, a)
    /\ \A b \in {3, 4, 5, 6, 7} : Told(2, b)
    /\ Told(3, 4) /\ Told(3, 5)
    /\ Told(4, 5) /\ Told(4, 6) /\ Told(4, 7) /\ Told(4, 8)
    /\ Told(5, 6) /\ Told(5, 7) /\ Told(5, 8) /\ Told(7, 8)
BY LongSizeIs, LongSizes DEF Told

\* Messages that can be told apart are different.
LEMMA ToldDiffer ==
    ASSUME NEW a \in 1..15, NEW b \in 1..15, Told(a, b)
    PROVE  LongSays(a) # LongSays(b)
<1>1. LongSize(a) \in Nat /\ LongSize(b) \in Nat
    BY LongSizeIs, LongSizes
<1>2. CASE LongSize(a) # LongSize(b)
    BY <1>1, <1>2, LongTold
<1>3. ASSUME NEW p \in Nat, ToldAt(a, b, p) PROVE LongSays(a) # LongSays(b)
    BY <1>1, <1>3, LongTold DEF ToldAt
<1> QED BY <1>2, <1>3 DEF Told

\* No two of the messages are the same.
LEMMA LongDiffer ==
    ASSUME NEW a \in 1..15, NEW b \in 1..15, a < b
    PROVE  LongSays(a) # LongSays(b)
<1> DEFINE same == {1, 9, 10, 11, 12, 13, 14, 15}
           others == {2, 3, 4, 5, 6, 7, 8}
           based == {1, 9, 10, 11, 12}
           values == {13, 14, 15}
<1>1. CASE a \in same /\ b \in others
    BY <1>1, LengthsTold, ToldDiffer
<1>2. CASE a \in others /\ b \in same
    BY <1>2, LengthsTold, ToldDiffer
<1>3. CASE a \in based /\ b \in values
    BY <1>3, ValueTold, ToldDiffer
<1>4. CASE a \in values /\ b \in values
    <2>1. \/ (a = 13 /\ b = 14) \/ (a = 13 /\ b = 15) \/ (a = 14 /\ b = 15)
        BY <1>4
    <2>2. Told(a, b)
        BY <2>1, ValueTold
    <2> QED BY <2>2, ToldDiffer
<1>5. CASE a \in based /\ b \in based
    <2>1. \/ (a = 1 /\ b = 9) \/ (a = 1 /\ b = 10) \/ (a = 9 /\ b = 10)
          \/ (a = 1 /\ b = 11) \/ (a = 9 /\ b = 11) \/ (a = 10 /\ b = 11)
          \/ (a = 1 /\ b = 12) \/ (a = 9 /\ b = 12) \/ (a = 10 /\ b = 12)
          \/ (a = 11 /\ b = 12)
        BY <1>5
    <2>2. Told(a, b)
        BY <2>1, BaseTold
    <2> QED BY <2>2, ToldDiffer
<1>6. CASE a \in others /\ b \in others
    <2>1. \/ (a = 2 /\ b \in {3, 4, 5, 6, 7}) \/ (a = 2 /\ b = 8)
          \/ (a = 3 /\ b = 4) \/ (a = 3 /\ b = 5) \/ (a = 3 /\ b = 6) \/ (a = 3 /\ b = 7)
          \/ (a = 3 /\ b = 8) \/ (a = 4 /\ b = 5) \/ (a = 4 /\ b = 6) \/ (a = 4 /\ b = 7)
          \/ (a = 4 /\ b = 8) \/ (a = 5 /\ b = 6) \/ (a = 5 /\ b = 7) \/ (a = 5 /\ b = 8)
          \/ (a = 6 /\ b = 7) \/ (a = 6 /\ b = 8) \/ (a = 7 /\ b = 8)
        BY <1>6
    <2>2. Told(a, b)
        BY <2>1, LengthsTold, LongerTold
    <2> QED BY <2>2, ToldDiffer
<1>7. \/ (a \in same /\ b \in others) \/ (a \in others /\ b \in same)
      \/ (a \in based /\ b \in values) \/ (a \in values /\ b \in values)
      \/ (a \in based /\ b \in based) \/ (a \in others /\ b \in others)
    <2>1. \A v \in 1..15 : v \in based \/ v \in values \/ v \in others
        OBVIOUS
    <2>2. ~(a \in values /\ b \in based)
        OBVIOUS
    <2> QED BY <2>1, <2>2
<1> QED BY <1>1, <1>2, <1>3, <1>4, <1>5, <1>6, <1>7

\* A shorter range has no more leaves.
LEMMA FewerLeaves ==
    ASSUME NEW one \in Nat \ {0}, NEW other \in Nat \ {0}, one <= other
    PROVE  LeafCount(one) <= LeafCount(other)
<1> DEFINE m == LeafCount(one)
           n == LeafCount(other)
<1>1. m \in Nat \ {0} /\ (m - 1) * LeafBytes < one
    BY LeavesCover
<1>2. n \in Nat \ {0} /\ other <= n * LeafBytes
    BY LeavesCover
<1>3. LeafBytes \in Nat \ {0}
    BY ScheduleAssumption
<1> HIDE DEF m, n
<1>4. CASE n < m
    <2>1. n \in Nat /\ m - 1 \in Nat /\ n <= m - 1
        BY <1>1, <1>2, <1>4
    <2>2. n * LeafBytes <= (m - 1) * LeafBytes
        BY <1>3, <2>1, TimesMonotone
    <2>3. n * LeafBytes \in Nat /\ (m - 1) * LeafBytes \in Nat
        BY <1>3, <2>1
    <2> QED BY <1>1, <1>2, <2>2, <2>3
<1> QED BY <1>1, <1>2, <1>4 DEF m, n

\* A longer message is not padded to a shorter one.
LEMMA PaddedGrows ==
    ASSUME NEW one \in Nat, NEW other \in Nat, one <= other
    PROVE  /\ PaddedLength(one) \in Nat \ {0} /\ PaddedLength(other) \in Nat \ {0}
           /\ PaddedLength(one) <= PaddedLength(other)
BY PaddingAssumption DEF PaddedLength, Overhead

\* The level of the tree over the padded message of a length.
LongLevel(length) == Level(LeafCount(PaddedLength(length)))

\* The tree of a message as long as the base, or up to two units longer, has
\* LongDepth levels, and that of a shorter one no more.
LEMMA LongLevels ==
    ASSUME NEW v \in 1..15
    PROVE  /\ LongLevel(LongSize(v)) \in Nat /\ LongLevel(LongSize(v)) <= LongDepth
           /\ v = 1 => LongLevel(LongSize(v)) = LongDepth
<1> DEFINE L == LongLength
<1>1. L \in Nat /\ LongUnit \in Nat /\ 2 <= LongUnit /\ LongDepth \in Nat
    BY LongSizes, AttackAssumption
<1>2. \A added \in 0..(2 * LongUnit) : LongLevel(L + added) = LongDepth
    BY AttackAssumption DEF LongLevel
<1>3. LongLevel(L) = LongDepth
    <2>1. 0 \in 0..(2 * LongUnit) /\ L + 0 = L
        BY <1>1
    <2> QED BY <1>2, <2>1
<1>4. CASE v \notin {4, 5}
    <2>1. PICK added \in 0..(2 * LongUnit) : LongSize(v) = L + added
        <3>1. v \in {1, 9, 10, 11, 12, 13, 14, 15} => LongSize(v) = L + 0
            BY <1>1, LongSizeIs
        <3>2. v \in {3, 6} => LongSize(v) = L + LongUnit
            BY LongSizeIs
        <3>3. v = 7 => LongSize(v) = L + (FooterLength + ExtensionLength)
            BY LongSizeIs, LongSizes
        <3>4. /\ 0 \in 0..(2 * LongUnit) /\ 1 \in 0..(2 * LongUnit)
              /\ LongUnit \in 0..(2 * LongUnit)
              /\ FooterLength + ExtensionLength \in 0..(2 * LongUnit)
              /\ ExtensionLength \in 0..(2 * LongUnit)
            BY LongSizes
        <3>5. v \in {1, 9, 10, 11, 12, 13, 14, 15} \/ v \in {3, 6} \/ v = 7 \/ v = 2
              \/ v = 8
            BY <1>4
        <3> QED BY <3>1, <3>2, <3>3, <3>4, <3>5, LongSizeIs
    <2>2. LongLevel(LongSize(v)) = LongDepth
        BY <1>2, <2>1
    <2> QED BY <1>1, <2>2
<1>5. CASE v \in {4, 5}
    <2>1. LongSize(v) \in Nat /\ LongSize(v) <= L
        BY <1>5, LongSizeIs, LongSizes
    <2> DEFINE m == LeafCount(PaddedLength(LongSize(v)))
               n == LeafCount(PaddedLength(L))
    <2>2. m \in Nat \ {0} /\ n \in Nat \ {0} /\ m <= n
        BY <1>1, <2>1, PaddedGrows, FewerLeaves, LeavesCover
    <2>3. n <= SizeMax
        <3>1. PaddedLength(L) <= SizeMax
            <4>1. L + 2 * LongUnit + Overhead <= SizeMax /\ PaddingMin <= SizeMax
                BY AttackAssumption, PaddingAssumption
            <4>2. Overhead \in Nat /\ PaddingMin \in Nat /\ SizeMax \in Nat
                BY PaddingAssumption, SizeMaxLarge DEF Overhead
            <4> QED BY <1>1, <4>1, <4>2 DEF PaddedLength
        <3>2. PaddedLength(L) \in Nat \ {0}
            BY <1>1, PaddedGrows
        <3>3. n <= PaddedLength(L)
            BY <3>2, LeavesCover
        <3> QED BY <2>2, <3>1, <3>2, <3>3, SizeMaxLarge
    <2>4. m <= SizeMax
        BY <2>2, <2>3, SizeMaxLarge
    <2>5. LongLevel(L) = Level(n) /\ LongLevel(LongSize(v)) = Level(m)
        BY DEF LongLevel
    <2> HIDE DEF m, n
    <2>6. Level(n) \in 0..WorkspaceSlots /\ n - 1 < Pow2[Level(n)]
        BY <2>2, <2>3, LevelExists
    <2>7. Pow2[Level(n)] \in Nat
        BY <2>6, Pow2Equation, ScheduleAssumption
    <2>8. m <= Pow2[Level(n)]
        BY <2>2, <2>6, <2>7
    <2>9. Level(m) <= Level(n) /\ Level(m) \in 0..WorkspaceSlots
        BY <2>2, <2>4, <2>6, <2>8, LevelAtMost, LevelExists
    <2> QED BY <1>3, <1>5, <2>5, <2>9
<1> QED BY <1>4, <1>5

\* long_message_screen: the recorded messages are those of the variants, and
\* every tree of them has the same depth.
LEMMA LongGoes ==
    ASSUME AttackIInv, LongMessages
    PROVE  AttackStep
<1>1. \A at : In("long_message", at) => screen = 6 /\ phase = at
    BY AtScreen
<1>2. screen = 6 /\ screen \in 1..10 /\ StepsAsked = 15
    BY <1>1, AskedSteps DEF LongMessages, LongVariants
<1>3. CASE OutOfMemory
    BY <1>2, <1>3, OutOfMemoryGoesOn
<1>4. ASSUME screen' = screen, failed' = failed,
             phase' \in {"running", "statistics", "compared", "verdict"},
             LongSoFar'
      PROVE  AttackStep
    BY <1>2, <1>4, InScreen
<1> DEFINE Says == {LongSays(v) : v \in 1..LongVariants}
<1>5. CASE In("long_message", "entered")
    <2>1. CASE GoTo("running") /\ UNCHANGED work
        <3>1. /\ step' = 0 /\ recorded' = << >> /\ second' = Nothing
              /\ maximum_depth' = 0
            BY <1>1, <1>5, <2>1 DEF AttackIInv, ScreensSoFar, work, Nothing
        <3>2. screen' = screen /\ failed' = failed /\ phase' = "running"
            BY <2>1 DEF GoTo
        <3>3. DOMAIN second' \subseteq 0..(WorkLength - 1)
            BY <3>1 DEF Nothing
        <3>4. LongSoFar'
            BY <3>1, <3>2, <3>3 DEF LongSoFar, LongVariants
        <3> QED BY <1>4, <3>2, <3>4
    <2> QED BY <1>1, <1>3, <1>5, <2>1 DEF LongMessages
<1>6. ASSUME phase = "running"
      PROVE  /\ step \in 0..15
             /\ DOMAIN second \subseteq 0..(WorkLength - 1)
             /\ recorded \in Seq(Says)
             /\ Len(recorded) = step
             /\ \A i \in 1..step : recorded[i] = LongSays(i)
             /\ maximum_depth = (IF step = 0 THEN 0 ELSE LongDepth)
    BY <1>2, <1>6 DEF AttackIInv, LongSoFar, OfScreen, LongVariants
<1> HIDE DEF Says
<1>7. CASE In("long_message", "running") /\ step < LongVariants /\ ~OutOfMemory
    <2> DEFINE v == step + 1
               hashed == LongVariant(v, second)
    <2>0. phase = "running" /\ step # LongVariants
        BY <1>1, <1>6, <1>7 DEF LongVariants
    <2>1. RecordLong(hashed)
        BY <1>1, <1>7, <2>0 DEF LongMessages
    <2>2. phase = "running" /\ screen' = screen /\ failed' = failed
          /\ phase' = "running"
        BY <1>1, <1>7, <2>1 DEF RecordLong, Continue
    <2>3. step \in 0..15 /\ v \in 1..15 /\ v \in 0..15
        BY <1>6, <1>7, <2>2 DEF LongVariants
    <2>4. Message(hashed) = LongSays(v) /\ hashed.length = LongSize(v)
        BY <2>3, LongHashesSame DEF LongSays, LongSize
    <2>5. v \notin FromBase => DOMAIN hashed.work \subseteq 0..(WorkLength - 1)
        BY <1>6, <2>2, <2>3, LongFits
    <2> HIDE DEF hashed
    <2>6. /\ second' = IF v \in FromBase THEN second ELSE hashed.work
          /\ recorded' = Append(recorded, LongSays(v))
          /\ maximum_depth' = Deepest(LongSize(v))
          /\ step' = v
        BY <2>1, <2>4 DEF RecordLong
    <2>7. DOMAIN second' \subseteq 0..(WorkLength - 1)
        BY <1>6, <2>2, <2>5, <2>6
    <2>8. LongSays(v) \in Says
        BY <2>3 DEF Says, LongVariants
    <2>9. /\ recorded' \in Seq(Says) /\ Len(recorded') = v
          /\ recorded'[v] = LongSays(v)
          /\ \A i \in 1..step : recorded'[i] = recorded[i]
        BY <1>6, <2>2, <2>6, <2>8, AppendProperties
    <2>10. \A i \in 1..v : recorded'[i] = LongSays(i)
        <3>1. ASSUME NEW i \in 1..v PROVE recorded'[i] = LongSays(i)
            <4>1. CASE i = v
                BY <2>9, <4>1
            <4>2. CASE i # v
                <5>1. i \in 1..step
                    BY <2>3, <4>2
                <5> QED BY <1>6, <2>2, <2>9, <5>1
            <4> QED BY <4>1, <4>2
        <3> QED BY <3>1
    <2>11. maximum_depth' = LongDepth
        <3>1. LongLevel(LongSize(v)) \in Nat /\ LongLevel(LongSize(v)) <= LongDepth
              /\ (v = 1 => LongLevel(LongSize(v)) = LongDepth)
            BY <2>3, LongLevels
        <3>2. LongDepth \in Nat
            BY AttackAssumption
        <3>3. maximum_depth' = IF LongLevel(LongSize(v)) > maximum_depth
                               THEN LongLevel(LongSize(v)) ELSE maximum_depth
            BY <2>6 DEF Deepest, LongLevel
        <3>4. CASE step = 0
            <4>1. v = 1 /\ maximum_depth = 0
                BY <1>6, <2>2, <3>4
            <4> QED BY <3>1, <3>2, <3>3, <4>1
        <3>5. CASE step # 0
            <4>1. maximum_depth = LongDepth
                BY <1>6, <2>2, <3>5
            <4> QED BY <3>1, <3>2, <3>3, <4>1
        <3> QED BY <3>4, <3>5
    <2>12. v # 0
        BY <2>3
    <2>13. LongSoFar'
        BY <2>2, <2>3, <2>6, <2>7, <2>9, <2>10, <2>11, <2>12
           DEF LongSoFar, LongVariants, Says
    <2> QED BY <1>4, <2>2, <2>13
<1>8. CASE In("long_message", "running") /\ step = LongVariants
    <2>0. phase = "running" /\ ~(step < LongVariants)
        BY <1>1, <1>8 DEF LongVariants
    <2>1. PICK near \in BOOLEAN :
              Judge(NoCollision /\ maximum_depth = LongDepth, near)
        <3> HIDE DEF LongVariants
        <3> QED BY <1>1, <2>0 DEF LongMessages
    <2>2. phase = "running" /\ step = 15
        BY <1>1, <1>8 DEF LongVariants
    <2>3. NoCollision
        <3>1. DOMAIN recorded = 1..15
            BY <1>6, <2>2
        <3>2. \A a, b \in 1..15 : a < b => recorded[a] # recorded[b]
            BY <1>6, <2>2, LongDiffer
        <3> QED BY <3>1, <3>2 DEF NoCollision
    <2>4. (NoCollision /\ maximum_depth = LongDepth) = TRUE
        BY <1>6, <2>2, <2>3
    <2>5. step = StepsAsked
        BY <1>2, <2>2
    <2> QED BY <1>2, <2>1, <2>4, <2>5, JudgeGoesOn
<1> QED BY <1>3, <1>5, <1>7, <1>8 DEF LongMessages

-----------------------------------------------------------------------------
(* second_preimage_screen and multi_target_screen *)

\* A chunk of target t, or one of no target.
Chunk(t, x) == (\E c : x = <<"target", t, c>>) \/ (\E s, c : x = <<"mutation", s, c>>)

\* n chunks, each of target t or of none.
Made(t, n, R) == DOMAIN R = 0..(n - 1) /\ \A c \in 0..(n - 1) : Chunk(t, R[c])

\* k chunks to put into a buffer, and a place for them among n.
Piece(t, k, data) == Sized(data, k) /\ \A c \in 0..(k - 1) : Chunk(t, data[c])
Within(at, k, n) == at \in Nat /\ k \in Nat /\ n \in Nat /\ at + k <= n

\* A piece put into a buffer of chunks leaves a buffer of chunks.
LEMMA PutMade ==
    ASSUME NEW t, NEW n, NEW R, Made(t, n, R), NEW at, NEW k, Within(at, k, n),
           NEW data, Piece(t, k, data)
    PROVE  Made(t, n, Put(R, at, data))
<1>1. at \in Nat /\ k \in Nat /\ n \in Nat /\ at + k <= n
    BY DEF Within
<1>2. Sized(data, k) /\ DOMAIN data = 0..(k - 1)
    BY DEF Piece, Sized
<1>0. ASSUME NEW p, p \in Overwritten(at, data)
      PROVE  p \in 0..(n - 1) /\ p - at \in 0..(k - 1)
    <2>1. p \in Nat /\ at <= p /\ p < at + k
        BY <1>0, <1>1, <1>2, WrittenAre
    <2> QED BY <1>1, <2>1
<1>3. Overwritten(at, data) \subseteq 0..(n - 1)
    BY <1>0
<1>4. DOMAIN Put(R, at, data) = 0..(n - 1)
    <2>1. DOMAIN Put(R, at, data) = DOMAIN R \cup Overwritten(at, data)
        BY DEF Put, Overwritten
    <2> QED BY <1>3, <2>1 DEF Made
<1>5. ASSUME NEW p \in 0..(n - 1) PROVE Chunk(t, Put(R, at, data)[p])
    <2>1. CASE p \in Overwritten(at, data)
        <3>1. p - at \in 0..(k - 1)
            BY <1>0, <2>1
        <3>2. Put(R, at, data)[p] = data[p - at]
            BY <2>1, PutInside
        <3> QED BY <3>1, <3>2 DEF Piece
    <2>2. CASE p \notin Overwritten(at, data)
        <3>0. p \in DOMAIN R
            BY DEF Made
        <3>1. Put(R, at, data)[p] = R[p]
            BY <2>2, <3>0, PutOutside
        <3> QED BY <3>1 DEF Made
    <2> QED BY <2>1, <2>2
<1> QED BY <1>4, <1>5 DEF Made

\* A slice of such a buffer is a piece.
LEMMA SlicePiece ==
    ASSUME NEW t, NEW n, NEW R, Made(t, n, R), NEW from, NEW k, Within(from, k, n)
    PROVE  Piece(t, k, Slice(R, from, k))
<1>1. from \in Nat /\ k \in Nat /\ n \in Nat /\ from + k <= n
    BY DEF Within
<1>2. Sized(Slice(R, from, k), k)
    BY DEF Sized, Slice
<1>3. ASSUME NEW c \in 0..(k - 1) PROVE Chunk(t, Slice(R, from, k)[c])
    <2>1. from + c \in 0..(n - 1)
        BY <1>1
    <2>2. Slice(R, from, k)[c] = R[from + c]
        BY DEF Slice
    <2> QED BY <2>1, <2>2 DEF Made
<1> QED BY <1>2, <1>3 DEF Piece

\* So is a random mutation.
LEMMA MutationPiece ==
    ASSUME NEW t, NEW s, NEW k
    PROVE  Piece(t, k, Filling("mutation", s, k))
BY DEF Piece, Sized, Filling, Chunk

\* A target is a buffer of its own chunks.
LEMMA TargetMade ==
    ASSUME NEW t, NEW n
    PROVE  Made(t, n, TargetMessage(t, n))
BY DEF Made, TargetMessage, Chunk

\* Exchanging two pieces leaves a buffer of chunks.
LEMMA ExchangeMade ==
    ASSUME NEW t, NEW n, NEW R, Made(t, n, R), NEW a, NEW b, NEW k,
           Within(a, k, n), Within(b, k, n)
    PROVE  Made(t, n, Exchange(R, a, b, k))
<1>1. Piece(t, k, Slice(R, a, k)) /\ Piece(t, k, Slice(R, b, k))
    BY SlicePiece
<1>2. Made(t, n, Put(R, a, Slice(R, b, k)))
    BY <1>1, PutMade
<1> QED BY <1>1, <1>2, PutMade DEF Exchange

\* One place of n, one leaf of n \div LeafChunks, or one pair of leaves.
LEMMA OnePlace ==
    ASSUME NEW n \in Nat \ {0}, NEW x \in Nat
    PROVE  x % n \in 0..(n - 1) /\ Within(x % n, 1, n)
<1>1. x % n \in 0..(n - 1)
    BY DivMod
<1> QED BY <1>1 DEF Within

\* The second place of an exchange is a place.
LEMMA OtherPlace ==
    ASSUME NEW n \in Nat \ {0}, NEW first_, first_ \in 0..(n - 1),
           NEW second_, second_ \in 0..(n - 1)
    PROVE  OtherThan(first_, second_, n) \in 0..(n - 1)
<1>1. (second_ + 1) % n \in 0..(n - 1)
    <2>1. second_ + 1 \in Nat
        OBVIOUS
    <2> QED BY <2>1, DivMod
<1> QED BY <1>1 DEF OtherThan

\* A leaf of the target lies within it.
LEMMA LeafPlace ==
    ASSUME NEW n \in Nat, NEW q \in Nat \ {0}, n = q * LeafChunks,
           NEW i \in 0..(q - 1)
    PROVE  Within(i * LeafChunks, LeafChunks, n)
<1>1. LeafChunks \in Nat \ {0}
    BY MessageAssumption
<1>2. i + 1 \in Nat /\ i + 1 <= q
    OBVIOUS
<1>3. (i + 1) * LeafChunks <= q * LeafChunks
    BY <1>1, <1>2, TimesMonotone
<1>4. (i + 1) * LeafChunks = i * LeafChunks + LeafChunks /\ i * LeafChunks \in Nat
    BY <1>1
<1> QED BY <1>1, <1>3, <1>4 DEF Within

\* A pair of leaves of the target lies within it.
LEMMA PairPlace ==
    ASSUME NEW n \in Nat, NEW q \in Nat \ {0}, n = q * LeafChunks,
           NEW i \in 0..((q \div 2) - 1)
    PROVE  Within(i * 2 * LeafChunks, 2 * LeafChunks, n)
<1>1. LeafChunks \in Nat \ {0}
    BY MessageAssumption
<1>2. i \in Nat /\ i * 2 + 2 \in Nat /\ i * 2 + 2 <= q
    OBVIOUS
<1>3. (i * 2 + 2) * LeafChunks <= q * LeafChunks
    BY <1>1, <1>2, TimesMonotone
<1>4. (i * 2 + 2) * LeafChunks = i * 2 * LeafChunks + 2 * LeafChunks
      /\ i * 2 * LeafChunks \in Nat /\ 2 * LeafChunks \in Nat
    BY <1>1, <1>2
<1> QED BY <1>1, <1>3, <1>4 DEF Within

\* A target of whole leaves, four of them at least.
Target(n) == n \in Nat /\ n % LeafChunks = 0 /\ n >= 4 * LeafChunks

\* The leaves and pairs of leaves of a target.
LEMMA TargetNumbers ==
    ASSUME NEW n, Target(n)
    PROVE  LET q == n \div LeafChunks IN
           /\ n \in Nat \ {0} /\ q \in Nat /\ q >= 4 /\ n = q * LeafChunks
           /\ q \div 2 \in Nat /\ q \div 2 >= 2
<1>1. LeafChunks \in Nat \ {0} /\ n \in Nat /\ n >= 4 * LeafChunks
      /\ n % LeafChunks = 0
    BY MessageAssumption DEF Target
<1>2. PICK q \in Nat : q = n \div LeafChunks
    BY <1>1, DivMod
<1>3. n = LeafChunks * q
    <2>1. n = LeafChunks * (n \div LeafChunks) + (n % LeafChunks)
        BY <1>1, DivMod
    <2> QED BY <1>1, <1>2, <2>1
<1>4. LeafChunks * q = q * LeafChunks
    BY <1>1
<1>5. q >= 4
    <2>1. CASE q <= 3
        <3>1. LeafChunks * q <= LeafChunks * 3
            BY <1>1, <2>1, TimesMonotone
        <3> QED BY <1>1, <1>3, <3>1
    <2> QED BY <2>1
<1>6. q \div 2 \in Nat /\ q \div 2 >= 2
    BY <1>5
<1>7. n # 0
    BY <1>1
<1> QED BY <1>1, <1>2, <1>3, <1>4, <1>5, <1>6, <1>7

\* The chunks of a target.
LEMMA TargetChunkCount ==
    ASSUME NEW t, NEW n \in Nat
    PROVE  /\ DOMAIN TargetMessage(t, n) = 0..(n - 1)
           /\ Cardinality(DOMAIN TargetMessage(t, n)) = n
<1>1. DOMAIN TargetMessage(t, n) = 0..(n - 1)
    BY DEF TargetMessage
<1>2. Cardinality(0..(n - 1)) = n
    BY FS_Interval
<1> QED BY <1>1, <1>2

\* Whatever a mutation makes of a target, it is made of its own chunks.
LEMMA RewrittenMade ==
    ASSUME NEW t, NEW n, Target(n), NEW sample \in Nat
    PROVE  Made(t, n, Rewritten(TargetMessage(t, n), sample))
<1> DEFINE target == TargetMessage(t, n)
           q == n \div LeafChunks
           m == sample \div 8
           mode == sample % 8
<1>1. /\ n \in Nat /\ n \in Nat \ {0} /\ q \in Nat /\ q >= 4 /\ n = q * LeafChunks
      /\ q \in Nat \ {0} /\ q \div 2 \in Nat \ {0} /\ (q \div 2) - 1 \in Nat \ {0}
    BY TargetNumbers
<1>2. Cardinality(DOMAIN target) = n /\ DOMAIN target = 0..(n - 1)
    BY <1>1, TargetChunkCount
<1>3. Made(t, n, target)
    BY TargetMade
<1>4. m \in Nat /\ mode \in 0..7
    BY DivMod
<1>5. LeafChunks \in Nat \ {0}
    BY MessageAssumption
<1> HIDE DEF target
<1>10. CASE mode = 0
    <2>1. Rewritten(target, sample) = target
        BY <1>10 DEF Rewritten, Modes
    <2> QED BY <1>3, <2>1 DEF target
<1>11. CASE mode = 1
    <2> DEFINE at == (sample * 17) % n
               data == Filling("mutation", sample, 1)
    <2>1. Rewritten(target, sample) = Put(target, at, data)
        BY <1>2, <1>11 DEF Rewritten, Modes
    <2>2. Within(at, 1, n)
        <3>1. sample * 17 \in Nat
            OBVIOUS
        <3> QED BY <1>1, <3>1, OnePlace
    <2>3. Piece(t, 1, data)
        BY MutationPiece
    <2> HIDE DEF at, data
    <2>4. Made(t, n, Put(target, at, data))
        BY <1>3, <2>2, <2>3, PutMade
    <2> QED BY <2>1, <2>4 DEF target
<1>12. CASE mode = 2
    <2> DEFINE a == (sample * 29) % n
               c == (sample * 73 + 1) % n
               b == OtherThan(a, c, n)
    <2>1. Rewritten(target, sample) = Exchange(target, a, b, 1)
        BY <1>2, <1>12 DEF Rewritten, Modes
    <2>2. sample * 29 \in Nat /\ sample * 73 + 1 \in Nat
        OBVIOUS
    <2>3. a \in 0..(n - 1) /\ Within(a, 1, n) /\ c \in 0..(n - 1)
        BY <1>1, <2>2, OnePlace
    <2> HIDE DEF a, c
    <2>4. b \in 0..(n - 1)
        BY <1>1, <2>3, OtherPlace
    <2> HIDE DEF b
    <2>5. Within(b, 1, n)
        BY <1>1, <2>4 DEF Within
    <2>6. Made(t, n, Exchange(target, a, b, 1))
        BY <1>3, <2>3, <2>5, ExchangeMade
    <2> QED BY <2>1, <2>6 DEF target
<1>13. CASE mode = 3
    <2> DEFINE a == (sample * 43) % n
               c == (sample * 101 + 3) % n
               b == OtherThan(a, c, n)
    <2>1. Rewritten(target, sample) = Put(target, b, Slice(target, a, 1))
        BY <1>2, <1>13 DEF Rewritten, Modes
    <2>2. sample * 43 \in Nat /\ sample * 101 + 3 \in Nat
        OBVIOUS
    <2>3. a \in 0..(n - 1) /\ Within(a, 1, n) /\ c \in 0..(n - 1)
        BY <1>1, <2>2, OnePlace
    <2> HIDE DEF a, c
    <2>4. b \in 0..(n - 1)
        BY <1>1, <2>3, OtherPlace
    <2> HIDE DEF b
    <2>5. Within(b, 1, n)
        BY <1>1, <2>4 DEF Within
    <2>6. Piece(t, 1, Slice(target, a, 1))
        BY <1>3, <2>3, SlicePiece
    <2>7. Made(t, n, Put(target, b, Slice(target, a, 1)))
        BY <1>3, <2>5, <2>6, PutMade
    <2> QED BY <2>1, <2>7 DEF target
<1>14. CASE mode = 4
    <2> DEFINE leaf == (m * 11 + 3) % q
               at == leaf * LeafChunks
               data == Filling("mutation", sample, LeafChunks)
    <2>1. Rewritten(target, sample) = Put(target, at, data)
        BY <1>2, <1>14 DEF Rewritten, Modes
    <2>2. leaf \in 0..(q - 1)
        <3>1. m * 11 + 3 \in Nat
            BY <1>4
        <3> QED BY <1>1, <3>1, DivMod
    <2> HIDE DEF leaf
    <2>3. Within(at, LeafChunks, n)
        BY <1>1, <2>2, LeafPlace
    <2>4. Piece(t, LeafChunks, data)
        BY MutationPiece
    <2> HIDE DEF at, data
    <2>5. Made(t, n, Put(target, at, data))
        BY <1>3, <2>3, <2>4, PutMade
    <2> QED BY <2>1, <2>5 DEF target
<1>15. CASE mode = 5
    <2> DEFINE a == (m * 5) % q
               c == (m * 13 + 1) % q
               b == OtherThan(a, c, q)
    <2>1. Rewritten(target, sample)
              = Exchange(target, a * LeafChunks, b * LeafChunks, LeafChunks)
        BY <1>2, <1>15 DEF Rewritten, Modes
    <2>2. a \in 0..(q - 1) /\ c \in 0..(q - 1)
        <3>1. m * 5 \in Nat /\ m * 13 + 1 \in Nat
            BY <1>4
        <3> QED BY <1>1, <3>1, DivMod
    <2> HIDE DEF a, c
    <2>3. b \in 0..(q - 1)
        BY <1>1, <2>2, OtherPlace
    <2> HIDE DEF b
    <2>4. Within(a * LeafChunks, LeafChunks, n) /\ Within(b * LeafChunks, LeafChunks, n)
        BY <1>1, <2>2, <2>3, LeafPlace
    <2>5. Made(t, n, Exchange(target, a * LeafChunks, b * LeafChunks, LeafChunks))
        BY <1>3, <2>4, ExchangeMade
    <2> QED BY <2>1, <2>5 DEF target
<1>16. CASE mode = 6
    <2> DEFINE pairs == q \div 2
               a == (m * 3) % pairs
               far == 1 + ((m * 5) % (pairs - 1))
               b == (a + far) % pairs
               data == Slice(target, a * 2 * LeafChunks, 2 * LeafChunks)
    <2>1. Rewritten(target, sample) = Put(target, b * 2 * LeafChunks, data)
        BY <1>2, <1>16 DEF Rewritten, Modes
    <2>2. a \in 0..(pairs - 1) /\ far \in Nat
        <3>1. m * 3 \in Nat /\ m * 5 \in Nat
            BY <1>4
        <3>2. (m * 5) % (pairs - 1) \in 0..((pairs - 1) - 1)
            BY <1>1, <3>1, DivMod
        <3>3. a \in 0..(pairs - 1)
            BY <1>1, <3>1, DivMod
        <3> QED BY <3>2, <3>3
    <2> HIDE DEF a, far
    <2>3. b \in 0..(pairs - 1)
        <3>1. a + far \in Nat
            BY <2>2
        <3> QED BY <1>1, <3>1, DivMod
    <2> HIDE DEF b
    <2>4. /\ Within(a * 2 * LeafChunks, 2 * LeafChunks, n)
          /\ Within(b * 2 * LeafChunks, 2 * LeafChunks, n)
        BY <1>1, <2>2, <2>3, PairPlace
    <2>5. Piece(t, 2 * LeafChunks, data)
        BY <1>3, <2>4, SlicePiece
    <2> HIDE DEF data
    <2>6. Made(t, n, Put(target, b * 2 * LeafChunks, data))
        BY <1>3, <2>4, <2>5, PutMade
    <2> QED BY <2>1, <2>6 DEF target
<1>17. CASE mode = 7
    <2> DEFINE multiplier == 1 + (2 * (m % 8))
               shift == 1 + ((m \div 8) % 8)
               from(c) == (multiplier * (c \div LeafChunks) + shift) % q
               R == [c \in DOMAIN target |->
                        Slice(target, from(c) * LeafChunks, LeafChunks)[c % LeafChunks]]
    <2>1. Rewritten(target, sample) = R
        <3>1. /\ mode # 0 /\ mode # 1 /\ mode # 2 /\ mode # 3 /\ mode # 4
              /\ mode # 5 /\ mode # 6
            BY <1>17
        <3> QED BY <1>2, <3>1, Zenon DEF Rewritten, Modes
    <2>2. multiplier \in Nat /\ shift \in Nat
        <3>1. m % 8 \in Nat /\ (m \div 8) \in Nat
            BY <1>4
        <3>2. (m \div 8) % 8 \in Nat
            BY <3>1
        <3> QED BY <3>1, <3>2
    <2> HIDE DEF multiplier, shift
    <2>3. ASSUME NEW c \in 0..(n - 1) PROVE Chunk(t, R[c])
        <3>0. c \in Nat
            OBVIOUS
        <3>1. c \div LeafChunks \in Nat /\ c % LeafChunks \in 0..(LeafChunks - 1)
            BY <1>5, <3>0, DivMod
        <3>2. multiplier * (c \div LeafChunks) + shift \in Nat
            BY <2>2, <3>1
        <3>3. from(c) \in 0..(q - 1)
            BY <1>1, <3>2, DivMod
        <3>4. R[c] = Slice(target, from(c) * LeafChunks, LeafChunks)[c % LeafChunks]
            BY <1>2
        <3> HIDE DEF from, R
        <3>5. Within(from(c) * LeafChunks, LeafChunks, n)
            BY <1>1, <3>3, LeafPlace
        <3>6. Piece(t, LeafChunks, Slice(target, from(c) * LeafChunks, LeafChunks))
            BY <1>3, <3>5, SlicePiece
        <3> QED BY <3>1, <3>4, <3>6 DEF Piece
    <2>4. DOMAIN R = 0..(n - 1)
        BY <1>2
    <2>5. Made(t, n, R)
        BY <2>3, <2>4 DEF Made
    <2> QED BY <2>1, <2>5 DEF target
<1>18. mode = 0 \/ mode = 1 \/ mode = 2 \/ mode = 3 \/ mode = 4 \/ mode = 5 \/ mode = 6
       \/ mode = 7
    BY <1>4
<1> QED BY <1>10, <1>11, <1>12, <1>13, <1>14, <1>15, <1>16, <1>17, <1>18

\* A candidate is as long as its target, differs from it, and from every other.
LEMMA CandidateOther ==
    ASSUME NEW t, NEW n, Target(n), NEW sample \in Nat
    PROVE  LET target == TargetMessage(t, n)
               candidate == Candidate(target, sample)
           IN
           /\ ~Same(candidate, target)
           /\ DOMAIN candidate.chunks = DOMAIN target
           /\ candidate.flips \subseteq 0..(n * ChunkLength - 1)
           /\ \A s : s # t => ~Same(candidate, TargetMessage(s, n))
<1> DEFINE target == TargetMessage(t, n)
           R == Rewritten(target, sample)
           F == Flipped(target, sample)
           size == n * ChunkLength
           extra == (sample * 13 + 1) % size
<1>1. n \in Nat \ {0} /\ ChunkLength \in Nat \ {0}
    BY TargetNumbers, MessageAssumption
<1>2. size \in Nat \ {0}
    <2>1. 1 * 1 <= n * 1 /\ n * 1 <= n * ChunkLength
        BY <1>1, TimesMonotone
    <2> QED BY <1>1, <2>1
<1>3. Cardinality(DOMAIN target) = n /\ DOMAIN target = 0..(n - 1)
    BY <1>1, TargetChunkCount
<1>4. Made(t, n, R)
    BY RewrittenMade
<1>5. F \subseteq 0..(size - 1)
    <2>1. BytePosition(sample, size) \in 0..(size - 1)
        <3>0. 14769 \in Nat
            OBVIOUS
        <3>1. 14769 % size \in Nat
            <4> HIDE DEF size
            <4> QED BY <1>2, <3>0
        <3>2. sample * (14769 % size) + 17 \in Nat
            BY <3>1
        <3> HIDE DEF size
        <3> QED BY <1>2, <3>2, DivMod DEF BytePosition
    <2> QED BY <1>3, <2>1 DEF Flipped
<1>6. extra \in 0..(size - 1)
    <2>1. sample * 13 + 1 \in Nat
        OBVIOUS
    <2> HIDE DEF size
    <2> QED BY <1>2, <2>1, DivMod
<1>7. Candidate(target, sample)
          = [chunks |-> R, flips |-> IF R = target /\ F = {} THEN {extra} ELSE F]
    BY <1>3 DEF Candidate, Checked
<1> HIDE DEF target, R, F, size, extra
<1>8. /\ Candidate(target, sample).chunks = R
      /\ Candidate(target, sample).flips = IF R = target /\ F = {} THEN {extra} ELSE F
    BY <1>7
<1>9. ~Same(Candidate(target, sample), target)
    BY <1>8 DEF Same
<1>10. DOMAIN Candidate(target, sample).chunks = DOMAIN target
    BY <1>3, <1>4, <1>8 DEF Made
<1>11. Candidate(target, sample).flips \subseteq 0..(size - 1)
    BY <1>5, <1>6, <1>8
<1>12. ASSUME NEW s, s # t PROVE ~Same(Candidate(target, sample), TargetMessage(s, n))
    <2>1. 0 \in 0..(n - 1)
        BY <1>1
    <2>2. TargetMessage(s, n)[0] = <<"target", s, 0>>
        BY <2>1 DEF TargetMessage
    <2>3. Chunk(t, R[0])
        BY <1>4, <2>1 DEF Made
    <2>4. R[0] # <<"target", s, 0>>
        <3>1. \A c : <<"target", t, c>> # <<"target", s, 0>>
            <4>1. \A u, c : <<"target", u, c>>[2] = u
                OBVIOUS
            <4> QED BY <1>12, <4>1
        <3>2. \A u, c : <<"mutation", u, c>> # <<"target", s, 0>>
            <4>1. \A w, u, c : <<w, u, c>>[1] = w
                OBVIOUS
            <4> QED BY <4>1
        <3> QED BY <2>3, <3>1, <3>2 DEF Chunk
    <2> QED BY <1>8, <2>2, <2>4 DEF Same
<1> QED BY <1>9, <1>10, <1>11, <1>12 DEF target, size

\* Counting nothing.
LEMMA NoMatches ==
    ASSUME NEW candidate, NEW targets, \A u \in targets : ~Same(candidate, u)
    PROVE  Cardinality({u \in targets : Same(candidate, u)}) = 0
<1>1. {u \in targets : Same(candidate, u)} = {}
    OBVIOUS
<1> QED BY <1>1, FS_EmptySet

\* second_preimage_screen: no candidate is the target.
LEMMA PreimageGoes ==
    ASSUME AttackIInv, SecondPreimage
    PROVE  AttackStep
<1> DEFINE target == TargetMessage(0, PreimageChunks)
<1>0. Target(PreimageChunks) /\ PreimageSamples \in Nat
    BY AttackAssumption DEF Target
<1>1. \A at : In("second_preimage", at) => screen = 5 /\ phase = at
    BY AtScreen
<1>2. screen = 5 /\ screen \in 1..10 /\ StepsAsked = PreimageSamples
    BY <1>1, AskedSteps DEF SecondPreimage
<1>3. CASE OutOfMemory
    BY <1>2, <1>3, OutOfMemoryGoesOn
<1>4. ASSUME screen' = screen, failed' = failed,
             phase' \in {"running", "statistics", "compared", "verdict"},
             PreimageSoFar'
      PROVE  AttackStep
    BY <1>2, <1>4, InScreen
<1>5. CASE In("second_preimage", "entered") /\ ~OutOfMemory
    <2>1. GoTo("running") /\ UNCHANGED work
        BY <1>1, <1>5 DEF SecondPreimage
    <2>2. step' = 0 /\ matches' = 0
        BY <1>1, <1>5, <2>1 DEF AttackIInv, ScreensSoFar, work
    <2>3. screen' = screen /\ failed' = failed /\ phase' = "running"
        BY <2>1 DEF GoTo
    <2>4. PreimageSoFar'
        BY <1>0, <2>2, <2>3 DEF PreimageSoFar
    <2> QED BY <1>4, <2>3, <2>4
<1>6. ASSUME phase = "running" PROVE step \in 0..PreimageSamples /\ matches = 0
    BY <1>2, <1>6 DEF AttackIInv, PreimageSoFar, OfScreen
<1>7. CASE In("second_preimage", "running") /\ ~AllSamples(PreimageSamples)
           /\ ~OutOfMemory
    <2>1. HashCandidate(target, {target})
        BY <1>1, <1>7 DEF SecondPreimage
    <2>2. phase = "running"
        BY <1>1, <1>7
    <2>3. step \in Nat /\ step + 1 \in 0..PreimageSamples
        BY <1>0, <1>6, <1>7, <2>2 DEF AllSamples
    <2> DEFINE candidate == Candidate(target, step)
    <2>4. /\ ~Same(candidate, target)
          /\ DOMAIN candidate.chunks = DOMAIN target
          /\ candidate.flips \subseteq 0..(PreimageChunks * ChunkLength - 1)
        BY <1>0, <2>3, CandidateOther
    <2> HIDE DEF candidate, target
    <2>5. /\ first' = target /\ second' = candidate /\ step' = step + 1
          /\ matches' = matches
                 + Cardinality({u \in {target} : Same(second', u)})
          /\ Continue
        BY <2>1 DEF HashCandidate, candidate
    <2>6. Cardinality({u \in {target} : Same(candidate, u)}) = 0
        BY <2>4, NoMatches
    <2>7. matches' = 0
        BY <1>6, <2>2, <2>5, <2>6
    <2>8. PreimageSoFar'
        BY <2>3, <2>4, <2>5, <2>7 DEF PreimageSoFar
    <2> QED BY <1>4, <2>2, <2>5, <2>8 DEF Continue
<1>8. CASE In("second_preimage", "running") /\ AllSamples(PreimageSamples)
    <2>1. PICK near \in BOOLEAN : Judge(matches = 0, near)
        BY <1>1, <1>8 DEF SecondPreimage
    <2>2. phase = "running"
        BY <1>1, <1>8
    <2>3. (matches = 0) = TRUE
        BY <1>6, <2>2
    <2>4. step = StepsAsked
        BY <1>0, <1>2, <1>6, <1>8, <2>2 DEF AllSamples
    <2> QED BY <1>2, <2>1, <2>3, <2>4, JudgeGoesOn
<1> QED BY <1>3, <1>5, <1>7, <1>8 DEF SecondPreimage

\* multi_target_screen: no candidate is any of the targets.
LEMMA TargetsGoes ==
    ASSUME AttackIInv, MultiTarget
    PROVE  AttackStep
<1> DEFINE base == TargetMessage(step % Targets, TargetChunks)
           candidate == Candidate(base, step)
<1>0. /\ Target(TargetChunks) /\ TargetSamples \in Nat
      /\ Targets \in Nat \ {0}
    BY AttackAssumption DEF Target
<1>1. \A at : In("multi_target", at) => screen = 9 /\ phase = at
    BY AtScreen
<1>2. screen = 9 /\ screen \in 1..10 /\ StepsAsked = TargetSamples
    BY <1>1, AskedSteps DEF MultiTarget
<1>3. CASE OutOfMemory
    BY <1>2, <1>3, OutOfMemoryGoesOn
<1>4. ASSUME screen' = screen, failed' = failed,
             phase' \in {"running", "statistics", "compared", "verdict"},
             TargetsSoFar'
      PROVE  AttackStep
    BY <1>2, <1>4, InScreen
<1>5. CASE In("multi_target", "entered") /\ ~OutOfMemory
    <2>1. GoTo("running") /\ UNCHANGED work
        BY <1>1, <1>5 DEF MultiTarget
    <2>2. step' = 0 /\ matches' = 0
        BY <1>1, <1>5, <2>1 DEF AttackIInv, ScreensSoFar, work
    <2>3. screen' = screen /\ failed' = failed /\ phase' = "running"
        BY <2>1 DEF GoTo
    <2>4. TargetsSoFar'
        BY <1>0, <2>2, <2>3 DEF TargetsSoFar
    <2> QED BY <1>4, <2>3, <2>4
<1>6. ASSUME phase = "running" PROVE step \in 0..TargetSamples /\ matches = 0
    BY <1>2, <1>6 DEF AttackIInv, TargetsSoFar, OfScreen
<1>7. CASE In("multi_target", "running") /\ ~AllSamples(TargetSamples)
           /\ ~OutOfMemory
    <2>1. phase = "running"
        BY <1>1, <1>7
    <2>2. step \in Nat /\ step + 1 \in 0..TargetSamples
        BY <1>0, <1>6, <1>7, <2>1 DEF AllSamples
    <2>3. /\ ~Same(candidate, base)
          /\ DOMAIN candidate.chunks = DOMAIN base
          /\ candidate.flips \subseteq 0..(TargetChunks * ChunkLength - 1)
          /\ \A s : s # step % Targets => ~Same(candidate, TargetMessage(s, TargetChunks))
        BY <1>0, <2>2, CandidateOther
    <2>4. \A u \in AllTargets : ~Same(candidate, u)
        BY <2>3 DEF AllTargets
    <2>5. HashCandidate(base, AllTargets)
        <3>1. ~\E u \in AllTargets : Same(Candidate(base, step), u)
            BY <2>4
        <3> QED BY <1>1, <1>7, <2>1, <3>1 DEF MultiTarget
    <2>6. /\ first' = base /\ second' = candidate /\ step' = step + 1
          /\ matches' = matches
                 + Cardinality({u \in AllTargets : Same(second', u)})
          /\ Continue
        BY <2>5 DEF HashCandidate
    <2> HIDE DEF candidate, base
    <2>7. Cardinality({u \in AllTargets : Same(candidate, u)}) = 0
        BY <2>4, NoMatches
    <2>8. matches' = 0
        BY <1>6, <2>1, <2>6, <2>7
    <2>9. AllTargets' = AllTargets
        BY DEF AllTargets
    <2>10. TargetsSoFar'
        BY <2>2, <2>3, <2>4, <2>6, <2>8, <2>9 DEF TargetsSoFar
    <2> QED BY <1>4, <2>1, <2>6, <2>10 DEF Continue
<1>8. CASE In("multi_target", "running") /\ AllSamples(TargetSamples)
    <2>1. PICK near \in BOOLEAN : Judge(matches = 0, near)
        BY <1>1, <1>8 DEF MultiTarget
    <2>2. phase = "running"
        BY <1>1, <1>8
    <2>3. (matches = 0) = TRUE
        BY <1>6, <2>2
    <2>4. step = StepsAsked
        BY <1>0, <1>2, <1>6, <1>8, <2>2 DEF AllSamples
    <2> QED BY <1>2, <2>1, <2>3, <2>4, JudgeGoesOn
<1> QED BY <1>3, <1>5, <1>7, <1>8 DEF MultiTarget

-----------------------------------------------------------------------------
(* The subtrees the screens make *)

\* The recursion over the leaves has a solution, so Pushes follows it.
LEMMA PushesFollow ==
    ASSUME NEW reader, NEW offset, NEW length \in Nat \ {0}
    PROVE  LET f == Pushes(reader, offset, length) IN
           /\ f[0] = [ok |-> TRUE, workspace |-> EmptyWorkspace]
           /\ \A k \in 0..(LeafCount(length) - 1) :
                  f[k + 1] = PushNext(f[k], reader, offset, length, k * LeafBytes)
<1> DEFINE last == LeafCount(length)
           begun == [ok |-> TRUE, workspace |-> EmptyWorkspace]
           Step(f, k) == IF k = 0 THEN begun
                         ELSE PushNext(f[k - 1], reader, offset, length,
                                       (k - 1) * LeafBytes)
           Solves(f, n) == \A k \in 0..n : f[k] = Step(f, k)
           Eqn(f) == f = [k \in 0..last |-> Step(f, k)]
           T == {n \in 0..last : \E f : Solves(f, n)}
<1>0. last \in Nat
    BY LeavesCover
<1>00. Pushes(reader, offset, length) = CHOOSE h : Eqn(h)
    BY DEF Pushes
<1> HIDE DEF last, begun
<1>1. 0 \in T
    <2> DEFINE f == [k \in {0} |-> begun]
    <2>1. f[0] = begun
        OBVIOUS
    <2> HIDE DEF f
    <2>2. Solves(f, 0)
        BY <2>1
    <2> QED BY <1>0, <2>2
<1>2. ASSUME NEW n \in 0..(last - 1), n \in T PROVE n + 1 \in T
    <2>1. PICK f : Solves(f, n)
        BY <1>2
    <2> DEFINE g == [k \in 0..last |-> Step(f, k)]
    <2>2. n + 1 \in 0..last
        BY <1>0
    <2>3. \A k \in 0..(n + 1) : g[k] = Step(f, k)
        BY <1>0, <2>2
    <2> HIDE DEF g
    <2>4. ASSUME NEW k \in 0..(n + 1) PROVE Step(f, k) = Step(g, k)
        <3>1. CASE k = 0
            BY <3>1
        <3>2. CASE k # 0
            <4>1. k - 1 \in 0..n /\ k - 1 \in 0..(n + 1)
                BY <3>2
            <4>2. g[k - 1] = f[k - 1]
                <5> HIDE DEF Step
                <5> QED BY <2>1, <2>3, <4>1
            <4> QED BY <3>2, <4>2
        <3> QED BY <3>1, <3>2
    <2> HIDE DEF Step
    <2>5. Solves(g, n + 1)
        BY <2>3, <2>4
    <2> QED BY <2>2, <2>5
<1> HIDE DEF T
<1>3. last \in T
    <2>1. \A k \in 0..last : k \in T
        BY <1>0, <1>1, <1>2, BoundedInduction
    <2> QED BY <1>0, <2>1
<1>4. PICK f : Solves(f, last)
    BY <1>3 DEF T
<1> DEFINE g == [k \in 0..last |-> f[k]]
<1>5. \A k \in 0..last : g[k] = f[k]
    OBVIOUS
<1> HIDE DEF g
<1>6. ASSUME NEW k \in 0..last PROVE Step(f, k) = Step(g, k)
    <2>1. CASE k = 0
        BY <2>1
    <2>2. CASE k # 0
        <3>1. k - 1 \in 0..last
            BY <1>0, <2>2
        <3> QED BY <1>5, <2>2, <3>1
    <2> QED BY <2>1, <2>2
<1>7. \A k \in 0..last : f[k] = Step(f, k)
    BY <1>4
<1> HIDE DEF Step
<1>8. g = [k \in 0..last |-> Step(g, k)]
    BY <1>6, <1>7 DEF g
<1>9. \E h : Eqn(h)
    BY <1>8
<1> DEFINE c == Pushes(reader, offset, length)
<1> HIDE DEF c
<1>10. c = CHOOSE h : Eqn(h)
    BY <1>00 DEF c
<1>11. Eqn(c)
    BY <1>9, <1>10
<1>12. \A k \in 0..last : c[k] = Step(c, k)
    BY <1>11
<1>13. c[0] = begun
    BY <1>0, <1>12 DEF Step
<1>14. ASSUME NEW k \in 0..(last - 1)
       PROVE  c[k + 1] = PushNext(c[k], reader, offset, length, k * LeafBytes)
    <2>1. k + 1 \in 0..last /\ k + 1 # 0 /\ (k + 1) - 1 = k
        BY <1>0
    <2>2. c[k + 1] = Step(c, k + 1)
        BY <1>12, <2>1
    <2>3. Step(c, k + 1) = PushNext(c[k], reader, offset, length, k * LeafBytes)
        BY <2>1 DEF Step
    <2> QED BY <2>2, <2>3
<1> QED BY <1>13, <1>14 DEF c, begun, last

\* make_subtree makes the node of the reference.
LEMMA SubtreeMade ==
    ASSUME NEW message, NEW n, n = Len(message), NEW offset \in Nat, n \in Nat,
           RangeAccepted(offset, n)
    PROVE  MakeSubtree(message, offset)
               = TreeNode(PositionedReader(message, offset), offset, n)
<1> DEFINE reader == PositionedReader(message, offset)
           f == Pushes(reader, offset, n)
           last == LeafCount(n)
           T == {k \in 0..last :
                    f[k].ok /\ Counts(f[k].workspace, reader, offset, n, k)}
<1>1. /\ n \in Nat \ {0} /\ last \in Nat \ {0} /\ last <= n
    BY AcceptedRange
<1>2. DOMAIN reader = offset..(offset + n - 1)
    BY DEF PositionedReader
<1>3. Serves(reader, reader)
    BY DEF Serves
<1> HIDE DEF reader
<1>4. /\ f[0] = [ok |-> TRUE, workspace |-> EmptyWorkspace]
      /\ \A k \in 0..(last - 1) :
             f[k + 1] = PushNext(f[k], reader, offset, n, k * LeafBytes)
    BY <1>1, PushesFollow, ZenonT(60)
<1> HIDE DEF f
<1>5. 0 \in T
    <2>1. f[0].ok = TRUE /\ f[0].workspace = EmptyWorkspace
        BY <1>4
    <2>2. Counts(f[0].workspace, reader, offset, n, 0)
        BY <2>1, EmptyCounts
    <2> QED BY <1>1, <2>1, <2>2
<1>6. ASSUME NEW k \in 0..(last - 1), k \in T PROVE k + 1 \in T
    <2> DEFINE at == k * LeafBytes
               count == IF n - at > LeafBytes THEN LeafBytes ELSE n - at
               push == PushLeaf(f[k].workspace, reader, offset + at, count)
    <2>1. f[k].ok /\ Counts(f[k].workspace, reader, offset, n, k)
        BY <1>6
    <2>2. f[k + 1] = push
        BY <1>4, <2>1 DEF PushNext
    <2>3. k \in Nat /\ k < last
        BY <1>1
    <2>4. at \in Nat /\ count \in Nat \ {0} /\ at + count <= n
        <3>1. PICK first_ : first_ = at
            OBVIOUS
        <3>2. PICK count_ : count_ = IF n - first_ > LeafBytes THEN LeafBytes
                                     ELSE n - first_
            OBVIOUS
        <3>3. /\ first_ \in Nat /\ count_ \in Nat \ {0} /\ first_ + count_ <= n
              /\ Over(reader, offset, n, k, k + 1)
                     = LeafNode(reader, offset + first_, count_)
            BY <2>3, <3>1, <3>2, LeafIsOver
        <3> QED BY <3>1, <3>2, <3>3
    <2>5. (offset + at)..(offset + at + count - 1) \subseteq DOMAIN reader
        <3> HIDE DEF at, count
        <3> QED BY <1>1, <1>2, <2>4
    <2>6. push.ok /\ Counts(push.workspace, reader, offset, n, k + 1)
        BY <1>3, <2>1, <2>3, <2>5, LeafTaken
    <2>7. k + 1 \in 0..last
        BY <1>1
    <2> QED BY <2>2, <2>6, <2>7
<1> HIDE DEF T
<1>7. last \in T
    <2>1. \A k \in 0..last : k \in T
        BY <1>1, <1>5, <1>6, BoundedInduction
    <2> QED BY <1>1, <2>1
<1>8. f[last].ok /\ Counts(f[last].workspace, reader, offset, n, last)
    BY <1>7 DEF T
<1>9. /\ FoldAccepted(f[last].workspace, PositionOf(offset, n))
      /\ Root(f[last].workspace) = TreeNode(reader, offset, n)
    BY <1>1, <1>8, FoldCounts
<1>10. Pushed(message, offset) = f[last]
    BY DEF Pushed, f, reader
<1>11. MakeSubtree(message, offset) = RootOf(f[last], PositionOf(offset, n))
    BY <1>10 DEF MakeSubtree
<1> QED BY <1>8, <1>9, <1>11 DEF RootOf, reader

\* The subtree over a part of a message is the node of the whole message there.
LEMMA PartMade ==
    ASSUME NEW S, NEW message \in Seq(S), NEW base \in Nat, NEW cut \in Nat,
           NEW m \in Nat \ {0}, cut + m <= Len(message),
           RangeAccepted(base + cut, m)
    PROVE  MakeSubtree(SubSeq(message, cut + 1, cut + m), base + cut)
               = TreeNode(PositionedReader(message, base), base + cut, m)
<1> DEFINE part == SubSeq(message, cut + 1, cut + m)
           at == base + cut
           one == PositionedReader(part, at)
           whole == PositionedReader(message, base)
           N == Len(message)
<1>1. N \in Nat /\ at \in Nat /\ cut + m \in Nat /\ at + m \in Nat
    BY LenProperties
<1>2. cut + 1 \in 1..(N + 1) /\ cut + m \in ((cut + 1) - 1)..N
    BY <1>1
<1>3. /\ Len(part) = ((cut + m) - (cut + 1)) + 1
      /\ \A i \in 1..(((cut + m) - (cut + 1)) + 1) : part[i] = message[((cut + 1) + i) - 1]
    BY <1>1, <1>2, SubSeqProperties
<1>4. Len(part) = m
    BY <1>1, <1>3
<1>5. ASSUME NEW o \in at..(at + m - 1) PROVE one[o] = whole[o]
    <2>1. o \in at..((at + Len(part)) - 1) /\ o \in base..((base + N) - 1)
        BY <1>1, <1>4
    <2>2. one[o] = part[(o - at) + 1] /\ whole[o] = message[(o - base) + 1]
        BY <2>1 DEF PositionedReader
    <2> DEFINE i == (o - at) + 1
    <2>3. /\ i \in 1..(((cut + m) - (cut + 1)) + 1)
          /\ ((cut + 1) + i) - 1 = (o - base) + 1
        BY <1>1
    <2> HIDE DEF i
    <2>4. part[i] = message[((cut + 1) + i) - 1]
        BY <1>3, <2>3
    <2> QED BY <2>2, <2>3, <2>4 DEF i
<1> HIDE DEF part, one, whole
<1>6. MakeSubtree(part, at) = TreeNode(one, at, m)
    BY <1>1, <1>4, SubtreeMade DEF one
<1>7. Agree(one, whole, at, at + m)
    BY <1>5 DEF Agree
<1>8. at + m <= SizeMax
    BY <1>1, AcceptedRange
<1> HIDE DEF at
<1>9. SameNode(one, whole, at, m)
    BY <1>1, <1>7, <1>8, NodeIsLocal
<1> QED BY <1>6, <1>9 DEF SameNode, at, part, whole

\* Where a node of the reference stands.
LEMMA TreeStands ==
    ASSUME NEW bytes, NEW from \in Nat, NEW count \in Nat \ {0},
           Leaves(from + count) <= SizeMax
    PROVE  StandsAt(TreeNode(bytes, Leaves(from), Leaves(count)), from, count)
<1>1. Leaves(from) \in Nat /\ Leaves(count) \in Nat \ {0}
      /\ RangeAccepted(Leaves(from), Leaves(count))
    BY WholeRange
<1>2. Leaves(from) + Leaves(count) <= SizeMax
    BY <1>1, AcceptedRange
<1>3. <<Leaves(from), Leaves(count)>> \in Ranges
    BY <1>1, <1>2, SizeMaxLarge DEF Ranges
<1> QED BY <1>3, NodePlace DEF TreeNode, StandsAt

\* The same in leaves.
LEMMA LeavesMade ==
    ASSUME NEW S, NEW message \in Seq(S), NEW n \in Nat, Len(message) = Leaves(n),
           NEW base \in Nat, NEW cut \in Nat, NEW m \in Nat \ {0}, cut + m <= n,
           Leaves(base + n) <= SizeMax
    PROVE  LET node == MakeSubtree(SubSeq(message, Leaves(cut) + 1, Leaves(cut + m)),
                                   Leaves(base + cut))
           IN
           /\ node = TreeNode(PositionedReader(message, Leaves(base)),
                              Leaves(base + cut), Leaves(m))
           /\ StandsAt(node, base + cut, m)
<1>1. LeafBytes \in Nat \ {0} /\ SizeMax \in Nat
    BY ScheduleAssumption, SizeMaxLarge
<1>2. /\ base + cut \in Nat /\ (base + cut) + m \in Nat /\ base + n \in Nat
      /\ (base + cut) + m <= base + n
    OBVIOUS
<1>3. Leaves((base + cut) + m) <= Leaves(base + n)
    BY <1>1, <1>2, TimesMonotone DEF Leaves
<1>4. Leaves((base + cut) + m) <= SizeMax
    <2>1. Leaves((base + cut) + m) \in Nat /\ Leaves(base + n) \in Nat
        BY <1>1, <1>2, LeavesDivided
    <2> QED BY <1>1, <1>3, <2>1
<1>5. /\ Leaves(base) \in Nat /\ Leaves(cut) \in Nat /\ Leaves(m) \in Nat \ {0}
      /\ Leaves(base + cut) = Leaves(base) + Leaves(cut)
      /\ Leaves(cut + m) = Leaves(cut) + Leaves(m)
      /\ Leaves(cut + m) <= Leaves(n)
      /\ RangeAccepted(Leaves(base + cut), Leaves(m))
    <2>1. Leaves(m) \in Nat \ {0} /\ RangeAccepted(Leaves(base + cut), Leaves(m))
        BY <1>2, <1>4, WholeRange
    <2>2. Leaves(base) \in Nat /\ Leaves(cut) \in Nat
        BY LeavesDivided
    <2>3. /\ Leaves(base + cut) = Leaves(base) + Leaves(cut)
          /\ Leaves(cut + m) = Leaves(cut) + Leaves(m)
        BY <1>1 DEF Leaves
    <2>4. Leaves(cut + m) <= Leaves(n)
        <3>1. cut + m \in Nat
            OBVIOUS
        <3> QED BY <1>1, <3>1, TimesMonotone DEF Leaves
    <2> QED BY <2>1, <2>2, <2>3, <2>4
<1>6. MakeSubtree(SubSeq(message, Leaves(cut) + 1, Leaves(cut) + Leaves(m)),
                  Leaves(base) + Leaves(cut))
          = TreeNode(PositionedReader(message, Leaves(base)),
                     Leaves(base) + Leaves(cut), Leaves(m))
    BY <1>5, PartMade
<1>7. StandsAt(TreeNode(PositionedReader(message, Leaves(base)),
                        Leaves(base + cut), Leaves(m)), base + cut, m)
    BY <1>2, <1>4, TreeStands
<1> QED BY <1>5, <1>6, <1>7

-----------------------------------------------------------------------------
(* canonical_partition_screen *)

\* Random filling is a sequence.
LEMMA RandomIs ==
    ASSUME NEW stream, NEW seed, NEW length \in Nat
    PROVE  \E S : Random(stream, seed, length) \in Seq(S)
<1> DEFINE S == {<<stream, seed, i>> : i \in 1..length}
<1>1. Random(stream, seed, length) \in [1..length -> S]
    BY DEF Random
<1> HIDE DEF S
<1>2. Random(stream, seed, length) \in Seq(S)
    BY <1>1
<1> QED BY <1>2

\* The halves of a partition at any boundary.
LEMMA HalvesStand ==
    ASSUME NEW n \in Nat, NEW from \in Nat, Leaves(from + n) <= SizeMax,
           NEW left \in 1..(n - 1)
    PROVE  LET halves == Partition(n, Leaves(from), left)
               reader == PositionedReader(PartitionMessage(n), Leaves(from))
           IN
           /\ halves = << TreeNode(reader, Leaves(from), Leaves(left)),
                          TreeNode(reader, Leaves(from + left), Leaves(n - left)) >>
           /\ StandsAt(halves[1], from, left)
           /\ StandsAt(halves[2], from + left, n - left)
<1> DEFINE message == PartitionMessage(n)
           reader == PositionedReader(message, Leaves(from))
           one == MakeSubtree(SubSeq(message, 1, Leaves(left)), Leaves(from))
           other == MakeSubtree(SubSeq(message, Leaves(left) + 1, Len(message)),
                                Leaves(from) + Leaves(left))
<1>1. Leaves(n) \in Nat
    BY LeavesDivided
<1>2. Len(message) = Leaves(n) /\ \E S : message \in Seq(S)
    BY <1>1, RandomLength, RandomIs DEF PartitionMessage
<1>3. PICK S : message \in Seq(S)
    BY <1>2
<1>4. Partition(n, Leaves(from), left) = <<one, other>>
    BY DEF Partition
<1> HIDE DEF message
<1>5. /\ left \in Nat \ {0} /\ n - left \in Nat \ {0} /\ 0 + left <= n
      /\ left + (n - left) = n /\ 0 + left = left /\ from + 0 = from /\ left \in Nat
      /\ 0 \in Nat /\ left + (n - left) <= n
    OBVIOUS
<1>6. /\ Leaves(0) + 1 = 1 /\ Leaves(from + left) = Leaves(from) + Leaves(left)
    BY ScheduleAssumption DEF Leaves
<1>7. /\ one = TreeNode(reader, Leaves(from), Leaves(left))
      /\ StandsAt(one, from, left)
    <2> DEFINE node == MakeSubtree(SubSeq(message, Leaves(0) + 1, Leaves(0 + left)),
                                   Leaves(from + 0))
    <2>1. /\ node = TreeNode(reader, Leaves(from + 0), Leaves(left))
          /\ StandsAt(node, from + 0, left)
        BY <1>2, <1>3, <1>5, LeavesMade
    <2>2. node = one
        BY <1>5, <1>6
    <2> QED BY <1>5, <2>1, <2>2
<1>8. /\ other = TreeNode(reader, Leaves(from + left), Leaves(n - left))
      /\ StandsAt(other, from + left, n - left)
    <2> DEFINE node == MakeSubtree(SubSeq(message, Leaves(left) + 1,
                                          Leaves(left + (n - left))),
                                   Leaves(from + left))
    <2>1. /\ node = TreeNode(reader, Leaves(from + left), Leaves(n - left))
          /\ StandsAt(node, from + left, n - left)
        BY <1>2, <1>3, <1>5, LeavesMade
    <2>2. node = other
        BY <1>2, <1>5, <1>6
    <2> QED BY <2>1, <2>2
<1> HIDE DEF one, other, reader
<1>9. <<one, other>>[1] = one /\ <<one, other>>[2] = other
    OBVIOUS
<1> QED BY <1>4, <1>7, <1>8, <1>9 DEF reader, message

\* The canonical boundary, and that combining there is taken and gives the
\* subtree made of the whole.
LEMMA CanonicalGoes ==
    ASSUME NEW n \in Nat, n >= 2, NEW from \in Nat, Leaves(from + n) <= SizeMax
    PROVE  LET left == CanonicalLeft(n, Leaves(from)) IN
           /\ left \in 1..(n - 1)
           /\ CanonicalTaken(Partition(n, Leaves(from), left), n, Leaves(from))
<1> DEFINE offset == Leaves(from)
           length == Leaves(n)
           k == LeastExponentAbove((n - 1) \div 2)
           p == Pow2[k]
           message == PartitionMessage(n)
           reader == PositionedReader(message, offset)
<1>0. n \in Nat \ {0} /\ from + n \in Nat
    OBVIOUS
<1>1. /\ offset \in Nat /\ length \in Nat \ {0} /\ LeafCount(length) = n
      /\ RangeAccepted(offset, length)
    BY <1>0, WholeRange
<1>2. /\ k \in 0..(WorkspaceSlots - 1) /\ LargestPowerOfTwoBelow(n) = p
      /\ p \in Nat \ {0} /\ p < n /\ n <= 2 * p
      /\ LeafCount(p * LeafBytes) = p
    BY <1>1, SplitNumbers
<1>3. SplitAccepted(PositionOf(offset, length))
    BY <1>1, SplitAlways
<1>4. CanonicalLeft(n, offset) = p
    BY <1>1, <1>2 DEF CanonicalLeft, Children, PositionOf, LeftLength
<1>5. p \in 1..(n - 1) /\ n - p \in 1..p /\ p + (n - p) = n /\ k \in 0..WorkspaceSlots
    BY <1>2, ScheduleAssumption
<1> DEFINE halves == Partition(n, offset, p)
           one == TreeNode(reader, Leaves(from), Leaves(p))
           other == TreeNode(reader, Leaves(from + p), Leaves(n - p))
<1>6. halves = <<one, other>> /\ StandsAt(halves[1], from, p)
      /\ StandsAt(halves[2], from + p, n - p)
    BY <1>5, HalvesStand
<1>7. Len(message) = length
    BY <1>1, RandomLength DEF PartitionMessage
<1>8. MakeSubtree(message, offset) = TreeNode(reader, offset, length)
    BY <1>1, <1>7, SubtreeMade
<1>9. /\ Leaves(p) \in Nat \ {0} /\ Leaves(n - p) \in Nat \ {0}
      /\ Leaves(p) = p * LeafBytes /\ Leaves(p) + Leaves(n - p) = length
      /\ LeafCount(Leaves(n - p)) = n - p
      /\ Leaves(from + p) = offset + Leaves(p)
      /\ length - Leaves(p) = Leaves(n - p)
    <2>1. /\ p \in Nat \ {0} /\ n - p \in Nat \ {0}
        BY <1>2
    <2>2. /\ Leaves(p) \in Nat \ {0} /\ Leaves(n - p) \in Nat \ {0}
          /\ LeafCount(Leaves(n - p)) = n - p
        BY <2>1, LeavesOfWhole DEF Leaves
    <2>3. Leaves(p) = p * LeafBytes
        BY DEF Leaves
    <2>4. Leaves(p + (n - p)) = Leaves(p) + Leaves(n - p)
        BY <2>1, ScheduleAssumption DEF Leaves
    <2>5. Leaves(from + p) = offset + Leaves(p)
        BY <2>1, ScheduleAssumption DEF Leaves
    <2> QED BY <1>1, <1>5, <2>2, <2>3, <2>4, <2>5
<1> HIDE DEF one, other, p, halves, reader, message
<1>10. <<one, other>>[1] = one /\ <<one, other>>[2] = other
    OBVIOUS
<1>11. StandsAt(one, from, p) /\ StandsAt(other, from + p, n - p)
    BY <1>6, <1>10
<1>12. Takes(<<one, other>>, BlocksOf(<<Leaves(p), Leaves(n - p)>>), length)
    <2>1. Leaves(from + (p + (n - p))) <= SizeMax
        BY <1>5
    <2>2. Takes(<<one, other>>, BlocksOf(<<Leaves(p), Leaves(n - p)>>), Leaves(p + (n - p)))
        BY <1>5, <1>11, <2>1, SiblingsTaken DEF p
    <2> QED BY <1>5, <2>2
<1>13. Joins(one, other, TreeNode(reader, offset, length))
    <2>1. RangeAccepted(offset, Leaves(p) + Leaves(n - p))
        BY <1>1, <1>9
    <2>2. k \in Nat /\ Leaves(p) = Pow2[k] * LeafBytes /\ LeafCount(Leaves(n - p)) <= Pow2[k]
        BY <1>2, <1>5, <1>9 DEF p
    <2>3. Joins(TreeNode(reader, offset, Leaves(p)),
                TreeNode(reader, offset + Leaves(p), Leaves(n - p)),
                TreeNode(reader, offset, Leaves(p) + Leaves(n - p)))
        BY <1>1, <1>9, <2>1, <2>2, SiblingsCombine
    <2> QED BY <1>9, <2>3 DEF one, other
<1>14. one.tree.byte_length = Leaves(p) /\ other.tree.byte_length = Leaves(n - p)
    BY <1>11 DEF StandsAt, PositionOf
<1>15. CombineState(<<one, other>>, length) = MakeSubtree(message, offset)
    <2>1. CombineSlots(one, other) = TreeNode(reader, offset, length)
        BY <1>13 DEF Joins
    <2>2. CombineSlots(one, other) = Combine(one, other, length)
        BY <1>9, <1>14 DEF CombineSlots
    <2> QED BY <1>8, <1>10, <2>1, <2>2 DEF CombineState
<1>16. CanonicalTaken(<<one, other>>, n, offset)
    BY <1>3, <1>9, <1>10, <1>12, <1>14, <1>15 DEF CanonicalTaken, message
<1> QED BY <1>4, <1>5, <1>6, <1>16 DEF halves

\* At another boundary the halves are refused, and the other way round too.
LEMMA OthersRefused ==
    ASSUME NEW n \in Nat, n >= 2, NEW from \in Nat, Leaves(from + n) <= SizeMax,
           NEW left \in 1..(n - 1)
    PROVE  LET halves == Partition(n, Leaves(from), left) IN
           /\ ~ReversedTaken(halves, n)
           /\ left # CanonicalLeft(n, Leaves(from)) => ~AlternativeTaken(halves, n, left)
<1> DEFINE halves == Partition(n, Leaves(from), left)
           reader == PositionedReader(PartitionMessage(n), Leaves(from))
           one == TreeNode(reader, Leaves(from), Leaves(left))
           other == TreeNode(reader, Leaves(from + left), Leaves(n - left))
<1>1. /\ halves = <<one, other>> /\ StandsAt(halves[1], from, left)
      /\ StandsAt(halves[2], from + left, n - left)
    BY HalvesStand
<1> HIDE DEF one, other, halves
<1>2. <<one, other>>[1] = one /\ <<one, other>>[2] = other
    OBVIOUS
<1>3. StandsAt(one, from, left) /\ StandsAt(other, from + left, n - left)
    BY <1>1, <1>2
<1>4. /\ left \in Nat \ {0} /\ n - left \in Nat \ {0} /\ from + left \in Nat
      /\ (from + left) + (n - left) = from + n
    OBVIOUS
<1>5. Leaves(from + left) <= SizeMax
    <2>1. from + left <= from + n /\ from + n \in Nat
        BY <1>4
    <2>2. Leaves(from + left) <= Leaves(from + n)
        BY <1>4, <2>1, ScheduleAssumption, TimesMonotone DEF Leaves
    <2>3. Leaves(from + left) \in Nat /\ Leaves(from + n) \in Nat
        BY <1>4, <2>1, LeavesDivided
    <2> QED BY <2>2, <2>3, SizeMaxLarge
<1>6. ~ReversedTaken(halves, n)
    <2>1. ASSUME NEW blocks, NEW total, Takes(<<other, one>>, blocks, total) PROVE FALSE
        <3>1. PICK a \in Nat : a = from + left
            BY <1>4
        <3>2. PICK c \in Nat \ {0} : c = n - left
            BY <1>4
        <3>3. Leaves(a + c) <= SizeMax /\ Leaves(from + left) <= SizeMax
            BY <1>4, <1>5, <3>1, <3>2
        <3>4. StandsAt(other, a, c) /\ StandsAt(one, from, left) /\ left \in Nat \ {0}
            BY <1>3, <1>4, <3>1, <3>2
        <3>5. from = a + c
            BY <2>1, <3>3, <3>4, TakenAreSiblings
        <3> QED BY <1>4, <3>1, <3>2, <3>5
    <2>2. Reverse(<<one, other>>) = <<other, one>>
        BY DEF Reverse
    <2> QED BY <1>1, <2>1, <2>2 DEF ReversedTaken
<1>7. ASSUME AlternativeTaken(halves, n, left)
      PROVE  left = CanonicalLeft(n, Leaves(from))
    <2>1. CombineAccepted(one, other, BlocksOf(<<Leaves(left), Leaves(n - left)>>),
                          Leaves(n))
        BY <1>1, <1>2, <1>7 DEF AlternativeTaken, Takes
    <2>2. one.tree.byte_offset = Leaves(from) /\ one.tree.leaf_count = left
        BY <1>3, <1>4, LeavesOfWhole DEF StandsAt, PositionOf, Leaves
    <2>3. << one.tree, other.tree >> = Children(PositionOf(Leaves(from), Leaves(n)))
        BY <2>1, <2>2 DEF CombineAccepted
    <2>4. one.tree = Children(PositionOf(Leaves(from), Leaves(n)))[1]
        BY <2>3
    <2> QED BY <2>2, <2>4 DEF CanonicalLeft
<1> QED BY <1>6, <1>7 DEF halves

\* The number of leaves and the offset of a step.
LEMMA PartitionOf ==
    ASSUME step \in 0..(3 * LeafCounts - 1)
    PROVE  /\ PartitionLeaves \in Nat /\ PartitionLeaves >= 2
           /\ \E from \in Nat : /\ PartitionOffset = Leaves(from)
                                /\ Leaves(from + PartitionLeaves) <= SizeMax
<1>1. /\ MinLeaves \in Nat /\ MaxLeaves \in Nat /\ 2 <= MinLeaves
      /\ MinLeaves <= MaxLeaves
      /\ \A n \in 0..(MaxLeaves + 7) : Leaves(n) \in Nat /\ Leaves(n) <= SizeMax
    BY ScreensFit
<1>2. PICK c \in Nat \ {0} : c = LeafCounts /\ MinLeaves + c = MaxLeaves + 1
    BY <1>1 DEF LeafCounts
<1>3. step \in Nat /\ step < 3 * c
    BY <1>2
<1>4. step % c \in 0..(c - 1) /\ step \div c \in Nat /\ step = (c * (step \div c)) + (step % c)
    BY <1>3, DivMod
<1>5. step \div c \in 0..2
    <2>1. CASE 3 <= step \div c
        <3>1. c * 3 <= c * (step \div c)
            BY <1>2, <1>4, <2>1, TimesMonotone
        <3>2. c * (step \div c) \in Nat
            BY <1>2, <1>4
        <3> QED BY <1>2, <1>3, <1>4, <3>1, <3>2
    <2> QED BY <1>4, <2>1
<1>6. PartitionLeaves = MinLeaves + (step % c)
    BY <1>2 DEF PartitionLeaves
<1>7. PartitionLeaves \in 2..MaxLeaves
    BY <1>1, <1>2, <1>4, <1>6
<1>8. PICK from \in {0, 1, 7} : PartitionOffset = Leaves(from)
    <2>1. PartitionOffset = << 0, Leaves(1), Leaves(7) >>[(step \div c) + 1]
        BY <1>2 DEF PartitionOffset
    <2>2. Leaves(0) = 0
        BY ScheduleAssumption DEF Leaves
    <2>3. step \div c = 0 \/ step \div c = 1 \/ step \div c = 2
        BY <1>5
    <2>4. PICK i : i = (step \div c) + 1
        OBVIOUS
    <2>5. i = 1 \/ i = 2 \/ i = 3
        BY <2>3, <2>4
    <2> QED BY <2>1, <2>2, <2>4, <2>5
<1>9. from + PartitionLeaves \in 0..(MaxLeaves + 7) /\ from \in Nat
    BY <1>1, <1>7
<1> QED BY <1>1, <1>7, <1>8, <1>9

\* Counting a partition moves on to the next boundary.
LEMMA CountGoes ==
    ASSUME AttackIInv, screen = 3, phase = "running", step < 3 * LeafCounts,
           NEW accept \in {0, 1}, accept = 1 <=> sub = 0, CountPartition(accept, 1)
    PROVE  AttackStep
<1> DEFINE n == PartitionLeaves
           canonical == CanonicalLeft(n, PartitionOffset)
<1>1. /\ step \in 0..(3 * LeafCounts) /\ sub \in 0..(n - 1)
      /\ sub > 0 => sub # canonical
      /\ accepted = step + (IF sub = 0 THEN 0 ELSE 1)
      /\ rejected \in Nat /\ rejected = expected_rejected
    BY DEF AttackIInv, PartitionSoFar, OfScreen
<1>2. LeafCounts \in Nat /\ 3 * LeafCounts \in Nat
    BY ScreensFit DEF LeafCounts
<1>3. step \in 0..(3 * LeafCounts - 1)
    BY <1>1, <1>2
<1>4. n \in Nat /\ n >= 2
    BY <1>3, PartitionOf
<1>5. PICK from \in Nat : PartitionOffset = Leaves(from) /\ Leaves(from + n) <= SizeMax
    BY <1>3, PartitionOf
<1>6. canonical \in 1..(n - 1)
    BY <1>4, <1>5, CanonicalGoes
<1>7. /\ NextBoundary(sub)
      /\ accepted' = accepted + accept
      /\ rejected' = rejected + 1
      /\ expected_rejected' = expected_rejected + 1
      /\ screen' = screen /\ phase' = phase /\ failed' = failed
    BY DEF CountPartition, Continue
<1>8. accepted' = step + 1
    BY <1>1, <1>7
<1>9. rejected' \in Nat /\ rejected' = expected_rejected'
    BY <1>1, <1>7
<1> DEFINE next == IF sub + 1 = canonical THEN sub + 2 ELSE sub + 1
<1>10. IF next < n THEN step' = step /\ sub' = next ELSE step' = step + 1 /\ sub' = 0
    BY <1>7 DEF NextBoundary
<1>11. next \in Nat \ {0} /\ next # canonical
    BY <1>1, <1>4, <1>6
<1> HIDE DEF next, canonical
<1>12. CASE next < n
    <2>1. step' = step /\ sub' = next
        BY <1>10, <1>12
    <2>2. PartitionLeaves' = n /\ PartitionOffset' = PartitionOffset
        BY <2>1 DEF PartitionLeaves, PartitionOffset
    <2>3. CanonicalLeft(PartitionLeaves', PartitionOffset') = canonical
        BY <2>2 DEF canonical
    <2> HIDE DEF n
    <2>4. /\ step' \in 0..(3 * LeafCounts) /\ ~(step' = 3 * LeafCounts)
          /\ sub' \in 0..(n - 1) /\ sub' # 0 /\ sub' # canonical
          /\ accepted' = step' + 1
        BY <1>2, <1>3, <1>4, <1>8, <1>11, <1>12, <2>1
    <2>5. PartitionSoFar'
        BY <1>9, <2>2, <2>3, <2>4 DEF PartitionSoFar, LeafCounts
    <2> QED BY <1>7, <2>5, InScreen
<1>13. CASE ~(next < n)
    <2>1. step' = step + 1 /\ sub' = 0
        BY <1>10, <1>13
    <2>2. /\ step' \in 0..(3 * LeafCounts) /\ ~(sub' > 0)
          /\ accepted' = step' + 0
        BY <1>2, <1>3, <1>8, <2>1
    <2>3. step' < 3 * LeafCounts => sub' \in 0..(PartitionLeaves' - 1)
        <3>1. PartitionLeaves' = MinLeaves + (step' % LeafCounts)
            BY DEF PartitionLeaves, LeafCounts
        <3>2. LeafCounts \in Nat \ {0}
            BY ScreensFit DEF LeafCounts
        <3>3. step' % LeafCounts \in Nat
            <4>1. step' \in Nat
                BY <2>2
            <4>2. PICK c \in Nat \ {0} : c = LeafCounts
                BY <3>2
            <4>3. PICK s \in Nat : s = step'
                BY <4>1
            <4>4. s % c \in 0..(c - 1)
                BY DivMod
            <4>5. s % c \in Nat
                BY <4>4
            <4>6. s % c = step' % LeafCounts
                BY Zenon, <4>2, <4>3
            <4> QED BY Zenon, <4>5, <4>6
        <3>4. PartitionLeaves' - 1 >= 1 /\ PartitionLeaves' - 1 \in Nat
            BY <3>1, <3>3, ScreensFit
        <3> QED BY <2>1, <3>4
    <2>4. PartitionSoFar'
        BY <1>9, <2>1, <2>2, <2>3 DEF PartitionSoFar, LeafCounts
    <2> QED BY <1>7, <2>4, InScreen
<1> QED BY <1>12, <1>13

\* canonical_partition_screen: one partition of every length is taken, and no
\* other boundary and no other order.
LEMMA PartitionGoes ==
    ASSUME AttackIInv, PartitionScreen
    PROVE  AttackStep
<1> DEFINE n == PartitionLeaves
           canonical == CanonicalLeft(n, PartitionOffset)
           canonically == Canonically(Partition(n, PartitionOffset, canonical))
           otherwise == Alternatively(Partition(n, PartitionOffset, sub))
           judged == Judge(/\ accepted = 3 * LeafCounts
                           /\ rejected = expected_rejected, FALSE)
<1>1. \A at : In("canonical_partition", at) => screen = 3 /\ phase = at
    BY AtScreen
<1>0. \/ In("canonical_partition", "entered") /\ GoTo("running")
         /\ UNCHANGED work
      \/ In("canonical_partition", "running") /\ step < 3 * LeafCounts
         /\ sub = 0 /\ (OutOfMemory \/ canonically)
      \/ In("canonical_partition", "running") /\ step < 3 * LeafCounts
         /\ sub > 0 /\ (OutOfMemory \/ otherwise)
      \/ In("canonical_partition", "running") /\ step = 3 * LeafCounts
         /\ judged
    BY Zenon DEF PartitionScreen
<1> HIDE DEF canonically, otherwise, judged, n, canonical
<1>2. screen = 3 /\ screen \in 1..10 /\ StepsAsked = 3 * LeafCounts
    <2>1. screen = 3
        BY <1>0, <1>1
    <2> QED BY <2>1, AskedSteps
<1>3. CASE OutOfMemory
    BY <1>2, <1>3, OutOfMemoryGoesOn
<1>4. CASE In("canonical_partition", "entered")
    <2>1. GoTo("running") /\ UNCHANGED work
        BY <1>0, <1>1, <1>4
    <2>2. /\ step' = 0 /\ sub' = 0 /\ accepted' = 0 /\ rejected' = 0
          /\ expected_rejected' = 0
        BY <1>1, <1>4, <2>1 DEF AttackIInv, ScreensSoFar, work
    <2>3. screen' = screen /\ failed' = failed /\ phase' = "running"
        BY <2>1 DEF GoTo
    <2>4. LeafCounts \in Nat \ {0} /\ 3 * LeafCounts \in Nat /\ 0 % LeafCounts = 0
        BY ScreensFit DEF LeafCounts
    <2>5. PartitionLeaves' = MinLeaves
        <3>1. PartitionLeaves' = MinLeaves + (step' % LeafCounts)
            BY DEF PartitionLeaves, LeafCounts
        <3> QED BY <2>2, <2>4, <3>1, ScreensFit
    <2>6. /\ step' \in 0..(3 * LeafCounts) /\ sub' \in 0..(PartitionLeaves' - 1)
          /\ ~(sub' > 0) /\ accepted' = step' + 0 /\ rejected' \in Nat
          /\ rejected' = expected_rejected'
        BY <2>2, <2>4, <2>5, ScreensFit
    <2>7. PartitionSoFar'
        BY <2>2, <2>6 DEF PartitionSoFar, LeafCounts
    <2> QED BY <1>2, <2>3, <2>7, InScreen
<1>5. ASSUME phase = "running"
      PROVE  /\ step \in 0..(3 * LeafCounts)
             /\ step = 3 * LeafCounts => sub = 0
             /\ step < 3 * LeafCounts => sub \in 0..(n - 1)
             /\ sub > 0 => sub # canonical
             /\ accepted = step + (IF sub = 0 THEN 0 ELSE 1)
             /\ rejected \in Nat /\ rejected = expected_rejected
    BY <1>2, <1>5 DEF AttackIInv, PartitionSoFar, OfScreen, n, canonical
<1>6. LeafCounts \in Nat /\ 3 * LeafCounts \in Nat
    BY ScreensFit DEF LeafCounts
<1>7. ASSUME phase = "running", step < 3 * LeafCounts
      PROVE  /\ step \in 0..(3 * LeafCounts - 1)
             /\ n \in Nat /\ n >= 2
             /\ \E from \in Nat : /\ PartitionOffset = Leaves(from)
                                  /\ Leaves(from + n) <= SizeMax
    <2>1. step \in 0..(3 * LeafCounts - 1)
        BY <1>5, <1>6, <1>7
    <2> QED BY <2>1, PartitionOf DEF n
<1>8. CASE In("canonical_partition", "running") /\ step < 3 * LeafCounts /\ sub = 0
           /\ ~OutOfMemory
    <2>1. phase = "running"
        BY <1>1, <1>8
    <2>2. PICK from \in Nat : /\ PartitionOffset = Leaves(from)
                              /\ Leaves(from + n) <= SizeMax
        BY <1>7, <1>8, <2>1
    <2> DEFINE halves == Partition(n, PartitionOffset, canonical)
    <2>3. n \in Nat /\ n >= 2
        BY <1>7, <1>8, <2>1
    <2>4. canonical \in 1..(n - 1) /\ CanonicalTaken(halves, n, PartitionOffset)
        BY <2>2, <2>3, CanonicalGoes DEF canonical
    <2>5. ~ReversedTaken(halves, n)
        BY <2>2, <2>3, <2>4, OthersRefused DEF canonical
    <2>6. Canonically(halves)
        <3>1. ~(step = 3 * LeafCounts) /\ ~(sub > 0)
            BY <1>5, <1>6, <1>8, <2>1
        <3> QED BY <1>0, <1>1, <1>8, <2>1, <3>1 DEF canonically
    <2>7. CountPartition(1, 1)
        BY <2>4, <2>5, <2>6 DEF Canonically, n
    <2> QED BY <1>2, <1>8, <2>1, <2>7, CountGoes
<1>9. CASE In("canonical_partition", "running") /\ step < 3 * LeafCounts /\ sub > 0
           /\ ~OutOfMemory
    <2>1. phase = "running"
        BY <1>1, <1>9
    <2>2. PICK from \in Nat : /\ PartitionOffset = Leaves(from)
                              /\ Leaves(from + n) <= SizeMax
        BY <1>7, <1>9, <2>1
    <2> DEFINE halves == Partition(n, PartitionOffset, sub)
    <2>3. n \in Nat /\ n >= 2 /\ sub \in 1..(n - 1) /\ sub # canonical
        BY <1>5, <1>7, <1>9, <2>1
    <2>4. ~AlternativeTaken(halves, n, sub)
        BY <2>2, <2>3, OthersRefused DEF canonical
    <2>5. Alternatively(halves)
        <3>1. ~(step = 3 * LeafCounts) /\ sub # 0
            BY <1>5, <1>6, <1>9, <2>1, <2>3
        <3> QED BY <1>0, <1>1, <1>9, <2>1, <3>1 DEF otherwise
    <2>6. CountPartition(0, 1)
        BY <2>4, <2>5 DEF Alternatively, n
    <2>7. sub # 0
        BY <2>3
    <2> QED BY <1>2, <1>9, <2>1, <2>6, <2>7, CountGoes
<1>10. CASE In("canonical_partition", "running") /\ step = 3 * LeafCounts
    <2>1. phase = "running"
        BY <1>1, <1>10
    <2>2. sub = 0 /\ accepted = 3 * LeafCounts /\ rejected = expected_rejected
        BY <1>5, <1>6, <1>10, <2>1
    <2>3. Judge(accepted = 3 * LeafCounts /\ rejected = expected_rejected, FALSE)
        <3>1. ~(step < 3 * LeafCounts)
            BY <1>6, <1>10
        <3>2. judged
            BY <1>0, <1>1, <1>10, <2>1, <3>1
        <3> QED BY Zenon, <3>2 DEF judged
    <2>4. (accepted = 3 * LeafCounts /\ rejected = expected_rejected) = TRUE
        BY <2>2
    <2> QED BY <1>2, <1>10, <2>3, <2>4, JudgeGoesOn
<1> QED BY <1>0, <1>3, <1>4, <1>8, <1>9, <1>10

-----------------------------------------------------------------------------
(* subtree_replacement_screen *)

\* The first of a sequence with one put before it.
LEMMA FirstOf ==
    ASSUME NEW x, NEW n \in Nat, NEW rest, rest = [c \in 1..n |-> rest[c]]
    PROVE  (<<x>> \o rest)[1] = x
<1> DEFINE S == {x} \cup {rest[c] : c \in 1..n}
<1>1. rest \in [1..n -> S]
    OBVIOUS
<1>2. <<x>> \in Seq(S) /\ Len(<<x>>) = 1 /\ <<x>>[1] = x
    OBVIOUS
<1> HIDE DEF S
<1>3. rest \in Seq(S)
    BY <1>1
<1>4. Len(rest) \in Nat
    BY <1>3
<1> QED BY <1>2, <1>3, <1>4, ConcatProperties

\* Nodes of one length over other leaves have other words: the headers of
\* leaves and nodes hold the place of the first leaf.
LEMMA PlacesTellApart ==
    ASSUME NEW bytes, NEW one \in Ranges, NEW other \in Ranges,
           one[2] = other[2], one[2] \in Nat \ {0},
           one[1] \div LeafBytes # other[1] \div LeafBytes
    PROVE  Tree(bytes)[one].words # Tree(bytes)[other].words
<1> DEFINE tree == Tree(bytes)
           n == one[2]
           place(r) == r[1] \div LeafBytes
           header(r) == tree[r].words.absorbed[1]
<1>1. \A r \in Ranges : tree[r] = TreeStep(bytes, tree, r)
    BY TreeEquation
<1>2. CASE LeafCount(n) <= 1
    <2>1. ASSUME NEW r \in {one, other} PROVE header(r).fields[1] = place(r)
        <3> DEFINE p == PositionOf(r[1], n)
                   chunks == 1 + (n - 1) \div ChunkBytes
                   data == [c \in 1..chunks |-> LeafData(bytes, p, c)]
        <3>1. tree[r] = LeafNode(bytes, r[1], n)
            BY <1>1, <1>2 DEF TreeStep
        <3>2. LeafNode(bytes, r[1], n).words.absorbed = <<LeafHeader(p)>> \o data
            BY DEF LeafNode, NodeOf
        <3>3. chunks \in Nat
            BY ChunkAssumption
        <3>4. data = [c \in 1..chunks |-> data[c]]
            OBVIOUS
        <3> HIDE DEF data, chunks, p, tree
        <3>7. (<<LeafHeader(p)>> \o data)[1] = LeafHeader(p)
            BY <3>3, <3>4, FirstOf
        <3>8. header(r) = LeafHeader(p)
            BY <3>1, <3>2, <3>7
        <3>5. LeafHeader(p).fields[1] = p.first_leaf
            BY DEF LeafHeader, Plain, Record
        <3>6. p.first_leaf = place(r)
            BY DEF p, PositionOf
        <3> QED BY <3>5, <3>6, <3>8
    <2> HIDE DEF tree
    <2>2. tree[one].words # tree[other].words
        BY <2>1
    <2> QED BY <2>2 DEF tree
<1>3. CASE ~(LeafCount(n) <= 1)
    <2>1. ASSUME NEW r \in {one, other} PROVE header(r).fields[2] = place(r)
        <3> DEFINE left == SplitBytes(n)
                   a == tree[<<r[1], left>>]
                   b == tree[<<r[1] + left, n - left>>]
                   m == a.tree.byte_length + b.tree.byte_length
        <3>1. tree[r] = Parent(a, b)
            BY <1>1, <1>3 DEF TreeStep
        <3>2. tree[r].tree = PositionOf(r[1], n)
            BY NodePlace
        <3> HIDE DEF a, b, tree
        <3> DEFINE p == PositionOf(a.tree.byte_offset, m)
                   h == NodeHeader(p)
                   c1 == NodeChild(0, a)
                   c2 == NodeChild(1, b)
        <3>3. tree[r] = NodeOf(p, MixCompress(MixCompress(MixCompress(MixInit("node"),
                            h), c1), c2))
            BY <3>1 DEF Parent, Combine
        <3>4. p = PositionOf(r[1], n)
            BY <3>2, <3>3 DEF NodeOf
        <3>5. h.fields[2] = p.first_leaf
            BY DEF NodeHeader, Plain, Record, PositionFields
        <3> HIDE DEF h, c1, c2, p
        <3>6. MixCompress(MixInit("node"), h) = [domain |-> "node", absorbed |-> <<h>>]
            <4>1. MixCompress(MixInit("node"), h)
                      = [domain |-> "node", absorbed |-> Append(<< >>, h)]
                BY DEF MixCompress, MixInit
            <4>2. Append(<< >>, h) = <<h>>
                OBVIOUS
            <4> QED BY <4>1, <4>2
        <3>7. /\ Append(<<h>>, c1) = <<h, c1>>
              /\ Append(<<h, c1>>, c2) = <<h, c1, c2>>
            BY AppendOne
        <3>8. MixCompress([domain |-> "node", absorbed |-> <<h>>], c1)
                  = [domain |-> "node", absorbed |-> Append(<<h>>, c1)]
            BY CompressAppends, Zenon
        <3>9. MixCompress([domain |-> "node", absorbed |-> <<h, c1>>], c2)
                  = [domain |-> "node", absorbed |-> Append(<<h, c1>>, c2)]
            BY CompressAppends, Zenon
        <3>10. tree[r].words.absorbed = <<h, c1, c2>>
            BY <3>3, <3>6, <3>7, <3>8, <3>9 DEF NodeOf
        <3>11. header(r) = h
            BY <3>10
        <3>12. p.first_leaf = place(r)
            BY <3>4 DEF PositionOf
        <3> QED BY <3>5, <3>11, <3>12
    <2> HIDE DEF tree
    <2>2. tree[one].words # tree[other].words
        BY <2>1
    <2> QED BY <2>2 DEF tree
<1> QED BY <1>2, <1>3

\* A subtree of one leaf is the leaf.
LEMMA LeafIsSubtree ==
    ASSUME NEW message, Len(message) = LeafBytes, NEW i \in Nat,
           Leaves(i + 1) <= SizeMax
    PROVE  MakeLeaf(message, Leaves(i)) = MakeSubtree(message, Leaves(i))
<1> DEFINE reader == PositionedReader(message, Leaves(i))
           r == <<Leaves(i), Leaves(1)>>
<1>1. /\ Leaves(1) = LeafBytes /\ 1 \in Nat \ {0}
    BY ScheduleAssumption DEF Leaves
<1>2. /\ Leaves(i) \in Nat /\ Leaves(1) \in Nat \ {0} /\ LeafCount(Leaves(1)) = 1
      /\ RangeAccepted(Leaves(i), Leaves(1))
    BY <1>1, WholeRange
<1>3. MakeSubtree(message, Leaves(i)) = TreeNode(reader, Leaves(i), Leaves(1))
    BY <1>1, <1>2, SubtreeMade
<1>4. Leaves(i) + Leaves(1) <= SizeMax
    BY <1>2, AcceptedRange
<1>5. r \in Ranges /\ r[1] = Leaves(i) /\ r[2] = Leaves(1)
    BY <1>2, <1>4, SizeMaxLarge DEF Ranges
<1> HIDE DEF r, reader
<1>6. Tree(reader)[r] = LeafNode(reader, Leaves(i), Leaves(1))
    <2>1. Tree(reader)[r] = TreeStep(reader, Tree(reader), r)
        BY <1>5, TreeEquation
    <2> QED BY <1>2, <1>5, <2>1 DEF TreeStep
<1> QED BY <1>1, <1>3, <1>6 DEF MakeLeaf, TreeNode, r, reader

\* The bytes of the message, at its offset 0.
Twice == PositionedReader(HalfMessage \o HalfMessage, Leaves(0))

\* The nodes of the screen are those of the tree over its message.
LEMMA ReplacementMade ==
    ASSUME NEW from \in Nat, NEW count \in Nat \ {0}, from + count <= 8
    PROVE  /\ NodeAt(from, count) = TreeNode(Twice, Leaves(from), Leaves(count))
           /\ StandsAt(NodeAt(from, count), from, count)
<1> DEFINE message == HalfMessage \o HalfMessage
           node == MakeSubtree(Part(from, count), Leaves(from))
<1>1. /\ Leaves(4) \in Nat /\ 4 \in Nat /\ 8 \in Nat /\ Leaves(8) = Leaves(4) + Leaves(4)
    BY ScheduleAssumption DEF Leaves
<1>2. PICK S : HalfMessage \in Seq(S)
    BY <1>1, RandomIs DEF HalfMessage
<1>3. Len(HalfMessage) = Leaves(4)
    BY <1>1, RandomLength DEF HalfMessage
<1>4. message \in Seq(S) /\ Len(message) = Leaves(8)
    BY <1>1, <1>2, <1>3, ConcatProperties
<1>5. \A n \in 0..9 : Leaves(n) \in Nat /\ Leaves(n) <= SizeMax
    BY ScreensFit
<1>6. Leaves(0 + 8) <= SizeMax /\ 0 \in Nat /\ 0 + from = from
    BY <1>5
<1>7. node = MakeSubtree(SubSeq(message, Leaves(from) + 1, Leaves(from + count)),
                         Leaves(0 + from))
    BY <1>6 DEF Part
<1> HIDE DEF node, message
<1>8. /\ node = TreeNode(PositionedReader(message, Leaves(0)), Leaves(0 + from),
                         Leaves(count))
      /\ StandsAt(node, 0 + from, count)
    BY <1>1, <1>4, <1>6, <1>7, LeavesMade
<1>9. node = TreeNode(Twice, Leaves(from), Leaves(count)) /\ StandsAt(node, from, count)
    BY <1>6, <1>8 DEF Twice, message
<1>10. NodeAt(from, count) = node
    <2>1. CASE count = 1
        <3>1. Len(Part(from, 1)) = LeafBytes
            <4>1. /\ Leaves(from) \in Nat /\ Leaves(from + 1) = Leaves(from) + LeafBytes
                  /\ Leaves(from + 1) \in Nat
                BY ScheduleAssumption, LeavesDivided DEF Leaves
            <4>2. Leaves(from + 1) <= Leaves(8)
                <5>1. from + 1 \in Nat /\ from + 1 <= 8
                    BY <2>1
                <5> QED BY <1>1, <5>1, ScheduleAssumption, TimesMonotone DEF Leaves
            <4>3. /\ Leaves(from) + 1 \in 1..(Len(message) + 1)
                  /\ Leaves(from + 1) \in ((Leaves(from) + 1) - 1)..Len(message)
                BY <1>1, <1>4, <4>1, <4>2, ScheduleAssumption
            <4>4. Len(SubSeq(message, Leaves(from) + 1, Leaves(from + 1)))
                      = (Leaves(from + 1) - (Leaves(from) + 1)) + 1
                BY <1>4, <4>3, SubSeqProperties
            <4> QED BY <4>1, <4>4, ScheduleAssumption DEF Part, message
        <3>2. from + 1 \in 0..9
            BY <2>1
        <3>3. Leaves(from + 1) <= SizeMax
            BY <1>5, <3>2
        <3>4. MakeLeaf(Part(from, 1), Leaves(from)) = MakeSubtree(Part(from, 1), Leaves(from))
            BY <3>1, <3>3, LeafIsSubtree
        <3> QED BY <2>1, <3>4 DEF NodeAt, node
    <2>2. CASE count # 1
        BY <2>2 DEF NodeAt, node
    <2> QED BY <2>1, <2>2
<1> QED BY <1>9, <1>10

\* The nodes of the screen, each over its own leaves.
LEMMA NodesStand ==
    ASSUME NEW at \in {<<0, 1>>, <<1, 1>>, <<4, 1>>, <<0, 2>>, <<2, 2>>, <<4, 2>>,
                       <<6, 2>>, <<0, 4>>, <<4, 4>>, <<0, 8>>}
    PROVE  /\ ReplacementNodes[at] = TreeNode(Twice, Leaves(at[1]), Leaves(at[2]))
           /\ StandsAt(ReplacementNodes[at], at[1], at[2])
<1>1. ReplacementNodes[at] = NodeAt(at[1], at[2])
    BY DEF ReplacementNodes
<1>2. /\ at[1] \in Nat /\ at[2] \in Nat \ {0} /\ at[1] + at[2] <= 8
    OBVIOUS
<1> QED BY <1>1, <1>2, ReplacementMade

\* Equal bytes at another place are another node.
LEMMA NodesRelocated ==
    /\ Relocated(ReplacementNodes)
    /\ ReplacementNodes[<<0, 1>>].words # ReplacementNodes[<<4, 1>>].words
    /\ ReplacementNodes[<<0, 2>>].words # ReplacementNodes[<<4, 2>>].words
    /\ ReplacementNodes[<<0, 4>>].words # ReplacementNodes[<<4, 4>>].words
<1>1. \A m \in 0..9 : Leaves(m) \in Nat /\ Leaves(m) <= SizeMax
    BY ScreensFit
<1>2. ASSUME NEW n \in {1, 2, 4}
      PROVE  TreeNode(Twice, Leaves(0), Leaves(n)).words
                 # TreeNode(Twice, Leaves(4), Leaves(n)).words
    <2> DEFINE one == <<Leaves(0), Leaves(n)>>
               other == <<Leaves(4), Leaves(n)>>
    <2>1. n \in Nat /\ 0 \in Nat /\ 4 \in Nat /\ n \in Nat \ {0}
        OBVIOUS
    <2>2. /\ Leaves(0) \in Nat /\ Leaves(4) \in Nat /\ Leaves(n) \in Nat \ {0}
          /\ Leaves(0) + Leaves(n) <= SizeMax /\ Leaves(4) + Leaves(n) <= SizeMax
        <3>1. 0 + n \in 0..9 /\ 4 + n \in 0..9
            OBVIOUS
        <3>2. Leaves(0 + n) <= SizeMax /\ Leaves(4 + n) <= SizeMax
            BY <1>1, <3>1
        <3>3. /\ Leaves(0) \in Nat /\ Leaves(n) \in Nat \ {0}
              /\ RangeAccepted(Leaves(0), Leaves(n))
            BY <2>1, <3>2, WholeRange
        <3>4. /\ Leaves(4) \in Nat
              /\ RangeAccepted(Leaves(4), Leaves(n))
            BY <2>1, <3>2, WholeRange
        <3> QED BY <3>3, <3>4, AcceptedRange
    <2>3. Leaves(0) \div LeafBytes = 0 /\ Leaves(4) \div LeafBytes = 4
        BY <2>1, LeavesDivided
    <2>4. /\ one \in Ranges /\ other \in Ranges /\ one[2] = other[2]
          /\ one[2] \in Nat \ {0} /\ one[1] = Leaves(0) /\ other[1] = Leaves(4)
        BY <2>2, SizeMaxLarge DEF Ranges
    <2>5. one[1] \div LeafBytes # other[1] \div LeafBytes
        BY <2>3, <2>4
    <2> HIDE DEF one, other
    <2>6. Tree(Twice)[one].words # Tree(Twice)[other].words
        BY <2>4, <2>5, PlacesTellApart
    <2> QED BY <2>6 DEF TreeNode, one, other
<1>3. ASSUME NEW n \in {1, 2, 4}
      PROVE  ReplacementNodes[<<0, n>>].words # ReplacementNodes[<<4, n>>].words
    <2> DEFINE one == <<0, n>>
               other == <<4, n>>
               all == {<<0, 1>>, <<1, 1>>, <<4, 1>>, <<0, 2>>, <<2, 2>>, <<4, 2>>,
                       <<6, 2>>, <<0, 4>>, <<4, 4>>, <<0, 8>>}
    <2>1. /\ one \in all /\ other \in all
          /\ one[1] = 0 /\ one[2] = n /\ other[1] = 4 /\ other[2] = n
        OBVIOUS
    <2> HIDE DEF one, other
    <2>2. /\ ReplacementNodes[one] = TreeNode(Twice, Leaves(0), Leaves(n))
          /\ ReplacementNodes[other] = TreeNode(Twice, Leaves(4), Leaves(n))
        BY <2>1, NodesStand
    <2>3. ReplacementNodes[one].words # ReplacementNodes[other].words
        BY <1>2, <2>2
    <2> QED BY <2>3 DEF one, other
<1> QED BY <1>3 DEF Relocated

\* The words of a subtree, moved to the place of another, are taken there and
\* give another node.
LEMMA GraftTaken ==
    ASSUME NEW k \in 0..WorkspaceSlots, NEW n \in 1..4, n = Pow2[k],
           NEW node, node.words # TreeNode(Twice, Leaves(0), Leaves(n)).words,
           StandsAt(node, 0, n), NEW right,
           right = TreeNode(Twice, Leaves(n), Leaves(n)), StandsAt(right, n, n)
    PROVE  /\ Takes(<<node, right>>, BlocksOf(<<Leaves(n), Leaves(n)>>),
                    Leaves(n) + Leaves(n))
           /\ CombineState(<<node, right>>, Leaves(n) + Leaves(n))
                  # TreeNode(Twice, Leaves(0), Leaves(n) + Leaves(n))
<1> DEFINE one == TreeNode(Twice, Leaves(0), Leaves(n))
           total == Leaves(n) + Leaves(n)
<1>1. n \in Nat \ {0} /\ 0 \in Nat /\ n \in 1..n /\ 0 + n = n /\ n + n \in 0..9
    OBVIOUS
<1>2. Leaves(n + n) \in Nat /\ Leaves(n + n) <= SizeMax
    BY <1>1, ScreensFit
<1>3. /\ Leaves(n + n) = Leaves(n) + Leaves(n) /\ Leaves(0) = 0
    BY ScheduleAssumption DEF Leaves
<1>4. /\ Leaves(n) \in Nat \ {0} /\ LeafCount(Leaves(n)) = n
      /\ RangeAccepted(Leaves(n), Leaves(n))
    BY <1>1, <1>2, WholeRange
<1>5. RangeAccepted(0, total)
    <2>1. n + n \in Nat \ {0} /\ 0 + (n + n) = n + n
        BY <1>1
    <2>2. RangeAccepted(Leaves(0), Leaves(n + n))
        BY <1>1, <1>2, <2>1, WholeRange
    <2> QED BY <1>3, <2>2
<1>6. Takes(<<node, right>>, BlocksOf(<<Leaves(n), Leaves(n)>>), total)
    <2>1. Leaves(0 + (n + n)) <= SizeMax /\ StandsAt(right, 0 + n, n)
        BY <1>1, <1>2
    <2>2. Takes(<<node, right>>, BlocksOf(<<Leaves(n), Leaves(n)>>), Leaves(n + n))
        BY <1>1, <2>1, SiblingsTaken
    <2> QED BY <1>3, <2>2
<1>7. Joins(one, right, TreeNode(Twice, Leaves(0), total))
    <2>1. k \in Nat /\ Leaves(n) = Pow2[k] * LeafBytes /\ LeafCount(Leaves(n)) <= Pow2[k]
          /\ 0 + Leaves(n) = Leaves(n)
        BY <1>1, <1>4, ScheduleAssumption DEF Leaves
    <2>2. Joins(TreeNode(Twice, 0, Leaves(n)), TreeNode(Twice, 0 + Leaves(n), Leaves(n)),
                TreeNode(Twice, 0, Leaves(n) + Leaves(n)))
        BY <1>4, <1>5, <2>1, SiblingsCombine
    <2> QED BY <1>3, <2>1, <2>2
<1>8. one.tree.byte_length = Leaves(n) /\ right.tree.byte_length = Leaves(n)
    <2>1. Leaves(0 + n) <= SizeMax
        BY <1>1, ScreensFit
    <2>2. StandsAt(one, 0, n)
        BY <1>1, <2>1, TreeStands
    <2> QED BY <2>2 DEF StandsAt, PositionOf
<1> HIDE DEF one, total
<1>9. CombineState(<<one, right>>, total) = TreeNode(Twice, Leaves(0), total)
    <2>1. CombineSlots(one, right) = Combine(one, right, total)
        BY <1>8 DEF CombineSlots, total
    <2> QED BY <1>7, <2>1 DEF Joins, CombineState
<1>10. node.words # one.words
    BY DEF one
<1>11. CombineState(<<node, right>>, total) # CombineState(<<one, right>>, total)
    BY <1>10, OtherChild
<1> QED BY <1>6, <1>9, <1>11 DEF total

\* Where the words of one subtree stand for another's.
LEMMA MovedStands ==
    ASSUME NEW node, NEW from, NEW count, StandsAt(node, from, count),
           NEW other, DOMAIN other = {"occupied", "tree", "words"},
           other.occupied = TRUE
    PROVE  StandsAt(Moved(other, node.tree), from, count)
           /\ Moved(other, node.tree).words = other.words
<1>1. Moved(other, node.tree) = [other EXCEPT !.tree = node.tree]
    BY DEF Moved
<1>2. /\ Moved(other, node.tree).tree = node.tree
      /\ Moved(other, node.tree).occupied = other.occupied
      /\ Moved(other, node.tree).words = other.words
    BY <1>1
<1> QED BY <1>2 DEF StandsAt

\* The fields of a node.
LEMMA NodeFields ==
    ASSUME NEW bytes, NEW r \in Ranges
    PROVE  DOMAIN Tree(bytes)[r] = {"occupied", "tree", "words"}
<1> DEFINE tree == Tree(bytes)
<1>1. tree[r] = TreeStep(bytes, tree, r)
    BY TreeEquation
<1> HIDE DEF tree
<1>2. \E p, w : tree[r] = NodeOf(p, w)
    BY <1>1 DEF TreeStep, Parent, Combine, LeafNode
<1>3. \A p, w : DOMAIN NodeOf(p, w) = {"occupied", "tree", "words"}
    BY DEF NodeOf
<1>4. DOMAIN tree[r] = {"occupied", "tree", "words"}
    BY <1>2, <1>3
<1> QED BY <1>4 DEF tree

\* Children that are together shorter or longer than the node are refused.
LEMMA WrongLengthRefused ==
    ASSUME NEW left, NEW right, NEW blocks, NEW total,
           total # left.tree.byte_length + right.tree.byte_length
    PROVE  ~Takes(<<left, right>>, blocks, total)
BY DEF Takes, CombineAccepted

\* None of the forged positions is taken.
LEMMA ForgeriesRefused ==
    ASSUME NEW left, StandsAt(left, 0, 2), NEW node, StandsAt(node, 2, 2),
           DOMAIN node = {"occupied", "tree", "words"}, NEW blocks
    PROVE  \A f \in 1..5 :
               ~Takes(<<left, Forged(node)[f]>>, blocks, Leaves(2) + Leaves(2))
<1> DEFINE p == PositionOf(Leaves(2), Leaves(2))
           level == [node EXCEPT !.tree.level = @ + 1]
           first_leaf == [node EXCEPT !.tree.first_leaf = @ + 1]
           leaf_count == [node EXCEPT !.tree.leaf_count = @ + 1]
           byte_offset == [node EXCEPT !.tree.byte_offset = @ + Leaves(1)]
           byte_length == [node EXCEPT !.tree.byte_length = @ - 1]
           total == Leaves(2) + Leaves(2)
<1>1. /\ Leaves(1) \in Nat \ {0} /\ Leaves(2) \in Nat \ {0}
      /\ Leaves(2) + Leaves(1) = Leaves(3)
    BY ScheduleAssumption DEF Leaves
<1>2. /\ p.first_leaf = 2 /\ p.leaf_count = 2 /\ p.level \in Nat
      /\ p.byte_offset = Leaves(2) /\ p.byte_length = Leaves(2)
    <2>1. /\ 2 \in Nat /\ 2 \in Nat \ {0} /\ Leaves(2 + 2) <= SizeMax
        <3>1. 2 + 2 \in 0..9
            OBVIOUS
        <3> QED BY <3>1, ScreensFit
    <2>2. /\ RangeAccepted(Leaves(2), Leaves(2)) /\ Leaves(2) \div LeafBytes = 2
          /\ LeafCount(Leaves(2)) = 2
        BY <2>1, WholeRange
    <2>3. Level(LeafCount(Leaves(2))) \in 0..WorkspaceSlots
        BY <1>1, <2>2, AcceptedRange
    <2> QED BY <2>2, <2>3, ScheduleAssumption DEF PositionOf
<1>3. Leaves(3) \div LeafBytes = 3
    <2>1. 3 \in Nat
        OBVIOUS
    <2> QED BY <2>1, LeavesDivided
<1>4. node.tree = p
    BY DEF StandsAt
<1>5. DOMAIN node.tree = {"level", "first_leaf", "leaf_count", "byte_offset",
                          "byte_length"}
    BY <1>4 DEF PositionOf
<1>6. left.tree.byte_length = Leaves(2)
    BY DEF StandsAt, PositionOf
<1>7. Forged(node) = <<level, first_leaf, leaf_count, byte_offset, byte_length>>
    BY DEF Forged
<1>8. p = PositionOf(p.byte_offset, p.byte_length)
    BY <1>2
<1> HIDE DEF p
<1>9. ~Takes(<<left, level>>, blocks, total)
    <2>1. /\ level.tree.level = p.level + 1
          /\ level.tree.byte_offset = p.byte_offset
          /\ level.tree.byte_length = p.byte_length
        BY <1>4, <1>5
    <2> HIDE DEF level
    <2>2. level.tree # PositionOf(level.tree.byte_offset, level.tree.byte_length)
        BY <1>2, <1>8, <2>1
    <2> QED BY <2>2, ForgedRefused
<1>10. ~Takes(<<left, first_leaf>>, blocks, total)
    <2>1. /\ first_leaf.tree.first_leaf = p.first_leaf + 1
          /\ first_leaf.tree.byte_offset = p.byte_offset
          /\ first_leaf.tree.byte_length = p.byte_length
        BY <1>4, <1>5
    <2> HIDE DEF first_leaf
    <2>2. first_leaf.tree # PositionOf(first_leaf.tree.byte_offset,
                                       first_leaf.tree.byte_length)
        BY <1>2, <1>8, <2>1
    <2> QED BY <2>2, ForgedRefused
<1>11. ~Takes(<<left, leaf_count>>, blocks, total)
    <2>1. /\ leaf_count.tree.leaf_count = p.leaf_count + 1
          /\ leaf_count.tree.byte_offset = p.byte_offset
          /\ leaf_count.tree.byte_length = p.byte_length
        BY <1>4, <1>5
    <2> HIDE DEF leaf_count
    <2>2. leaf_count.tree # PositionOf(leaf_count.tree.byte_offset,
                                       leaf_count.tree.byte_length)
        BY <1>2, <1>8, <2>1
    <2> QED BY <2>2, ForgedRefused
<1>12. ~Takes(<<left, byte_offset>>, blocks, total)
    <2>1. /\ byte_offset.tree.first_leaf = p.first_leaf
          /\ byte_offset.tree.byte_offset = Leaves(3)
        BY <1>1, <1>2, <1>4, <1>5
    <2> HIDE DEF byte_offset
    <2>2. PositionOf(byte_offset.tree.byte_offset,
                     byte_offset.tree.byte_length).first_leaf = 3
        BY <1>3, <2>1 DEF PositionOf
    <2>3. byte_offset.tree # PositionOf(byte_offset.tree.byte_offset,
                                        byte_offset.tree.byte_length)
        BY <1>2, <2>1, <2>2
    <2> QED BY <2>3, ForgedRefused
<1>13. ~Takes(<<left, byte_length>>, blocks, total)
    <2>1. byte_length.tree.byte_length = Leaves(2) - 1
        BY <1>2, <1>4, <1>5
    <2> HIDE DEF byte_length
    <2>2. total # left.tree.byte_length + byte_length.tree.byte_length
        BY <1>1, <1>6, <2>1
    <2> QED BY <2>2, WrongLengthRefused
<1> HIDE DEF level, first_leaf, leaf_count, byte_offset, byte_length
<1>14. ASSUME NEW f \in 1..5 PROVE ~Takes(<<left, Forged(node)[f]>>, blocks, total)
    <2>1. f = 1 \/ f = 2 \/ f = 3 \/ f = 4 \/ f = 5
        OBVIOUS
    <2>2. \/ Forged(node)[f] = level \/ Forged(node)[f] = first_leaf
          \/ Forged(node)[f] = leaf_count \/ Forged(node)[f] = byte_offset
          \/ Forged(node)[f] = byte_length
        BY <1>7, <2>1
    <2> QED BY <1>9, <1>10, <1>11, <1>12, <1>13, <2>2
<1> QED BY <1>14

\* Eleven in a row.
LEMMA ElevenInRow ==
    ASSUME NEW a, NEW b, NEW c, NEW f, NEW x, NEW y, NEW z
    PROVE  LET all == <<a, b, c>> \o [i \in 1..5 |-> f[i]] \o <<x, y, z>> IN
           /\ Len(all) = 11 /\ DOMAIN all = 1..11
           /\ all[1] = a /\ all[2] = b /\ all[3] = c
           /\ \A i \in 1..5 : all[3 + i] = f[i]
           /\ all[9] = x /\ all[10] = y /\ all[11] = z
<1> DEFINE S == {a, b, c, x, y, z} \cup {f[i] : i \in 1..5}
           one == <<a, b, c>>
           two == [i \in 1..5 |-> f[i]]
           three == <<x, y, z>>
<1>1. /\ one \in Seq(S) /\ Len(one) = 3 /\ one[1] = a /\ one[2] = b /\ one[3] = c
      /\ three \in Seq(S) /\ Len(three) = 3
      /\ three[1] = x /\ three[2] = y /\ three[3] = z
    OBVIOUS
<1>2. two \in Seq(S) /\ Len(two) = 5 /\ \A i \in 1..5 : two[i] = f[i]
    <2>1. two \in [1..5 -> S]
        OBVIOUS
    <2>2. two = [i \in 1..5 |-> two[i]]
        OBVIOUS
    <2>3. \A i \in 1..5 : two[i] = f[i]
        OBVIOUS
    <2>4. \A i \in 1..5 : two[i] \in S
        OBVIOUS
    <2> HIDE DEF S, two
    <2>5. two \in Seq(S) /\ Len(two) = 5
        BY <2>2, <2>4
    <2> QED BY <2>3, <2>5
<1> HIDE DEF S, one, two, three
<1>3. /\ one \o two \in Seq(S) /\ Len(one \o two) = 8
      /\ \A i \in 1..8 : (one \o two)[i] = IF i <= 3 THEN one[i] ELSE two[i - 3]
    <2>1. /\ one \o two \in Seq(S) /\ Len(one \o two) = Len(one) + Len(two)
          /\ \A i \in 1..(Len(one) + Len(two)) :
                 (one \o two)[i] = IF i <= Len(one) THEN one[i] ELSE two[i - Len(one)]
        BY <1>1, <1>2, ConcatProperties
    <2> QED BY <1>1, <1>2, <2>1
<1> DEFINE eight == one \o two
           all == eight \o three
<1> HIDE DEF eight
<1>4. /\ all \in Seq(S) /\ Len(all) = 11
      /\ \A i \in 1..11 : all[i] = IF i <= 8 THEN eight[i] ELSE three[i - 8]
    <2>0. eight \in Seq(S) /\ Len(eight) = 8
        BY <1>3 DEF eight
    <2>1. /\ all \in Seq(S) /\ Len(all) = Len(eight) + Len(three)
          /\ \A i \in 1..(Len(eight) + Len(three)) :
                 all[i] = IF i <= Len(eight) THEN eight[i] ELSE three[i - Len(eight)]
        BY <1>1, <2>0, ConcatProperties
    <2> HIDE DEF all
    <2> QED BY <1>1, <2>0, <2>1
<1>5. DOMAIN all = 1..11
    <2> HIDE DEF all
    <2> QED BY <1>4, LenProperties
<1> HIDE DEF all
<1>9. \A i \in 1..8 : eight[i] = IF i <= 3 THEN one[i] ELSE two[i - 3]
    BY <1>3 DEF eight
<1>6. all[1] = a /\ all[2] = b /\ all[3] = c
    BY <1>1, <1>4, <1>9
<1>7. all[9] = x /\ all[10] = y /\ all[11] = z
    BY <1>1, <1>4
<1>8. ASSUME NEW i \in 1..5 PROVE all[3 + i] = f[i]
    <2>1. 3 + i \in 1..8 /\ 3 + i \in 1..11 /\ (3 + i) - 3 = i
        OBVIOUS
    <2> QED BY <1>2, <1>4, <1>9, <2>1
<1> QED BY <1>4, <1>5, <1>6, <1>7, <1>8 DEF all, eight, one, two, three

\* Every attempt of subtree_replacement_screen ends as it expects.
LEMMA ReplacementExpected ==
    /\ Len(Replacement) = 11 /\ DOMAIN Replacement = 1..11
    /\ \A i \in 1..11 :
           /\ AsExpected(Replacement[i])
           /\ Replacement[i].expect = IF i <= 8 THEN "reject" ELSE "graft"
<1> DEFINE made == ReplacementNodes
           N(i, n) == made[<<i, n>>]
           pairs == <<Leaves(2), Leaves(2)>>
           quads == <<Leaves(4), Leaves(4)>>
           forge == [f \in 1..5 |-> Reject(<<N(0, 2), Forged(N(2, 2))[f]>>, pairs)]
           x1 == Reject(<<N(4, 2), N(2, 2)>>, pairs)
           x2 == Reject(<<N(0, 2), N(6, 2)>>, pairs)
           x3 == Reject(<<N(4, 4), N(0, 4)>>, quads)
           g1 == Graft(made, 1, <<1, 1>>)
           g2 == Graft(made, 2, <<2, 2>>)
           g4 == Graft(made, 4, <<4, 4>>)
           all == <<x1, x2, x3>> \o [f \in 1..5 |-> forge[f]] \o <<g1, g2, g4>>
<1>1. Replacement = all
    <2>1. [f \in 1..5 |-> forge[f]] = forge
        OBVIOUS
    <2> HIDE DEF x1, x2, x3, g1, g2, g4
    <2> QED BY <2>1 DEF Replacement, ReplacementOf, ReplacementAttempts, x1, x2, x3, g1, g2, g4
<1>2. /\ StandsAt(N(0, 1), 0, 1) /\ StandsAt(N(1, 1), 1, 1) /\ StandsAt(N(0, 2), 0, 2)
      /\ StandsAt(N(2, 2), 2, 2) /\ StandsAt(N(4, 2), 4, 2) /\ StandsAt(N(6, 2), 6, 2)
      /\ StandsAt(N(0, 4), 0, 4) /\ StandsAt(N(4, 4), 4, 4) /\ StandsAt(N(4, 1), 4, 1)
    BY NodesStand
<1>3. /\ N(0, 1) = TreeNode(Twice, Leaves(0), Leaves(1))
      /\ N(1, 1) = TreeNode(Twice, Leaves(1), Leaves(1))
      /\ N(0, 2) = TreeNode(Twice, Leaves(0), Leaves(2))
      /\ N(2, 2) = TreeNode(Twice, Leaves(2), Leaves(2))
      /\ N(0, 4) = TreeNode(Twice, Leaves(0), Leaves(4))
      /\ N(4, 4) = TreeNode(Twice, Leaves(4), Leaves(4))
      /\ N(0, 8) = TreeNode(Twice, Leaves(0), Leaves(8))
    BY NodesStand
<1>4. /\ N(0, 1).words # N(4, 1).words
      /\ N(0, 2).words # N(4, 2).words
      /\ N(0, 4).words # N(4, 4).words
    BY NodesRelocated
<1>5. ASSUME NEW i \in {2, 4}, NEW n \in {1, 2, 4}, NEW at, at = <<i, n>>,
             at \in {<<2, 2>>, <<4, 1>>, <<4, 2>>, <<4, 4>>}
      PROVE  DOMAIN made[at] = {"occupied", "tree", "words"}
    <2>1. /\ made[at] = TreeNode(Twice, Leaves(i), Leaves(n))
          /\ StandsAt(made[at], i, n)
        <3>1. at[1] = i /\ at[2] = n
            BY <1>5
        <3> QED BY <1>5, <3>1, NodesStand
    <2>2. <<Leaves(i), Leaves(n)>> \in Ranges
        <3>1. i \in Nat /\ n \in Nat \ {0} /\ i + n \in 0..9
            OBVIOUS
        <3>2. Leaves(i + n) <= SizeMax
            BY <3>1, ScreensFit
        <3>3. /\ Leaves(i) \in Nat /\ Leaves(n) \in Nat \ {0}
              /\ RangeAccepted(Leaves(i), Leaves(n))
            BY <3>1, <3>2, WholeRange
        <3>4. Leaves(i) + Leaves(n) <= SizeMax
            BY <3>3, AcceptedRange
        <3> QED BY <3>3, <3>4, SizeMaxLarge DEF Ranges
    <2> QED BY <2>1, <2>2, NodeFields DEF TreeNode
<1>6. /\ DOMAIN N(2, 2) = {"occupied", "tree", "words"}
      /\ DOMAIN N(4, 1) = {"occupied", "tree", "words"}
      /\ DOMAIN N(4, 2) = {"occupied", "tree", "words"}
      /\ DOMAIN N(4, 4) = {"occupied", "tree", "words"}
    BY <1>5
<1>7. \A m \in 0..9 : Leaves(m) \in Nat /\ Leaves(m) <= SizeMax
    BY ScreensFit
<1>8. Leaves(1) \in Nat /\ Leaves(2) \in Nat /\ Leaves(4) \in Nat
    BY <1>7
<1>9. /\ Leaves(1) + Leaves(1) = Leaves(2) /\ Leaves(2) + Leaves(2) = Leaves(4)
      /\ Leaves(4) + Leaves(4) = Leaves(8)
    BY ScheduleAssumption DEF Leaves
<1> HIDE DEF made
<1>21. ASSUME NEW from \in Nat, NEW begin \in Nat, NEW n \in Nat \ {0},
              from + n \in 0..9, begin + n \in 0..9, begin # from + n,
              NEW a, StandsAt(a, from, n), NEW b, StandsAt(b, begin, n), NEW e,
              e = Attempt("reject", <<a, b>>, <<Leaves(n), Leaves(n)>>, EmptySlot)
       PROVE  AsExpected(e) /\ e.expect = "reject"
    <2>1. Leaves(from + n) <= SizeMax /\ Leaves(begin + n) <= SizeMax
        BY <1>7, <1>21
    <2>2. \A blocks, total : ~Takes(<<a, b>>, blocks, total)
        BY <1>21, <2>1, TakenAreSiblings
    <2>3. Leaves(n) \in Nat
        BY LeavesDivided
    <2> QED BY <1>21, <2>2, <2>3, AttemptOfTwo DEF AsExpected, Taken
<1>10. AsExpected(x1) /\ x1.expect = "reject"
    <2>1. x1 = Attempt("reject", <<N(4, 2), N(2, 2)>>, <<Leaves(2), Leaves(2)>>,
                       EmptySlot)
        BY DEF Reject
    <2>2. /\ 4 \in Nat /\ 2 \in Nat /\ 2 \in Nat \ {0}
          /\ 4 + 2 \in 0..9 /\ 2 + 2 \in 0..9 /\ 2 # 4 + 2
        OBVIOUS
    <2>3. StandsAt(N(4, 2), 4, 2) /\ StandsAt(N(2, 2), 2, 2)
        BY <1>2
    <2> HIDE DEF N, x1
    <2> QED BY <1>21, <2>1, <2>2, <2>3
<1>11. AsExpected(x2) /\ x2.expect = "reject"
    <2>1. x2 = Attempt("reject", <<N(0, 2), N(6, 2)>>, <<Leaves(2), Leaves(2)>>,
                       EmptySlot)
        BY DEF Reject
    <2>2. /\ 0 \in Nat /\ 6 \in Nat /\ 2 \in Nat \ {0}
          /\ 0 + 2 \in 0..9 /\ 6 + 2 \in 0..9 /\ 6 # 0 + 2
        OBVIOUS
    <2>3. StandsAt(N(0, 2), 0, 2) /\ StandsAt(N(6, 2), 6, 2)
        BY <1>2
    <2> HIDE DEF N, x2
    <2> QED BY <1>21, <2>1, <2>2, <2>3
<1>12. AsExpected(x3) /\ x3.expect = "reject"
    <2>1. x3 = Attempt("reject", <<N(4, 4), N(0, 4)>>, <<Leaves(4), Leaves(4)>>,
                       EmptySlot)
        BY DEF Reject
    <2>2. /\ 4 \in Nat /\ 0 \in Nat /\ 4 \in Nat \ {0}
          /\ 4 + 4 \in 0..9 /\ 0 + 4 \in 0..9 /\ 0 # 4 + 4
        OBVIOUS
    <2>3. StandsAt(N(4, 4), 4, 4) /\ StandsAt(N(0, 4), 0, 4)
        BY <1>2
    <2> HIDE DEF N, x3
    <2> QED BY <1>21, <2>1, <2>2, <2>3
<1>13. ASSUME NEW f \in 1..5
       PROVE  AsExpected(forge[f]) /\ forge[f].expect = "reject"
    <2> DEFINE a == N(0, 2)
               node == N(2, 2)
               b == Forged(node)[f]
               e == forge[f]
    <2>1. StandsAt(a, 0, 2) /\ StandsAt(node, 2, 2)
          /\ DOMAIN node = {"occupied", "tree", "words"}
        BY <1>2, <1>6
    <2>2. e = Attempt("reject", <<a, b>>, <<Leaves(2), Leaves(2)>>, EmptySlot)
        BY DEF Reject
    <2> HIDE DEF a, node, e
    <2>3. ~Takes(<<a, b>>, BlocksOf(<<Leaves(2), Leaves(2)>>), Leaves(2) + Leaves(2))
        BY <2>1, ForgeriesRefused
    <2> HIDE DEF b
    <2>4. AsExpected(e) /\ e.expect = "reject"
        BY <1>8, <2>2, <2>3, AttemptOfTwo DEF AsExpected, Taken
    <2> QED BY <2>4 DEF e
<1>14. /\ 0 \in 0..WorkspaceSlots /\ 1 \in 0..WorkspaceSlots /\ 2 \in 0..WorkspaceSlots
       /\ Pow2[0] = 1 /\ Pow2[1] = 2 /\ Pow2[2] = 4
    <2>1. 0 \in Nat /\ 1 \in Nat /\ 0 + 1 = 1 /\ 1 + 1 = 2
        OBVIOUS
    <2> QED BY <2>1, Pow2Equation, ScheduleAssumption
<1>15. ASSUME NEW n \in {1, 2, 4}, NEW left, NEW moved, NEW right,
              NEW twice,
              StandsAt(left, 0, n), left = TreeNode(Twice, Leaves(0), Leaves(n)),
              DOMAIN moved = {"occupied", "tree", "words"}, moved.occupied = TRUE,
              left.words # moved.words,
              StandsAt(right, n, n), right = TreeNode(Twice, Leaves(n), Leaves(n)),
              twice = TreeNode(Twice, Leaves(0), Leaves(n) + Leaves(n)),
              NEW e, e = Attempt("graft", <<Moved(moved, left.tree), right>>,
                                 <<Leaves(n), Leaves(n)>>, twice)
       PROVE  AsExpected(e) /\ e.expect = "graft"
    <2> DEFINE node == Moved(moved, left.tree)
    <2>1. StandsAt(node, 0, n) /\ node.words = moved.words
        BY <1>15, MovedStands, ZenonT(60)
    <2> HIDE DEF node
    <2>2. node.words # TreeNode(Twice, Leaves(0), Leaves(n)).words
        BY <1>15, <2>1
    <2>7. PICK k \in 0..WorkspaceSlots : n = Pow2[k] /\ n \in 1..4
        BY <1>14
    <2>3. /\ Takes(<<node, right>>, BlocksOf(<<Leaves(n), Leaves(n)>>),
                   Leaves(n) + Leaves(n))
          /\ CombineState(<<node, right>>, Leaves(n) + Leaves(n))
                  # TreeNode(Twice, Leaves(0), Leaves(n) + Leaves(n))
        BY <1>15, <2>1, <2>2, <2>7, GraftTaken
    <2>4. e = Attempt("graft", <<node, right>>, <<Leaves(n), Leaves(n)>>, twice)
        BY <1>15 DEF node
    <2>5. Leaves(n) \in Nat
        <3>1. n \in 0..9
            OBVIOUS
        <3> QED BY <1>7, <3>1
    <2>6. /\ e.expect = "graft" /\ e.children = <<node, right>>
          /\ e.blocks = BlocksOf(<<Leaves(n), Leaves(n)>>)
          /\ e.node_length = Leaves(n) + Leaves(n) /\ e.other = twice
        BY <2>4, <2>5, AttemptOfTwo
    <2> QED BY <1>15, <2>3, <2>6 DEF AsExpected, Taken
<1>16. AsExpected(g1) /\ g1.expect = "graft"
    <2> DEFINE left == N(0, 1)
               moved == N(4, 1)
               right == N(1, 1)
               twice == N(0, 2)
    <2>1. g1 = Attempt("graft", <<Moved(moved, left.tree), right>>,
                       <<Leaves(1), Leaves(1)>>, twice)
        BY DEF Graft
    <2>2. moved.occupied = TRUE /\ 1 \in {1, 2, 4}
        BY <1>2 DEF StandsAt
    <2>3. /\ StandsAt(left, 0, 1) /\ StandsAt(right, 1, 1)
          /\ left = TreeNode(Twice, Leaves(0), Leaves(1))
          /\ right = TreeNode(Twice, Leaves(1), Leaves(1))
          /\ twice = TreeNode(Twice, Leaves(0), Leaves(1) + Leaves(1))
        BY <1>2, <1>3, <1>9
    <2>4. DOMAIN moved = {"occupied", "tree", "words"} /\ left.words # moved.words
        BY <1>4, <1>6
    <2> HIDE DEF left, moved, right, twice, g1
    <2> QED BY <1>15, <2>1, <2>2, <2>3, <2>4, ZenonT(60)
<1>17. AsExpected(g2) /\ g2.expect = "graft"
    <2> DEFINE left == N(0, 2)
               moved == N(4, 2)
               right == N(2, 2)
               twice == N(0, 4)
    <2>1. g2 = Attempt("graft", <<Moved(moved, left.tree), right>>,
                       <<Leaves(2), Leaves(2)>>, twice)
        BY DEF Graft
    <2>2. moved.occupied = TRUE /\ 2 \in {1, 2, 4}
        BY <1>2 DEF StandsAt
    <2>3. /\ StandsAt(left, 0, 2) /\ StandsAt(right, 2, 2)
          /\ left = TreeNode(Twice, Leaves(0), Leaves(2))
          /\ right = TreeNode(Twice, Leaves(2), Leaves(2))
          /\ twice = TreeNode(Twice, Leaves(0), Leaves(2) + Leaves(2))
        BY <1>2, <1>3, <1>9
    <2>4. DOMAIN moved = {"occupied", "tree", "words"} /\ left.words # moved.words
        BY <1>4, <1>6
    <2> HIDE DEF left, moved, right, twice, g2
    <2> QED BY <1>15, <2>1, <2>2, <2>3, <2>4, ZenonT(60)
<1>18. AsExpected(g4) /\ g4.expect = "graft"
    <2> DEFINE left == N(0, 4)
               moved == N(4, 4)
               right == N(4, 4)
               twice == N(0, 8)
    <2>1. g4 = Attempt("graft", <<Moved(moved, left.tree), right>>,
                       <<Leaves(4), Leaves(4)>>, twice)
        BY DEF Graft
    <2>2. moved.occupied = TRUE /\ 4 \in {1, 2, 4}
        BY <1>2 DEF StandsAt
    <2>3. /\ StandsAt(left, 0, 4) /\ StandsAt(right, 4, 4)
          /\ left = TreeNode(Twice, Leaves(0), Leaves(4))
          /\ right = TreeNode(Twice, Leaves(4), Leaves(4))
          /\ twice = TreeNode(Twice, Leaves(0), Leaves(4) + Leaves(4))
        BY <1>2, <1>3, <1>9
    <2>4. DOMAIN moved = {"occupied", "tree", "words"} /\ left.words # moved.words
        BY <1>4, <1>6
    <2> HIDE DEF left, moved, right, twice, g4
    <2> QED BY <1>15, <2>1, <2>2, <2>3, <2>4, ZenonT(60)
<1> HIDE DEF x1, x2, x3, forge, g1, g2, g4
<1>19. /\ Len(all) = 11 /\ DOMAIN all = 1..11
       /\ all[1] = x1 /\ all[2] = x2 /\ all[3] = x3
       /\ \A i \in 1..5 : all[3 + i] = forge[i]
       /\ all[9] = g1 /\ all[10] = g2 /\ all[11] = g4
    BY ElevenInRow
<1> HIDE DEF all
<1>20. ASSUME NEW i \in 1..11
       PROVE  /\ AsExpected(all[i])
              /\ all[i].expect = IF i <= 8 THEN "reject" ELSE "graft"
    <2>1. CASE i \in 4..8
        <3>1. i - 3 \in 1..5 /\ 3 + (i - 3) = i
            BY <2>1
        <3>2. all[i] = forge[i - 3]
            BY <1>19, <3>1
        <3> QED BY <1>13, <2>1, <3>1, <3>2
    <2>2. i = 1 \/ i = 2 \/ i = 3 \/ i = 9 \/ i = 10 \/ i = 11 \/ i \in 4..8
        OBVIOUS
    <2> QED BY <1>10, <1>11, <1>12, <1>16, <1>17, <1>18, <1>19, <2>1, <2>2
<1> QED BY <1>1, <1>19, <1>20

\* What its verdict counts.
LEMMA ReplacementAttempted ==
    /\ Expecting(Replacement, "reject") = 8
    /\ Expecting(Replacement, "graft") = 3
<1> DEFINE all == Replacement
<1>1. /\ DOMAIN all = 1..11
      /\ \A i \in 1..11 : all[i].expect = IF i <= 8 THEN "reject" ELSE "graft"
    BY ReplacementExpected
<1> HIDE DEF all
<1>2. /\ {i \in DOMAIN all : all[i].expect = "reject"} = 1..8
      /\ {i \in DOMAIN all : all[i].expect = "graft"} = 9..11
    BY <1>1
<1>3. Cardinality(1..8) = 8 /\ Cardinality(9..11) = 3
    <2>1. 1 \in Int /\ 8 \in Int /\ 9 \in Int /\ 11 \in Int
          /\ (IF 1 > 8 THEN 0 ELSE 8 - 1 + 1) = 8
          /\ (IF 9 > 11 THEN 0 ELSE 11 - 9 + 1) = 3
        OBVIOUS
    <2>2. Cardinality(1..8) = IF 1 > 8 THEN 0 ELSE 8 - 1 + 1
        BY <2>1, FS_Interval
    <2>3. Cardinality(9..11) = IF 9 > 11 THEN 0 ELSE 11 - 9 + 1
        BY <2>1, FS_Interval
    <2> QED BY <2>1, <2>2, <2>3
<1>4. /\ Expecting(all, "reject") = 8 /\ Expecting(all, "graft") = 3
    BY <1>2, <1>3 DEF Expecting
<1> QED BY <1>4 DEF all

\* subtree_replacement_screen: eight calls are refused, and three grafts are
\* taken and give other made.
LEMMA ReplacementGoes ==
    ASSUME AttackIInv, ReplacementScreen
    PROVE  AttackStep
<1>1. CASE In("subtree_replacement", "entered") /\ OutOfMemory
    <2>1. screen = 4
        BY <1>1, AtScreen
    <2> QED BY <1>1, <2>1, OutOfMemoryGoesOn
<1>2. CASE In("subtree_replacement", "entered") /\ GoTo("running") /\ UNCHANGED work
    <2>1. screen = 4 /\ phase = "entered"
        BY <1>2, AtScreen
    <2>2. step = 0 /\ accepted = 0 /\ rejected = 0
        BY <2>1 DEF AttackIInv, ScreensSoFar
    <2>3. screen' = screen /\ failed' = failed /\ phase' = "running"
          /\ step' = 0 /\ accepted' = 0 /\ rejected' = 0
        BY <1>2, <2>2 DEF GoTo, work
    <2>4. ReplacementSoFar'
        BY <2>3 DEF ReplacementSoFar
    <2> QED BY <2>1, <2>3, <2>4, InScreen
<1>3. CASE /\ In("subtree_replacement", "running") /\ step < Len(Replacement)
           /\ Try(Replacement[step + 1], TRUE)
    <2>1. screen = 4 /\ phase = "running" /\ screen \in 1..10
        BY <1>3, AtScreen
    <2>2. /\ step \in 0..11
          /\ rejected = (IF step < 8 THEN step ELSE 8)
          /\ accepted = (IF step < 8 THEN 0 ELSE step - 8)
        BY <2>1 DEF AttackIInv, ReplacementSoFar, OfScreen
    <2>3. step < 11 /\ step + 1 \in 1..11
        BY <1>3, <2>2, ReplacementExpected
    <2> DEFINE attempt == Replacement[step + 1]
    <2>4. /\ AsExpected(attempt)
          /\ attempt.expect = IF step + 1 <= 8 THEN "reject" ELSE "graft"
        BY <2>3, ReplacementExpected
    <2>5. Try(attempt, TRUE) /\ TRUE \in BOOLEAN
        BY <1>3
    <2> HIDE DEF attempt
    <2>6. \/ AttackStep
          \/ /\ UNCHANGED <<screen, phase, failed, exit_code>>
             /\ step' = step + 1
             /\ accepted' = accepted
                                + (IF attempt.expect = "graft" THEN 1 ELSE 0)
             /\ rejected' = rejected
                                + (IF attempt.expect = "reject" THEN 1 ELSE 0)
        BY <2>1, <2>4, <2>5, TryGoes
    <2>7. CASE ~AttackStep
        <3>1. /\ screen' = screen /\ failed' = failed /\ phase' = "running"
              /\ step' = step + 1
              /\ accepted' = accepted + (IF step >= 8 THEN 1 ELSE 0)
              /\ rejected' = rejected + (IF step < 8 THEN 1 ELSE 0)
            BY <2>1, <2>2, <2>3, <2>4, <2>6, <2>7
        <3>2. ReplacementSoFar'
            BY <3>1, <2>2, <2>3 DEF ReplacementSoFar
        <3> QED BY <2>1, <3>1, <3>2, InScreen
    <2> QED BY <2>7
<1>4. CASE /\ In("subtree_replacement", "running") /\ step = Len(Replacement)
           /\ \E near \in {FALSE, ~TRUE} : Judge(Counted(Replacement), near)
    <2>1. screen = 4 /\ phase = "running" /\ screen \in 1..10
        BY <1>4, AtScreen
    <2>2. step = 11 /\ accepted = 3 /\ rejected = 8
        BY <1>4, <2>1, ReplacementExpected DEF AttackIInv, ReplacementSoFar, OfScreen
    <2>3. Counted(Replacement) = TRUE
        BY <2>2, ReplacementAttempted DEF Counted
    <2>4. step = StepsAsked
        BY <2>1, <2>2, AskedSteps
    <2> QED BY <1>4, <2>1, <2>3, <2>4, JudgeGoesOn
<1> QED BY <1>1, <1>2, <1>3, <1>4, NodesRelocated DEF ReplacementScreen, TryAll

-----------------------------------------------------------------------------
(* The program *)

\* Every step keeps the inductive invariant and makes only true reports.
LEMMA AttackSteps ==
    ASSUME AttackIInv, [Next]_vars
    PROVE  AttackIInv' /\ [Reports]_vars
<1>1. CASE UNCHANGED vars
    <2>1. ScreensSoFar' /\ CollisionsSoFar' /\ ShapeSoFar' /\ ReplacementSoFar'
        BY <1>1 DEF AttackIInv, ScreensSoFar, CollisionsSoFar, ShapeSoFar,
           ReplacementSoFar, OfScreen, vars, work
    <2>2. PartitionSoFar'
        BY <1>1 DEF AttackIInv, PartitionSoFar, OfScreen, vars, work,
           PartitionLeaves, PartitionOffset, LeafCounts
    <2>3. PreimageSoFar' /\ LongSoFar' /\ ExpandableSoFar' /\ HerdingSoFar'
        BY <1>1 DEF AttackIInv, PreimageSoFar, LongSoFar, ExpandableSoFar,
           HerdingSoFar, OfScreen, vars, work
    <2>4. TargetsSoFar' /\ ReuseSoFar'
        BY <1>1 DEF AttackIInv, TargetsSoFar, ReuseSoFar, OfScreen, vars, work
    <2>5. AttackIInv'
        BY <2>1, <2>2, <2>3, <2>4 DEF AttackIInv
    <2> QED BY <1>1, <2>5
<1>2. CASE Multicollision
    BY <1>2, MulticollisionGoes DEF AttackStep
<1>3. CASE TreeShapeScreen
    BY <1>3, ShapeGoes DEF AttackStep
<1>4. CASE PartitionScreen
    BY <1>4, PartitionGoes DEF AttackStep
<1>5. CASE ReplacementScreen
    BY <1>5, ReplacementGoes DEF AttackStep
<1>6. CASE SecondPreimage
    BY <1>6, PreimageGoes DEF AttackStep
<1>7. CASE LongMessages
    BY <1>7, LongGoes DEF AttackStep
<1>8. CASE Expandable
    BY <1>8, ExpandableGoes DEF AttackStep
<1>9. CASE Herding
    BY <1>9, HerdingGoes DEF AttackStep
<1>10. CASE MultiTarget
    BY <1>10, TargetsGoes DEF AttackStep
<1>11. CASE VariantReuse
    BY <1>11, ReuseGoes DEF AttackStep
<1> QED BY <1>1, <1>2, <1>3, <1>4, <1>5, <1>6, <1>7, <1>8, <1>9, <1>10, <1>11
           DEF Next, Exited

\* The inductive invariant holds in every state the program reaches, for any
\* numbers of samples, targets, leaves and faults.
THEOREM AttackInvariant == Spec => []AttackIInv
<1>1. Init => AttackIInv
    BY AttackStarts
<1>2. AttackIInv /\ [Next]_vars => AttackIInv'
    BY AttackSteps
<1> QED BY <1>1, <1>2, PTL DEF Spec

\* The messages compared are different ones in every state of the invariant.
LEMMA OthersCompared == AttackIInv => CandidatesAreOthers
<1> SUFFICES ASSUME AttackIInv PROVE CandidatesAreOthers
    OBVIOUS
<1>1. ASSUME In("second_preimage", "running"), step > 0
      PROVE  /\ ~Same(second, first)
             /\ DOMAIN second.chunks = DOMAIN first
             /\ second.flips \subseteq 0..(PreimageChunks * ChunkLength - 1)
    BY <1>1, AtScreen DEF AttackIInv, PreimageSoFar, OfScreen
<1>2. ASSUME In("multi_target", "running"), step > 0
      PROVE  /\ \A t \in AllTargets : ~Same(second, t)
             /\ DOMAIN second.chunks = DOMAIN first
             /\ second.flips \subseteq 0..(TargetChunks * ChunkLength - 1)
    BY <1>2, AtScreen DEF AttackIInv, TargetsSoFar, OfScreen
<1>3. ASSUME In("long_message", "running")
      PROVE  NoCollision /\ DOMAIN second \subseteq 0..(WorkLength - 1)
    <2>1. /\ DOMAIN second \subseteq 0..(WorkLength - 1)
          /\ recorded \in Seq({LongSays(v) : v \in 1..LongVariants})
          /\ Len(recorded) = step /\ step \in 0..15
          /\ \A i \in 1..step : recorded[i] = LongSays(i)
        BY <1>3, AtScreen DEF AttackIInv, LongSoFar, OfScreen, LongVariants
    <2>2. DOMAIN recorded = 1..step
        BY <2>1, LenProperties
    <2>3. ASSUME NEW a \in 1..step, NEW b \in 1..step, a < b
          PROVE  recorded[a] # recorded[b]
        <3>1. a \in 1..15 /\ b \in 1..15
            BY <2>1
        <3>2. LongSays(a) # LongSays(b)
            BY <2>3, <3>1, LongDiffer
        <3> QED BY <2>1, <3>2
    <2> QED BY <2>1, <2>2, <2>3 DEF NoCollision
<1>4. ASSUME In("expandable_message", "running"), step > 0
      PROVE  /\ DOMAIN first \cup DOMAIN second \subseteq 0..(ExpandableCapacity - 1)
             /\ \E inserted \in 1..MaxExtraLeaves :
                    \A p \in 0..SuffixLeaves :
                        first[p] = second[IF p = 0 THEN 0 ELSE p + inserted]
    BY <1>4, AtScreen DEF AttackIInv, ExpandableSoFar, OfScreen
<1>5. ASSUME In("herding", "running")
      PROVE  NoCollision
    <2>1. /\ recorded \in Seq({HerdingMessage(prefix) : prefix \in 0..CollisionSamples})
          /\ Len(recorded) = step /\ step \in 0..CollisionSamples
          /\ \A i \in 1..step : recorded[i] = HerdingMessage(i - 1)
        BY <1>5, AtScreen DEF AttackIInv, HerdingSoFar
    <2>2. DOMAIN recorded = 1..step
        BY <2>1, LenProperties
    <2>3. ASSUME NEW a \in 1..step, NEW b \in 1..step, a < b
          PROVE  recorded[a] # recorded[b]
        <3>1. a - 1 # b - 1
            BY <2>3
        <3>2. HerdingMessage(a - 1) # HerdingMessage(b - 1)
            BY <3>1, HerdDiffers
        <3> QED BY <2>1, <3>2
    <2> QED BY <2>2, <2>3 DEF NoCollision
<1>6. ASSUME In("variant_reuse", "running")
      PROVE  sub <= ReuseMaxLength
    <2>1. sub \in 0..ReuseMaxLength
        BY <1>6, AtScreen DEF AttackIInv, ReuseSoFar, OfScreen
    <2>2. ReuseMaxLength \in Nat
        BY DEF ReuseMaxLength
    <2> QED BY <2>1, <2>2
<1> QED BY <1>1, <1>2, <1>3, <1>4, <1>5, <1>6 DEF CandidatesAreOthers

\* The messages a screen compares are different ones and fit their buffers: a
\* mutated target is never a target, the long messages and the herded ones are
\* pairwise different, for any sizes the assumptions allow.
THEOREM AttackCandidates == Spec => []CandidatesAreOthers
BY AttackInvariant, OthersCompared, PTL

\* A screen of the attack program fails only for want of memory or for digests
\* out of their limits: every structural claim it checks of the library holds.
THEOREM AttackMisfortune == Spec => []FailsByMisfortune
<1>1. AttackIInv => FailsByMisfortune
    BY DEF AttackIInv, ScreensSoFar, FailsByMisfortune
<1> QED BY <1>1, AttackInvariant, PTL

\* A screen that passes has tried all the samples its report line counts, and
\* the exit code is 0 exactly when all ten have passed.
THEOREM AttackReports == Spec => PassCoversReport
<1>1. AttackIInv /\ [Next]_vars => [Reports]_vars
    BY AttackSteps
<1> QED BY <1>1, AttackInvariant, PTL DEF Spec, PassCoversReport, Reports

-----------------------------------------------------------------------------
(* The statistics of the attack screens *)

StatesOf(n) == [1..n -> [prefix : Nat, rest : Nat]]

\* What the two calls of qsort leave: the same states by their words, and the
\* same prefixes in ascending order.
LEMMA OrderedSorts ==
    ASSUME NEW n \in Nat, NEW s \in StatesOf(n)
    PROVE  \E p \in Bijection(1..n, 1..n) :
               /\ Ordered(s) = [i \in 1..n |-> s[p[i]]]
               /\ \A a, b \in 1..n : a < b => ~WordsBefore(s[p[b]], s[p[a]])
<1> DEFINE X == [prefix : Nat, rest : Nat]
           L == {e \in X \X X : ~WordsBefore(e[2], e[1])}
           InOrd(p) == \A a, b \in 1..n :
                           a < b => ~WordsBefore(s[p[b]], s[p[a]])
           order == CHOOSE p \in Bijection(1..n, 1..n) : InOrd(p)
<1>1. Compares(L, X)
    BY DEF Compares, WordsBefore
<1>2. s \in [1..n -> X] /\ Len(s) = n
    BY DEF StatesOf
<1> HIDE DEF X, L
<1>3. PICK p : Orders(p, s, n, L)
    BY <1>1, <1>2, OrderExists
<1>4. p \in Bijection(1..n, 1..n)
    <2>1. IsFiniteSet(1..n)
        BY FS_Interval
    <2> QED BY <1>3, <2>1, FS_Surjection DEF Orders, Bijection
<1>5. InOrd(p)
    BY <1>3 DEF Orders, L
<1> HIDE DEF InOrd
<1>6. order \in Bijection(1..n, 1..n) /\ InOrd(order)
    BY <1>4, <1>5
<1>7. Ordered(s) = [i \in 1..n |-> s[order[i]]]
    BY <1>2 DEF Ordered, Sorted, InOrd
<1> HIDE DEF order
<1> QED BY <1>6, <1>7 DEF InOrd

LEMMA PrefixedSorts ==
    ASSUME NEW n \in Nat, NEW s \in StatesOf(n)
    PROVE  \E p \in Bijection(1..n, 1..n) :
               /\ Prefixed(s) = [i \in 1..n |-> s[p[i]].prefix]
               /\ \A a, b \in 1..n : a < b => s[p[a]].prefix <= s[p[b]].prefix
<1> DEFINE q == [i \in 1..n |-> s[i].prefix]
           L == {e \in Nat \X Nat : e[1] <= e[2]}
           InOrd(p) == \A a, b \in 1..n : a < b => ~(q[p[b]] < q[p[a]])
           order == CHOOSE p \in Bijection(1..n, 1..n) : InOrd(p)
<1>1. Compares(L, Nat)
    BY DEF Compares
<1>2. /\ DOMAIN s = 1..n /\ q \in [1..n -> Nat] /\ Len(q) = n
      /\ \A i \in 1..n : q[i] = s[i].prefix
    BY DEF StatesOf
<1>8. Prefixed(s) = Sorted(q, LAMBDA a, b : a < b)
    BY <1>2 DEF Prefixed
<1> HIDE DEF L, q
<1>3. PICK p : Orders(p, q, n, L)
    BY <1>1, <1>2, OrderExists
<1>4. p \in Bijection(1..n, 1..n)
    <2>1. IsFiniteSet(1..n)
        BY FS_Interval
    <2> QED BY <1>3, <2>1, FS_Surjection DEF Orders, Bijection
<1>5. InOrd(p)
    <2> SUFFICES ASSUME NEW a \in 1..n, NEW b \in 1..n, a < b
                 PROVE  ~(q[p[b]] < q[p[a]])
        OBVIOUS
    <2>0. p \in [1..n -> 1..n]
        BY <1>4, PermutationFacts
    <2>1. p[a] \in 1..n /\ p[b] \in 1..n
        BY <2>0
    <2>2. q[p[a]] <= q[p[b]]
        BY <1>3 DEF Orders, L
    <2> QED BY <1>2, <2>1, <2>2
<1> HIDE DEF InOrd
<1>6. order \in Bijection(1..n, 1..n) /\ InOrd(order)
    BY <1>4, <1>5
<1>7. Prefixed(s) = [i \in 1..n |-> q[order[i]]]
    BY <1>2, <1>8 DEF Sorted, InOrd
<1> HIDE DEF order
<1>9. order \in [1..n -> 1..n]
    BY <1>6, PermutationFacts
<1>10. \A a \in 1..n : q[order[a]] = s[order[a]].prefix /\ q[order[a]] \in Nat
    BY <1>2, <1>9
<1>11. \A a, b \in 1..n : a < b => s[order[a]].prefix <= s[order[b]].prefix
    BY <1>6, <1>10 DEF InOrd
<1>12. Prefixed(s) = [i \in 1..n |-> s[order[i]].prefix]
    BY <1>7, <1>10
<1> QED BY <1>6, <1>11, <1>12

\* The pairs in the runs of the sorted prefixes are those of equal prefixes, and
\* the largest run has the most states of one prefix.
LEMMA PrefixStatsMean ==
    ASSUME NEW n \in Nat \ {0}, NEW s \in StatesOf(n)
    PROVE  LET stat == StatsOf(s)
               SamePrefix(i) == {j \in 1..n : s[j].prefix = s[i].prefix}
           IN
           /\ stat.truncated_pairs =
                  Cardinality({p \in (1..n) \X (1..n) :
                                  p[1] < p[2] /\ p[2] \in SamePrefix(p[1])})
           /\ stat.maximum_bucket =
                  Max({Cardinality(SamePrefix(i)) : i \in 1..n})
<1> DEFINE q == Prefixed(s)
           SamePrefix(i) == {j \in 1..n : s[j].prefix = s[i].prefix}
           Size(a) == Cardinality(Like(q, n, q[a]))
           K == Firsts(q, n)
           g == [a \in K |-> (Size(a) * (Size(a) - 1)) \div 2]
           R == {e \in (1..n) \X (1..n) : s[e[1]].prefix = s[e[2]].prefix}
<1>1. PICK p \in Bijection(1..n, 1..n) :
          /\ q = [i \in 1..n |-> s[p[i]].prefix]
          /\ \A a, b \in 1..n : a < b => s[p[a]].prefix <= s[p[b]].prefix
    BY PrefixedSorts
<1>2. /\ p \in [1..n -> 1..n]
      /\ \A a, b \in 1..n : p[a] = p[b] => a = b
      /\ \A d \in 1..n : \E a \in 1..n : p[a] = d
    BY PermutationFacts
<1>3. \A a \in 1..n : q[a] = s[p[a]].prefix /\ q[a] \in Nat
    BY <1>1, <1>2 DEF StatesOf
<1>4. DOMAIN q = 1..n /\ Len(q) = n
    <2>1. q = [i \in 1..n |-> q[i]] /\ n \in Nat
        BY <1>1
    <2> HIDE DEF q
    <2> QED BY <2>1, <1>3
<1> HIDE DEF q
<1>5. Grouped(q, n)
    <2> SUFFICES ASSUME NEW a \in 1..n, NEW b \in 1..n, NEW c \in 1..n,
                        a <= b, b <= c, q[a] = q[c]
                 PROVE  q[b] = q[a]
        BY DEF Grouped
    <2>1. a = b \/ a < b
        OBVIOUS
    <2>2. b = c \/ b < c
        OBVIOUS
    <2>3. q[a] <= q[b] /\ q[b] <= q[c]
        BY <1>1, <1>3, <2>1, <2>2
    <2> QED BY <1>3, <2>3
<1>6. K = RunStarts(q)
    BY <1>4 DEF Firsts, RunStarts
<1>7. \A a \in K : Bucket(q, a) = Size(a)
    <2> SUFFICES ASSUME NEW a \in K PROVE Bucket(q, a) = Size(a)
        OBVIOUS
    <2>1. Run(q, n, a) = Like(q, n, q[a])
        BY <1>5, RunIsLike
    <2>2. Bucket(q, a) = Cardinality(Run(q, n, a))
        BY <1>4 DEF Bucket, Run
    <2> QED BY <2>1, <2>2
<1>8. IsFiniteSet(1..n)
    BY FS_Interval
\* A run is as large as the class of a state in it.
<1>9. ASSUME NEW a \in 1..n PROVE Size(a) = Cardinality(SamePrefix(p[a]))
    <2>1. Like(q, n, q[a]) = Carried(1..n, p, SamePrefix(p[a]))
        BY <1>2, <1>3 DEF Like, Carried
    <2>2. SamePrefix(p[a]) \in SUBSET (1..n)
        OBVIOUS
    <2> HIDE DEF SamePrefix
    <2> QED BY <1>8, <2>1, <2>2, CountCarried
<1>10. \A a \in 1..n : Size(a) \in Nat
    BY <1>8, FS_Subset, FS_CardinalityType DEF Like
<1>11. IsFiniteSet(K) /\ K \subseteq 1..n
    BY <1>8, FS_Subset DEF Firsts
<1> HIDE DEF K
<1>12. MapThenSumSet(LAMBDA a : (Bucket(q, a) * (Bucket(q, a) - 1)) \div 2, K)
           = Total(g, K)
    <2> DEFINE term(a) == (Bucket(q, a) * (Bucket(q, a) - 1)) \div 2
               h == [a \in K |-> term(a)]
               P(it) == it = [t \in SUBSET K |->
                   IF t = {} THEN 0
                   ELSE term(CHOOSE x \in t : TRUE) + it[t \ {CHOOSE x \in t : TRUE}]]
    <2>1. MapThenSumSet(LAMBDA a : (Bucket(q, a) * (Bucket(q, a) - 1)) \div 2, K)
              = (CHOOSE it : P(it))[K]
        BY DEF MapThenSumSet, MapThenFoldSet
    <2>2. \A it : P(it) <=> Sums(it, h, K)
        BY DEF Sums
    <2>3. \A a \in K : h[a] = g[a] /\ g[a] \in Nat
        <3> SUFFICES ASSUME NEW a \in K PROVE h[a] = g[a] /\ g[a] \in Nat
            OBVIOUS
        <3>1. Bucket(q, a) = Size(a) /\ Size(a) \in Nat
            BY <1>7, <1>10, <1>11
        <3>2. \A m \in Nat : (m * (m - 1)) \div 2 \in Nat
            OBVIOUS
        <3> HIDE DEF Size
        <3> QED BY <3>1, <3>2
    <2> HIDE DEF P, h, g, term
    <2>4. \E it : Sums(it, h, K)
        BY <1>11, <2>3, SumExists
    <2>5. P(CHOOSE it : P(it))
        BY <2>2, <2>4
    <2>6. (CHOOSE it : P(it))[K] = Total(h, K)
        BY <1>11, <2>2, <2>3, <2>5, TotalIs
    <2>7. Total(h, K) = Total(g, K)
        BY <1>11, <2>3, TotalAgrees
    <2> QED BY <2>1, <2>6, <2>7
<1>13. Total(g, K) = Cardinality(LikePairs(q, n))
    <2>1. \A a \in Firsts(q, n) :
              LET size == Cardinality(Like(q, n, q[a])) IN
              g[a] = (size * (size - 1)) \div 2
        BY DEF K
    <2> HIDE DEF g
    <2> QED BY <1>5, <2>1, PairsInRuns DEF K
<1>14. Cardinality(LikePairs(q, n)) = Cardinality(PairsOf(1..n, R))
    <2>1. LikePairs(q, n) = PairsCarrying(1..n, p, R)
        BY <1>2, <1>3 DEF Ascending, LikePairs, PairsCarrying
    <2>2. \A x, y \in 1..n : <<x, y>> \in R => <<y, x>> \in R
        OBVIOUS
    <2>3. 1..n \in SUBSET Nat
        OBVIOUS
    <2> HIDE DEF R
    <2> QED BY <1>8, <2>1, <2>2, <2>3, PairsCarried
<1>15. PairsOf(1..n, R)
           = {e \in (1..n) \X (1..n) : e[1] < e[2] /\ e[2] \in SamePrefix(e[1])}
    BY DEF Ascending, PairsOf
<1>16. {Bucket(q, a) : a \in K} = {Cardinality(SamePrefix(i)) : i \in 1..n}
    <2>1. ASSUME NEW a \in K
          PROVE  \E i \in 1..n : Bucket(q, a) = Cardinality(SamePrefix(i))
        <3>1. a \in 1..n /\ p[a] \in 1..n
            BY <1>2, <1>11
        <3> HIDE DEF SamePrefix, Size
        <3> QED BY <1>7, <1>9, <3>1
    <2>2. ASSUME NEW i \in 1..n
          PROVE  \E a \in K : Bucket(q, a) = Cardinality(SamePrefix(i))
        <3>1. PICK b \in 1..n : p[b] = i
            BY <1>2
        <3>2. PICK a \in K : q[a] = q[b]
            BY RunOfElement DEF K
        <3>3. Size(a) = Size(b)
            BY <3>2
        <3> HIDE DEF SamePrefix, Size
        <3> QED BY <1>7, <1>9, <3>1, <3>3
    <2> HIDE DEF SamePrefix
    <2> QED BY <2>1, <2>2
<1>17. /\ StatsOf(s).truncated_pairs =
              MapThenSumSet(LAMBDA a : (Bucket(q, a) * (Bucket(q, a) - 1)) \div 2, K)
       /\ StatsOf(s).maximum_bucket = Max({Bucket(q, a) : a \in K})
    BY <1>6 DEF StatsOf, Stats, q
<1> HIDE DEF SamePrefix, R, g
<1> QED BY <1>12, <1>13, <1>14, <1>15, <1>16, <1>17 DEF SamePrefix

\* The states equal to their left neighbour are those that are not the first of
\* their kind.
LEMMA ExactStatsMean ==
    ASSUME NEW n \in Nat \ {0}, NEW s \in StatesOf(n)
    PROVE  StatsOf(s).exact_collisions = n - Cardinality(ToSet(s))
<1> DEFINE q == Ordered(s)
           K == Firsts(q, n)
           E == {i \in 2..n : q[i - 1] = q[i]}
           f == [i \in K |-> q[i]]
<1>1. PICK p \in Bijection(1..n, 1..n) :
          /\ q = [i \in 1..n |-> s[p[i]]]
          /\ \A a, b \in 1..n : a < b => ~WordsBefore(s[p[b]], s[p[a]])
    BY OrderedSorts
<1>2. /\ p \in [1..n -> 1..n]
      /\ \A d \in 1..n : \E a \in 1..n : p[a] = d
    BY PermutationFacts
<1>3. \A a \in 1..n : q[a] = s[p[a]] /\ q[a] \in [prefix : Nat, rest : Nat]
    BY <1>1, <1>2 DEF StatesOf
<1>4. DOMAIN q = 1..n /\ Len(q) = n
    <2>1. q = [i \in 1..n |-> q[i]] /\ n \in Nat
        BY <1>1
    <2> HIDE DEF q
    <2> QED BY <2>1, <1>3
<1>0. \A a, b \in 1..n : a < b => ~WordsBefore(q[b], q[a])
    BY <1>1, <1>3
<1> HIDE DEF q
<1>5. Grouped(q, n)
    <2> SUFFICES ASSUME NEW a \in 1..n, NEW b \in 1..n, NEW c \in 1..n,
                        a <= b, b <= c, q[a] = q[c]
                 PROVE  q[b] = q[a]
        BY DEF Grouped
    <2>1. CASE a < b /\ b < c
        <3>1. ~WordsBefore(q[b], q[a]) /\ ~WordsBefore(q[c], q[b])
            BY <1>0, <2>1
        <3>2. ~WordsBefore(q[a], q[b])
            BY <3>1
        <3> DEFINE x == q[a]
                   y == q[b]
        <3>3. /\ x \in [prefix : Nat, rest : Nat]
              /\ y \in [prefix : Nat, rest : Nat]
            BY <1>3
        <3> HIDE DEF x, y
        <3>4. ~WordsBefore(x, y) /\ ~WordsBefore(y, x)
            BY <3>1, <3>2 DEF x, y
        <3>5. x.rest = y.rest /\ x.prefix = y.prefix
            BY <3>3, <3>4 DEF WordsBefore
        <3>6. x = y
            BY <3>3, <3>5
        <3> QED BY <3>6 DEF x, y
    <2> QED BY <2>1
<1>6. IsFiniteSet(1..n) /\ Cardinality(1..n) = n
    BY FS_Interval
<1>7. IsFiniteSet(K) /\ IsFiniteSet(E)
    BY <1>6, FS_Subset DEF Firsts
<1>8. K \cap E = {} /\ K \cup E = 1..n
    BY DEF Firsts
<1>9. n = Cardinality(K) + Cardinality(E) /\ Cardinality(K) \in Nat
      /\ Cardinality(E) \in Nat
    <2> HIDE DEF K, E
    <2>1. /\ Cardinality(K \cup E) = Cardinality(K) + Cardinality(E)
          /\ Cardinality(K) \in Nat /\ Cardinality(E) \in Nat
        BY <1>7, <1>8, DisjointUnion
    <2> QED BY <1>6, <1>8, <2>1
<1>10. Cardinality(ToSet(s)) = Cardinality(K)
    <2>1. \A i \in 1..n : q[i] \in ToSet(s)
        BY <1>2, <1>3 DEF ToSet, StatesOf
    <2>2. f \in [K -> ToSet(s)]
        BY <2>1 DEF Firsts
    <2>3. \A a, b \in K : f[a] = f[b] => a = b
        BY <1>5, RunsDiffer
    <2>4. ASSUME NEW t \in ToSet(s) PROVE \E a \in K : f[a] = t
        <3>1. PICK i \in 1..n : s[i] = t
            BY DEF ToSet, StatesOf
        <3>2. PICK b \in 1..n : p[b] = i
            BY <1>2
        <3>3. PICK a \in K : q[a] = q[b]
            BY RunOfElement
        <3>4. f[a] = t
            BY <1>3, <3>1, <3>2, <3>3
        <3> QED BY <3>4
    <2> HIDE DEF f, K
    <2> QED BY <1>7, <2>2, <2>3, <2>4, SameCount
<1>11. StatsOf(s).exact_collisions = Cardinality(E)
    BY <1>4 DEF StatsOf, Stats, ExactCollisions, q
<1> QED BY <1>9, <1>10, <1>11

LEMMA StatsOfMeans ==
    ASSUME NEW n \in Nat \ {0}, NEW s \in StatesOf(n)
    PROVE  StatsMean(s, StatsOf(s))
<1>1. Len(s) = n
    BY DEF StatesOf
<1> QED BY <1>1, PrefixStatsMean, ExactStatsMean, Zenon DEF StatsMean

\* The record of a screen is that of the states it was taken of.
StatsTaken ==
    states # Nothing => states \in States /\ stats = StatsOf(states)

\* A step forgets the statistics, leaves them alone or takes new ones.
StatsStep ==
    \/ states' = Nothing
    \/ states' = states /\ stats' = stats
    \/ states' \in States /\ stats' = StatsOf(states')

LEMMA ReturnsForget ==
    ASSUME NEW causes, Return(causes)
    PROVE  StatsStep
BY DEF Return, FreshWork, StatsStep

LEMMA JudgesForget ==
    ASSUME NEW sound, NEW near, Judge(sound, near)
    PROVE  StatsStep
BY ReturnsForget DEF Judge, Pass

LEMMA MemoryForgets == OutOfMemory => StatsStep
BY ReturnsForget DEF OutOfMemory

LEMMA TriesForget ==
    ASSUME NEW attempt, NEW at_once, Try(attempt, at_once)
    PROVE  StatsStep
<1> DEFINE taken == Takes(attempt.children, attempt.blocks, attempt.node_length)
           other == CombineState(attempt.children, attempt.node_length)
                        # attempt.other
           fails == ~taken \/ (at_once /\ attempt.expect = "graft" /\ ~other)
           Kept == states' = states /\ stats' = stats
<1>1. CASE attempt.expect = "reject"
    <2>1. Kept
        BY <1>1 DEF Try
    <2> QED BY <2>1 DEF StatsStep
<1>2. CASE attempt.expect # "reject" /\ fails
    <2>1. Return({"structure"})
        BY <1>2 DEF Try
    <2> QED BY <2>1, ReturnsForget
<1>3. CASE attempt.expect # "reject" /\ ~fails
    <2>1. Kept \/ OutOfMemory
        BY <1>3 DEF Try
    <2> QED BY <2>1, MemoryForgets DEF StatsStep
<1> QED BY <1>1, <1>2, <1>3

LEMMA TakesStats ==
    ASSUME NEW sampled \in States, NEW pairs, NEW bucket,
           TakeStats(sampled, pairs, bucket)
    PROVE  StatsStep
BY DEF TakeStats, StatsStep

LEMMA StatsSteps == [Next]_vars => StatsStep
<1> SUFFICES ASSUME [Next]_vars PROVE StatsStep
    OBVIOUS
<1> USE ReturnsForget, JudgesForget, MemoryForgets
<1>1. CASE UNCHANGED vars \/ Exited
    BY <1>1 DEF vars, work, Exited, StatsStep
<1>2. CASE Multicollision
    <2>1. ASSUME MakeSample PROVE StatsStep
        <3>1. \/ Return({"structure"})
              \/ states' = states /\ stats' = stats
            BY <2>1 DEF MakeSample
        <3> QED BY <3>1 DEF StatsStep
    <2>2. \/ Return({"structure"}) \/ OutOfMemory \/ MakeSample
          \/ states' = states /\ stats' = stats
          \/ \E sampled \in States : TakeStats(sampled, PairLimit, BucketLimit)
          \/ states' = Nothing
          \/ Judge(TRUE, matches > 0)
        BY <1>2 DEF Multicollision, ForgetStats, work
    <2> QED BY <2>1, <2>2, TakesStats DEF StatsStep
<1>3. CASE TreeShapeScreen
    BY <1>3, TriesForget DEF TreeShapeScreen, TryAll, work, StatsStep
<1>4. CASE PartitionScreen
    <2>1. \/ Return({"structure"}) \/ OutOfMemory
          \/ states' = states /\ stats' = stats
          \/ Judge(/\ accepted = 3 * LeafCounts
                   /\ rejected = expected_rejected, FALSE)
        BY <1>4 DEF PartitionScreen, Canonically, Alternatively,
           CountPartition, work
    <2> QED BY <2>1 DEF StatsStep
<1>5. CASE ReplacementScreen
    <2>1. \/ Return({"structure"}) \/ OutOfMemory
          \/ states' = states /\ stats' = stats
          \/ TryAll("subtree_replacement", Replacement, TRUE)
        BY <1>5 DEF ReplacementScreen, work
    <2> QED BY <2>1, TriesForget DEF TryAll, StatsStep
<1>6. CASE SecondPreimage
    <2>1. \/ OutOfMemory
          \/ states' = states /\ stats' = stats
          \/ \E near \in BOOLEAN : Judge(matches = 0, near)
        BY <1>6 DEF SecondPreimage, HashCandidate, work
    <2> QED BY <2>1 DEF StatsStep
<1>7. CASE LongMessages
    <2>1. \/ OutOfMemory
          \/ states' = states /\ stats' = stats
          \/ \E near \in BOOLEAN :
                 Judge(NoCollision /\ maximum_depth = LongDepth, near)
        BY <1>7 DEF LongMessages, RecordLong, work
    <2> QED BY <2>1 DEF StatsStep
<1>8. CASE Expandable
    <2>1. \/ OutOfMemory
          \/ states' = states /\ stats' = stats
          \/ \E near \in BOOLEAN : Judge(matches = 0, near)
        BY <1>8 DEF Expandable, HashExpandable, work
    <2> QED BY <2>1 DEF StatsStep
<1>9. CASE Herding
    <2>1. \/ OutOfMemory
          \/ states' = states /\ stats' = stats
          \/ \E roots \in States :
                 TakeStats(roots, AnyPairs, HerdingBucketLimit)
          \/ states' = Nothing
          \/ \E near \in BOOLEAN : Judge(NoCollision, near \/ matches > 0)
        BY <1>9 DEF Herding, ForgetStats, work
    <2> QED BY <2>1, TakesStats DEF StatsStep
<1>10. CASE MultiTarget
    <2>1. \/ OutOfMemory \/ Return({"structure"})
          \/ states' = states /\ stats' = stats
          \/ \E near \in BOOLEAN : Judge(matches = 0, near)
        BY <1>10 DEF MultiTarget, HashCandidate, work
    <2> QED BY <2>1 DEF StatsStep
<1>11. CASE VariantReuse
    <2>1. \/ OutOfMemory
          \/ states' = states /\ stats' = stats
          \/ \E near \in BOOLEAN : Judge(accepted = ReuseSamples, near)
        BY <1>11 DEF VariantReuse, work
    <2> QED BY <2>1 DEF StatsStep
<1> QED BY <1>1, <1>2, <1>3, <1>4, <1>5, <1>6, <1>7, <1>8, <1>9, <1>10, <1>11
           DEF Next

\* The two sorts and the counting of runs give what the report line says of the
\* states: pairs with one prefix, the most with one prefix, and repetitions,
\* for any number of samples and any words they hash to.
THEOREM AttackStatistics == Spec => []StatsExact
<1>1. Init => StatsTaken
    BY DEF Init, StatsTaken
<1>2. StatsTaken /\ [Next]_vars => StatsTaken'
    BY StatsSteps DEF StatsStep, StatsTaken
<1>3. StatsTaken => StatsExact
    <2>1. CollisionSamples \in Nat \ {0}
        BY AttackAssumption
    <2>2. States \subseteq StatesOf(CollisionSamples)
        BY AttackAssumption DEF States, StatesOf
    <2> QED BY <2>1, <2>2, StatsOfMeans DEF StatsTaken, StatsExact
<1> QED BY <1>1, <1>2, <1>3, PTL DEF Spec
=============================================================================
