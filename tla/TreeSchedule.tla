---------------------------- MODULE TreeSchedule ----------------------------
(***************************************************************************)
(* The geometry of the FCH tree (src/src/fractal_split.c, params.h): how a  *)
(* byte range becomes a position, and how a position of at least two leaves *)
(* splits into a full left subtree and a remainder.                        *)
(*                                                                         *)
(* Numbers are size_t.  Every sum and product of the C code is guarded     *)
(* against overflow, so they are modelled in Nat with SizeMax in the guards *)
(* and SplitTotal (TreeDescent) shows the unguarded ones fit.              *)
(***************************************************************************)
EXTENDS Powers, Sequences

CONSTANTS
    LeafBytes,       \* FCH_TREE_LEAF_BYTES, 1024 in the code
    WorkspaceSlots   \* FCH_TREE_WORKSPACE_SLOTS, the number of bits of size_t

ASSUME ScheduleAssumption ==
    /\ LeafBytes \in Nat \ {0}
    /\ WorkspaceSlots \in Nat \ {0, 1}

Arity == 2           \* FCH_TREE_ARITY

SizeMax == Pow2[WorkspaceSlots] - 1

-----------------------------------------------------------------------------

\* The number of steps of both loops of fractal_split.c: `value >>= 1` has
\* shifted v to zero after k steps, and `power *= 2` has passed v after k
\* steps, exactly when v < 2^k for the first time.
LeastExponentAbove(v) ==
    CHOOSE k \in 0..WorkspaceSlots :
        /\ v < Pow2[k]
        /\ \A j \in 0..(k - 1) : Pow2[j] <= v

LeafCount(length) ==
    IF length = 0 THEN 0 ELSE 1 + (length - 1) \div LeafBytes

Level(leaf_count) ==
    IF leaf_count = 0 THEN SizeMax ELSE LeastExponentAbove(leaf_count - 1)

\* The guards of fch_tree_position_for_range.
RangeAccepted(offset, length) ==
    /\ length # 0
    /\ offset <= SizeMax - length
    /\ offset % LeafBytes = 0
    /\ Level(LeafCount(length)) # SizeMax
    /\ offset \div LeafBytes <= SizeMax - LeafCount(length)

PositionOf(offset, length) ==
    [level       |-> Level(LeafCount(length)),
     first_leaf  |-> offset \div LeafBytes,
     leaf_count  |-> LeafCount(length),
     byte_offset |-> offset,
     byte_length |-> length]

NoPosition ==
    [level |-> 0, first_leaf |-> 0, leaf_count |-> 0,
     byte_offset |-> 0, byte_length |-> 0]

Position ==
    [level : 0..SizeMax, first_leaf : 0..SizeMax, leaf_count : 0..SizeMax,
     byte_offset : 0..SizeMax, byte_length : 0..SizeMax]

PositionValid(position) ==
    /\ RangeAccepted(position.byte_offset, position.byte_length)
    /\ position = PositionOf(position.byte_offset, position.byte_length)

-----------------------------------------------------------------------------

\* Mutants: the limit without its `- 1`, so the power may equal v.
LargestPowerOfTwoAtMost(v) ==
    IF v < 2 THEN 0 ELSE Pow2[LeastExponentAbove(v \div 2)]

\* The loop with its limit halved once more, and a midpoint split.
HalfTheLargestPower(v) ==
    IF v < 2 THEN 0 ELSE Pow2[LeastExponentAbove((v - 1) \div 4)]

Midpoint(v) == v \div 2

\* The doubling loop gives up (0) when the next power would not fit size_t.
LargestPowerOfTwoBelow(v) ==
    LET k == LeastExponentAbove((v - 1) \div 2) IN
    IF v < 2 \/ \E j \in 0..(k - 1) : Pow2[j] > SizeMax \div 2
    THEN 0
    ELSE Pow2[k]

LeftLength(parent) == LargestPowerOfTwoBelow(parent.leaf_count) * LeafBytes

Children(parent) ==
    << PositionOf(parent.byte_offset, LeftLength(parent)),
       PositionOf(parent.byte_offset + LeftLength(parent),
                  parent.byte_length - LeftLength(parent)) >>

\* Every check of fch_tree_split_position, the defensive ones included.
SplitAccepted(parent) ==
    LET left_leaves == LargestPowerOfTwoBelow(parent.leaf_count)
        left        == Children(parent)[1]
        right       == Children(parent)[2]
    IN
    /\ PositionValid(parent)
    /\ parent.leaf_count >= Arity
    /\ left_leaves # 0
    /\ left_leaves <= SizeMax \div LeafBytes
    /\ LeftLength(parent) < parent.byte_length
    /\ RangeAccepted(left.byte_offset, left.byte_length)
    /\ RangeAccepted(right.byte_offset, right.byte_length)
    /\ left.first_leaf = parent.first_leaf
    /\ left.leaf_count = left_leaves
    /\ right.first_leaf = parent.first_leaf + left_leaves
    /\ left.leaf_count + right.leaf_count = parent.leaf_count

\* Mutant: the blocks keep their absolute offsets.
SplitAbsolute(offset, length, max_blocks) ==
    LET parent == PositionOf(offset, length) IN
    IF max_blocks = 0 \/ ~RangeAccepted(offset, length) THEN << >>
    ELSE IF parent.leaf_count = 1
    THEN << [offset |-> offset, length |-> length] >>
    ELSE [i \in 1..Arity |-> [offset |-> Children(parent)[i].byte_offset,
                              length |-> Children(parent)[i].byte_length]]

\* fch_fractal_split_reader: the blocks it writes, relative to the range; the
\* empty sequence is its return value 0.
FractalSplit(offset, length, max_blocks) ==
    LET parent == PositionOf(offset, length)
        whole  == << [offset |-> 0, length |-> length] >>
        halves == [i \in 1..Arity |->
                      [offset |-> Children(parent)[i].byte_offset - offset,
                       length |-> Children(parent)[i].byte_length]]
    IN
    IF max_blocks = 0 \/ ~RangeAccepted(offset, length) THEN << >>
    ELSE IF parent.leaf_count = 1 THEN whole
    ELSE IF max_blocks < Arity \/ ~SplitAccepted(parent) THEN << >>
    ELSE halves
=============================================================================
