---------------------------- MODULE TreeDescent ----------------------------
(***************************************************************************)
(* A client that repeatedly splits a range, as the reference implementation *)
(* recurses (tools/fch_reference.py, _process) and as the tests walk the    *)
(* tree with fch_fractal_split_reader: start at a root range, replace the   *)
(* current range by one of its blocks, stop at a single leaf.              *)
(***************************************************************************)
EXTENDS TreeSchedule

CONSTANTS
    Roots   \* the <<offset, length>> pairs a descent may start from

ASSUME RootsAssumption == Roots \subseteq (0..SizeMax) \X (0..SizeMax)

VARIABLES
    start,   \* the range the descent began with
    range,   \* the range it has reached
    depth    \* how many splits it made

descentVars == <<start, range, depth>>

RangeOf(pair) == [offset |-> pair[1], length |-> pair[2]]

DescentInit ==
    /\ start \in {RangeOf(pair) : pair \in Roots}
    /\ RangeAccepted(start.offset, start.length)
    /\ range = start
    /\ depth = 0

\* One call of fch_fractal_split_reader and the step into its i-th block.
Descend(i) ==
    LET blocks == FractalSplit(range.offset, range.length, Arity) IN
    /\ Len(blocks) = Arity
    /\ range' = [offset |-> range.offset + blocks[i].offset,
                 length |-> blocks[i].length]
    /\ depth' = depth + 1
    /\ UNCHANGED start

\* A single block is a leaf: the recursion ends there.
AtLeaf == Len(FractalSplit(range.offset, range.length, Arity)) = 1

LeafReached == AtLeaf /\ UNCHANGED descentVars

DescentNext == (\E i \in 1..Arity : Descend(i)) \/ LeafReached

DescentSpec == DescentInit /\ [][DescentNext]_descentVars

-----------------------------------------------------------------------------

Here == PositionOf(range.offset, range.length)

\* The numbers the descent computes without an overflow check stay in size_t,
\* and the range stays inside the root it started from.
TypeOK ==
    /\ range.offset \in 0..SizeMax
    /\ range.length \in 1..SizeMax
    /\ range.offset >= start.offset
    /\ range.offset + range.length <= start.offset + start.length
    /\ depth \in 0..WorkspaceSlots

\* The defensive checks of fch_tree_split_position never fire on a position
\* the API itself produced: a range of several leaves is always split.
SplitTotal == Here.leaf_count >= Arity => SplitAccepted(Here)

\* The two blocks are adjacent, cover the range exactly, the left one is a
\* full subtree, and the right one is no larger than it.
SplitTiles ==
    LET blocks == FractalSplit(range.offset, range.length, Arity) IN
    Len(blocks) = Arity =>
        /\ blocks[1].offset = 0
        /\ blocks[2].offset = blocks[1].length
        /\ blocks[2].offset + blocks[2].length = range.length
        /\ blocks[1].length \in {LeafBytes * Pow2[l] : l \in 0..WorkspaceSlots}
        /\ blocks[2].length <= blocks[1].length

\* Splitting never takes a range to a higher level than it has left: a descent
\* makes at most as many splits as the level of the range it starts from. It
\* says nothing of the slots of the workspace, which ProcessReader is about.
DepthBounded ==
    depth + Here.level <= PositionOf(start.offset, start.length).level
=============================================================================
