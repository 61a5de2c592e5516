--------------------------- MODULE TreeWorkspace ---------------------------
(***************************************************************************)
(* The binary counter of subtree roots that builds the tree bottom-up       *)
(* (src/src/fractal_process.c): slot l, when occupied, holds the root of a  *)
(* full subtree of 2^l leaves.  Pushing a leaf is an increment whose carry  *)
(* is combined with each occupied slot it meets; folding combines what is   *)
(* left, from the lowest slot up.                                          *)
(***************************************************************************)
EXTENDS ReferenceHash

Slots == 0..(WorkspaceSlots - 1)

\* The contents of a slot are never read while `occupied` is 0.
EmptySlot ==
    [occupied |-> FALSE, tree |-> NoPosition, words |-> MixInit("none")]

EmptyWorkspace == [l \in Slots |-> EmptySlot]

\* combine_workspace_states: the blocks it describes the children by, its
\* checks and those of the fch_combine_into it calls, and its result.
ChildBlocks(left, right) ==
    << [offset |-> 0, length |-> left.tree.byte_length],
       [offset |-> left.tree.byte_length, length |-> right.tree.byte_length] >>

\* Mutant: the children in the wrong order.
SlotsCombineSwapped(left, right) ==
    /\ left.occupied
    /\ CombineAccepted(right, left, ChildBlocks(right, left),
                       left.tree.byte_length + right.tree.byte_length)

SlotsCombine(left, right) ==
    /\ left.occupied
    /\ right.occupied
    /\ left.tree.byte_length <= SizeMax - right.tree.byte_length
    /\ CombineAccepted(left, right, ChildBlocks(left, right),
                       left.tree.byte_length + right.tree.byte_length)

\* Mutant: the left child's chaining value twice.
CombineLeftTwice(left, right) ==
    Combine(left, [right EXCEPT !.words = left.words],
            left.tree.byte_length + right.tree.byte_length)

CombineSlots(left, right) ==
    Combine(left, right, left.tree.byte_length + right.tree.byte_length)

-----------------------------------------------------------------------------

\* The node carried into level l: the leaf, combined with slots 0 to l - 1.
Carry(workspace, leaf) ==
    LET carry[l \in 0..WorkspaceSlots] ==
            IF l = 0 THEN leaf
            ELSE CombineSlots(workspace[l - 1], carry[l - 1])
    IN  carry

\* The level the loop of fch_tree_push_leaf stops at: past the last slot, at
\* a free one, or at one its carry does not combine with.
StopLevel(workspace, carry) ==
    CHOOSE l \in 0..WorkspaceSlots :
        /\ \/ l = WorkspaceSlots
           \/ ~SlotsCombine(workspace[l], carry[l])
        /\ \A j \in 0..(l - 1) : SlotsCombine(workspace[j], carry[j])

\* Mutant: the slots that were combined stay occupied.
PlaceKeepsSlots(workspace, carry, stop) ==
    IF stop \in Slots /\ ~workspace[stop].occupied
    THEN [ok |-> TRUE, workspace |-> [workspace EXCEPT ![stop] = carry[stop]]]
    ELSE [ok |-> FALSE, workspace |-> workspace]

\* The node is placed into the free slot the loop stopped at.  A combination
\* refused half-way leaves the slots below it cleared.
Place(workspace, carry, stop) ==
    LET free == stop \in Slots /\ ~workspace[stop].occupied IN
    [ok        |-> free,
     workspace |-> [l \in Slots |->
                       IF l < stop THEN EmptySlot
                       ELSE IF free /\ l = stop THEN carry[l]
                       ELSE workspace[l]]]

PushCarry(workspace, carry) ==
    Place(workspace, carry, StopLevel(workspace, carry))

\* fch_tree_push_leaf: whether it returns 1, and the workspace it leaves.
PushLeaf(workspace, reader, offset, length) ==
    IF LeafAccepted(reader, offset, length)
    THEN PushCarry(workspace,
                   Carry(workspace, LeafNode(reader, offset, length)))
    ELSE [ok |-> FALSE, workspace |-> workspace]

-----------------------------------------------------------------------------

\* root[l] is the root fch_tree_fold_root has built from slots 0 to l - 1.
Folded(workspace) ==
    LET root[l \in 0..WorkspaceSlots] ==
            IF l = 0 THEN EmptySlot
            ELSE IF ~workspace[l - 1].occupied THEN root[l - 1]
            ELSE IF ~root[l - 1].occupied THEN workspace[l - 1]
            ELSE CombineSlots(workspace[l - 1], root[l - 1])
    IN  root

Root(workspace) == Folded(workspace)[WorkspaceSlots]

\* fch_tree_fold_root returns 1.
FoldAccepted(workspace, expected) ==
    LET root == Folded(workspace) IN
    /\ \A l \in Slots :
           workspace[l].occupied /\ root[l].occupied
               => SlotsCombine(workspace[l], root[l])
    /\ root[WorkspaceSlots].occupied
    /\ root[WorkspaceSlots].tree = expected

-----------------------------------------------------------------------------

\* What the slots hold after `leaves` full leaves of a message: slot l is
\* occupied exactly when bit l of the count is set, by the root of the last
\* full subtree of 2^l leaves, as the reference would build it.
Canonical(workspace, leaves, bytes) ==
    \A l \in Slots :
        LET index == leaves \div Pow2[l]
            span  == Pow2[l] * LeafBytes
        IN  workspace[l] = IF index % 2 = 1
                           THEN TreeNode(bytes, (index - 1) * span, span)
                           ELSE EmptySlot
=============================================================================
