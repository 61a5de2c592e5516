---------------------------- MODULE CombineApi ----------------------------
(***************************************************************************)
(* A client of fch_leaf_compress_reader and fch_combine (src/src/leaf.c,    *)
(* src/src/combine.c) that combines whatever nodes it holds, in any order   *)
(* and with any description of them: the structural guarantee of the tree   *)
(* encoding does not depend on the schedule of fractal_process.c.          *)
(***************************************************************************)
EXTENDS ReferenceHash, FiniteSets

CONSTANTS
    Input,       \* the bytes the nodes are over: a function from offsets
    MaxNodes     \* bound on the nodes the client holds at a time

ASSUME CombineApiAssumption ==
    /\ Input \in [0..SizeMax -> Byte]
    /\ MaxNodes \in Nat

VARIABLE nodes    \* the nodes the client holds

CombineInit == nodes = {}

Hold(node) ==
    /\ Cardinality(nodes \cup {node}) <= MaxNodes
    /\ nodes' = nodes \cup {node}

HoldLeaf(offset, length) ==
    /\ LeafAccepted(Input, offset, length)
    /\ Hold(LeafNode(Input, offset, length))

\* The descriptions a client may pass with a left and a right child: the right
\* one, the two blocks exchanged, or a block one byte off.
Descriptions(left, right) ==
    LET l == left.tree.byte_length
        r == right.tree.byte_length
        Blocks(a, b, c, d) == << [offset |-> a, length |-> b],
                                 [offset |-> c, length |-> d] >>
    IN  {Blocks(0, l, l, r), Blocks(l, r, 0, l), Blocks(0, l, l + 1, r)}

\* fch_combine returning the parent.  A call it refuses, and one whose result
\* it cannot allocate, return NULL and change nothing.
Call(left, right, blocks, node_length) ==
    /\ CombineAccepted(left, right, blocks, node_length)
    /\ Hold(Combine(left, right, node_length))

\* The client frees a node.
Release(node) == nodes' = nodes \ {node}

CombineNext ==
    \/ \E offset \in 0..SizeMax, length \in 1..LeafBytes :
           HoldLeaf(offset, length)
    \/ \E left, right \in nodes :
           \E blocks \in Descriptions(left, right), extra \in {0, 1} :
               Call(left, right, blocks,
                    left.tree.byte_length + right.tree.byte_length + extra)
    \/ \E node \in nodes : Release(node)

CombineSpec == CombineInit /\ [][CombineNext]_nodes

-----------------------------------------------------------------------------

\* Whatever is combined in whatever order, a node over a range is the node
\* the reference recursion defines for the range: there is one tree over
\* given bytes, and no accepted sequence of calls builds another.
OneTreePerRange ==
    \A node \in nodes :
        node = TreeNode(Input, node.tree.byte_offset, node.tree.byte_length)

\* The pairs that combine are exactly the siblings of the canonical tree: a
\* full subtree and, right behind it, one that is no longer.
CombinesExactlySiblings ==
    \A left, right \in nodes :
        CombineAccepted(left, right,
            << [offset |-> 0, length |-> left.tree.byte_length],
               [offset |-> left.tree.byte_length,
                length |-> right.tree.byte_length] >>,
            left.tree.byte_length + right.tree.byte_length)
        <=>
        /\ \E l \in 0..WorkspaceSlots :
               left.tree.byte_length = Pow2[l] * LeafBytes
        /\ right.tree.byte_offset =
               left.tree.byte_offset + left.tree.byte_length
        /\ right.tree.byte_length <= left.tree.byte_length
=============================================================================
