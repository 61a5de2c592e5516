---------------------------- MODULE TreeScreens ----------------------------
(***************************************************************************)
(* What the structural screens of src/analysis/fch_tree_attacks.c build and *)
(* try: nodes made over a buffer, and calls of fch_combine that the library *)
(* must take or refuse.  A byte of random filling is its stream and its     *)
(* position in it.                                                         *)
(***************************************************************************)
EXTENDS TreeWorkspace, SequencesExt

Random(stream, seed, length) == [i \in 1..length |-> <<stream, seed, i>>]

\* fch_store_le64 over the first bytes of a message.
Indexed(message, index) == [message EXCEPT ![1] = <<"index", index>>]

\* positioned_read: message sits at base_offset, and nothing else is served.
PositionedReader(message, base_offset) ==
    [o \in base_offset..(base_offset + Len(message) - 1) |->
        message[o - base_offset + 1]]

MakeLeaf(message, offset) ==
    LeafNode(PositionedReader(message, offset), offset, Len(message))

LeafMade(message, offset) ==
    LeafAccepted(PositionedReader(message, offset), offset, Len(message))

\* fch_process_reader pushes the leaf that starts at a place of the message.
PushNext(before, reader, offset, length, at) ==
    IF ~before.ok THEN before
    ELSE PushLeaf(before.workspace, reader, offset + at,
                  IF length - at > LeafBytes THEN LeafBytes ELSE length - at)

\* Its workspace after each leaf, and after the last.
Pushes(reader, offset, length) ==
    LET after[k \in 0..LeafCount(length)] ==
            IF k = 0 THEN [ok |-> TRUE, workspace |-> EmptyWorkspace]
            ELSE PushNext(after[k - 1], reader, offset, length,
                          (k - 1) * LeafBytes)
    IN  after

Pushed(message, offset) ==
    Pushes(PositionedReader(message, offset), offset, Len(message))
        [LeafCount(Len(message))]

\* make_subtree: the root fch_process_reader returns over the message, or
\* EmptySlot.  Its malloc is the caller's concern.
RootOf(pushed, position) ==
    IF pushed.ok /\ FoldAccepted(pushed.workspace, position)
    THEN Root(pushed.workspace) ELSE EmptySlot

MakeSubtree(message, offset) ==
    IF RangeAccepted(offset, Len(message))
    THEN RootOf(Pushed(message, offset), PositionOf(offset, Len(message)))
    ELSE EmptySlot

\* combine_state: fch_combine takes the children, for any number of them.
Takes(children, blocks, node_length) ==
    /\ Len(children) = Arity
    /\ \A i \in 1..Arity : children[i].occupied
    /\ CombineAccepted(children[1], children[2], blocks, node_length)

CombineState(children, node_length) ==
    Combine(children[1], children[2], node_length)

\* Where blocks of the given lengths end, one behind the other.
Ends(lengths) ==
    LET end[i \in 0..Len(lengths)] == IF i = 0 THEN 0 ELSE end[i - 1] + lengths[i]
    IN  end

BlocksOf(lengths) ==
    [i \in 1..Len(lengths) |->
        [offset |-> Ends(lengths)[i - 1], length |-> lengths[i]]]

Leaves(n) == n * LeafBytes

\* `words[0] ^= 1`: another chaining value, with the tree position kept.
Altered(node) == [node EXCEPT !.words.domain = "altered"]

Moved(node, position) == [node EXCEPT !.tree = position]

\* A call of combine_state.  It is expected to be taken ("accept"), to be
\* refused ("reject"), or to be taken and give another node ("graft").
Attempt(expect, children, lengths, other) ==
    [expect |-> expect, children |-> children, blocks |-> BlocksOf(lengths),
     node_length |-> Ends(lengths)[Len(lengths)], other |-> other]

Accept(children, lengths) == Attempt("accept", children, lengths, EmptySlot)
Reject(children, lengths) == Attempt("reject", children, lengths, EmptySlot)

-----------------------------------------------------------------------------
(* tree_shape_screen *)

ShapeLeaf(i) ==
    MakeLeaf(Indexed(Random("shape", i, LeafBytes), i), Leaves(i))

Pair(left, right) == CombineState(<<left, right>>, Leaves(2))

\* The calls in order: the canonical tree over the leaves a, b, c and d and
\* the skewed subtree over b, c and d, then six that must be refused.
ShapeAttempts(a, b, c, d, ab, cd, bc, bcd, pair, half) ==
    << Accept(<<a, b>>, pair), Accept(<<c, d>>, pair), Accept(<<b, c>>, pair),
       Accept(<<bc, d>>, <<Leaves(2), Leaves(1)>>),
       Accept(<<ab, cd>>, half),
       Attempt("graft", <<Altered(ab), cd>>, half,
               CombineState(<<ab, cd>>, Leaves(4))),
       Reject(<<cd, ab>>, half),
       Reject(<<a, bcd>>, <<Leaves(1), Leaves(3)>>),
       Reject(<<a, b, c, d>>, [i \in 1..4 |-> Leaves(1)]),
       Reject(<<ab, cd>>, <<Leaves(2) - 1, Leaves(2) + 1>>),
       Reject(<<ab, [cd EXCEPT !.tree.first_leaf = @ + 1]>>, half),
       Reject(<<ab, [cd EXCEPT !.tree.level = @ + 1]>>, half) >>

TreeShapeOf(leaf) ==
    ShapeAttempts(leaf[0], leaf[1], leaf[2], leaf[3],
                  Pair(leaf[0], leaf[1]), Pair(leaf[2], leaf[3]),
                  Pair(leaf[1], leaf[2]),
                  CombineState(<<Pair(leaf[1], leaf[2]), leaf[3]>>, Leaves(3)),
                  <<Leaves(1), Leaves(1)>>, <<Leaves(2), Leaves(2)>>)

TreeShape == TreeShapeOf([i \in 0..3 |-> ShapeLeaf(i)])

-----------------------------------------------------------------------------
(* subtree_replacement_screen: both halves of the message are the same. *)

HalfMessage == Random("replacement", 0, Leaves(4))

Part(first, count) ==
    SubSeq(HalfMessage \o HalfMessage, Leaves(first) + 1, Leaves(first + count))

NodeAt(first, count) ==
    IF count = 1 THEN MakeLeaf(Part(first, 1), Leaves(first))
    ELSE MakeSubtree(Part(first, count), Leaves(first))

\* The ten nodes the screen makes, by their first leaf and number of leaves.
ReplacementNodes ==
    [at \in {<<0, 1>>, <<1, 1>>, <<4, 1>>, <<0, 2>>, <<2, 2>>, <<4, 2>>,
             <<6, 2>>, <<0, 4>>, <<4, 4>>, <<0, 8>>} |-> NodeAt(at[1], at[2])]

\* The nodes over equal bytes must not have equal words.
Relocated(nodes) ==
    \A n \in {1, 2, 4} : nodes[<<0, n>>].words # nodes[<<4, n>>].words

\* The five ways to forge the position of a node.
Forged(node) ==
    << [node EXCEPT !.tree.level = @ + 1],
       [node EXCEPT !.tree.first_leaf = @ + 1],
       [node EXCEPT !.tree.leaf_count = @ + 1],
       [node EXCEPT !.tree.byte_offset = @ + Leaves(1)],
       [node EXCEPT !.tree.byte_length = @ - 1] >>

\* The words of a subtree grafted onto the position of one over equal bytes.
Graft(nodes, n, right) ==
    Attempt("graft",
            <<Moved(nodes[<<4, n>>], nodes[<<0, n>>].tree), nodes[right]>>,
            <<Leaves(n), Leaves(n)>>, nodes[<<0, 2 * n>>])

\* Three exchanged subtrees, five forged positions and three grafts.
ReplacementAttempts(nodes, pairs, quads) ==
    << Reject(<<nodes[<<4, 2>>], nodes[<<2, 2>>]>>, pairs),
       Reject(<<nodes[<<0, 2>>], nodes[<<6, 2>>]>>, pairs),
       Reject(<<nodes[<<4, 4>>], nodes[<<0, 4>>]>>, quads) >>
    \o [f \in 1..5 |->
           Reject(<<nodes[<<0, 2>>], Forged(nodes[<<2, 2>>])[f]>>, pairs)]
    \o << Graft(nodes, 1, <<1, 1>>), Graft(nodes, 2, <<2, 2>>),
          Graft(nodes, 4, <<4, 4>>) >>

ReplacementOf(nodes) ==
    ReplacementAttempts(nodes, <<Leaves(2), Leaves(2)>>,
                        <<Leaves(4), Leaves(4)>>)

Replacement == ReplacementOf(ReplacementNodes)

-----------------------------------------------------------------------------
(* canonical_partition_screen *)

PartitionMessage(leaf_count) == Random("partition", 0, Leaves(leaf_count))

\* The two subtrees made when `left` of the leaves go to the first.
Partition(leaf_count, offset, left) ==
    LET message == PartitionMessage(leaf_count) IN
    << MakeSubtree(SubSeq(message, 1, Leaves(left)), offset),
       MakeSubtree(SubSeq(message, Leaves(left) + 1, Len(message)),
                   offset + Leaves(left)) >>

CanonicalLeft(leaf_count, offset) ==
    Children(PositionOf(offset, Leaves(leaf_count)))[1].leaf_count

\* The canonical partition combines to the subtree made directly.
CanonicalTaken(halves, leaf_count, offset) ==
    LET left == halves[1].tree.byte_length IN
    /\ SplitAccepted(PositionOf(offset, Leaves(leaf_count)))
    /\ Takes(halves, BlocksOf(<<left, Leaves(leaf_count) - left>>),
             Leaves(leaf_count))
    /\ CombineState(halves, Leaves(leaf_count))
           = MakeSubtree(PartitionMessage(leaf_count), offset)

\* Exchanged, or at another boundary, the halves are refused.
ReversedTaken(halves, leaf_count) ==
    LET left == halves[1].tree.byte_length IN
    Takes(Reverse(halves), BlocksOf(<<left, Leaves(leaf_count) - left>>),
          Leaves(leaf_count))

AlternativeTaken(halves, leaf_count, left) ==
    Takes(halves, BlocksOf(<<Leaves(left), Leaves(leaf_count - left)>>),
          Leaves(leaf_count))
=============================================================================
