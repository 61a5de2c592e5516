---------------------------- MODULE TreeRecords ----------------------------
(***************************************************************************)
(* The records that leaf.c, combine.c and fch_mix_finalize_output absorb,   *)
(* and the chaining state they build.  The compression function is taken to *)
(* be free: a chaining state is the domain it was initialised with and the  *)
(* records absorbed so far, so two states are equal exactly when they were  *)
(* fed the same records in the same order.  Fields that are compile-time    *)
(* constants (encoding version, block size, rounds, arity...) are left out. *)
(***************************************************************************)
EXTENDS Padding

CONSTANTS
    ChunkBytes   \* message bytes of a leaf record, FCH_MIX_BLOCK_SIZE - 8

ASSUME ChunkAssumption == ChunkBytes \in Nat \ {0}

BlockSize == ChunkBytes + 8        \* FCH_MIX_BLOCK_SIZE

Variants == {256, 512}

\* fch_mix_init and fch_mix_compress.
MixInit(domain) == [domain |-> domain, absorbed |-> << >>]

MixCompress(state, record) ==
    [state EXCEPT !.absorbed = Append(@, record)]

\* A record and the parameters of its compression.  `fields` are its encoded
\* numbers, `bytes` its message bytes, `words` the chaining value of a child.
Record(tag, fields, bytes, words, length, counter, domain, flags) ==
    [tag |-> tag, fields |-> fields, bytes |-> bytes, words |-> words,
     length |-> length, counter |-> counter, domain |-> domain,
     flags |-> flags]

Plain(tag, fields, counter, domain, flags) ==
    Record(tag, fields, << >>, << >>, BlockSize, counter, domain, flags)

PositionFields(p) ==
    << p.level, p.first_leaf, p.leaf_count, p.byte_offset, p.byte_length >>

-----------------------------------------------------------------------------

NodeOf(position, words) ==
    [occupied |-> TRUE, tree |-> position, words |-> words]

LeafHeader(p) ==
    Plain("leaf header", <<p.first_leaf, p.byte_offset, p.byte_length>>,
          0, "leaf", {"leaf header"})

\* The c-th data record of a leaf: the next ChunkBytes bytes or what is left.
LeafData(reader, p, c) ==
    LET from  == (c - 1) * ChunkBytes
        last  == p.byte_length - from <= ChunkBytes
        count == IF last THEN p.byte_length - from ELSE ChunkBytes
    IN
    Record("leaf data", << >>,
           [i \in 1..count |-> reader[p.byte_offset + from + i - 1]], << >>,
           count + 8, from + count, "leaf",
           {"leaf data"} \cup (IF last THEN {"final"} ELSE {}))

\* fch_leaf_compress_reader.  A reader is the function from the offsets it can
\* serve to bytes; a chunk outside its domain is a read that returns 0.
LeafAccepted(reader, offset, length) ==
    /\ RangeAccepted(offset, length)
    /\ LeafCount(length) = 1
    /\ Level(1) = 0
    /\ offset..(offset + length - 1) \subseteq DOMAIN reader

LeafNode(reader, offset, length) ==
    LET p      == PositionOf(offset, length)
        chunks == 1 + (length - 1) \div ChunkBytes
    IN
    NodeOf(p, [domain   |-> "leaf",
               absorbed |-> << LeafHeader(p) >>
                            \o [c \in 1..chunks |-> LeafData(reader, p, c)]])

-----------------------------------------------------------------------------

NodeHeader(p) ==
    Plain("node header", PositionFields(p), 0, "node", {"node header"})

NodeChild(index, child) ==
    Record("node child", <<index>> \o PositionFields(child.tree), << >>,
           child.words, BlockSize, index + 1, "node",
           {"node child"} \cup (IF index + 1 = Arity THEN {"final"} ELSE {}))

\* Mutant: any two adjacent children combine.
CombineAdjacent(left, right, blocks, node_length) ==
    /\ RangeAccepted(left.tree.byte_offset, node_length)
    /\ node_length = left.tree.byte_length + right.tree.byte_length
    /\ right.tree.byte_offset = left.tree.byte_offset + left.tree.byte_length

\* The checks of fch_combine_into on its two children, the blocks that
\* describe them and the length of the node they form.
CombineAccepted(left, right, blocks, node_length) ==
    LET parent == PositionOf(left.tree.byte_offset, node_length) IN
    /\ PositionValid(left.tree)
    /\ PositionValid(right.tree)
    /\ left.tree.byte_length <= SizeMax - right.tree.byte_length
    /\ node_length = left.tree.byte_length + right.tree.byte_length
    /\ RangeAccepted(left.tree.byte_offset, node_length)
    /\ SplitAccepted(parent)
    /\ << left.tree, right.tree >> = Children(parent)
    /\ blocks = << [offset |-> 0, length |-> left.tree.byte_length],
                   [offset |-> left.tree.byte_length,
                    length |-> right.tree.byte_length] >>

Combine(left, right, node_length) ==
    LET parent == PositionOf(left.tree.byte_offset, node_length) IN
    NodeOf(parent,
           MixCompress(MixCompress(MixCompress(MixInit("node"),
               NodeHeader(parent)), NodeChild(0, left)), NodeChild(1, right)))

-----------------------------------------------------------------------------

OutputWords(variant) == variant \div 64

OutputRecord(variant, length, padded_length, p) ==
    Plain("output",
          << variant, length, padded_length, p.leaf_count >>
              \o PositionFields(p),
          OutputWords(variant) * 8,
          IF variant = 256 THEN "output 256" ELSE "output 512",
          {"output", "final"})

\* The checks and the compression of fch_mix_finalize_output.
FinalizeAccepted(root, length, padded_length) ==
    /\ length <= SizeMax - Overhead
    /\ padded_length = PaddedLength(length)
    /\ root.tree = PositionOf(0, padded_length)

Finalize(variant, root, length, padded_length) ==
    [words |-> MixCompress(root.words,
                   OutputRecord(variant, length, padded_length, root.tree)),
     count |-> OutputWords(variant)]
=============================================================================
