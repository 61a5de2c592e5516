--------------------------- MODULE ReferenceHash ---------------------------
(***************************************************************************)
(* The digest as tools/fch_reference.py defines it: pad the whole message,  *)
(* recurse top-down over the canonical split, compress the root.  It is the *)
(* definition the incremental implementation is compared with.             *)
(***************************************************************************)
EXTENDS TreeRecords

\* _combine: the parent of two adjacent nodes, without the C code's checks.
Parent(left, right) ==
    Combine(left, right, left.tree.byte_length + right.tree.byte_length)

\* The ranges of bytes that fit size_t.
Ranges == {r \in (0..SizeMax) \X (0..SizeMax) : r[1] + r[2] <= SizeMax}

\* _process: the node over the bytes from offset on, length of them.
Tree(bytes) ==
    LET node[range \in Ranges] ==
            LET offset == range[1]
                length == range[2]
                left   == LargestPowerOfTwoBelow(LeafCount(length)) * LeafBytes
            IN  IF LeafCount(length) <= 1
                THEN LeafNode(bytes, offset, length)
                ELSE Parent(node[<<offset, left>>],
                            node[<<offset + left, length - left>>])
    IN  node

TreeNode(bytes, offset, length) == Tree(bytes)[<<offset, length>>]

\* digest(message, output_bits): message[i] for i < length are its bytes.
ReferenceDigest(variant, message, length) ==
    Finalize(variant,
             TreeNode(PaddedMessage(message, length), 0, PaddedLength(length)),
             length, PaddedLength(length))
=============================================================================
