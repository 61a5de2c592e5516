---------------------------- MODULE FchProcess ----------------------------
(***************************************************************************)
(* fch_process_reader (src/src/fractal_process.c) on its own.  One behaviour *)
(* is one call; the reader may refuse a read and malloc may fail.          *)
(***************************************************************************)
EXTENDS ProcessReader

CONSTANTS
    Requests,   \* the calls: an offset, a length, a reader, and whether
                \* malloc succeeds
    Content     \* what the readers serve: a function from offsets to bytes

ASSUME ProcessAssumption ==
    /\ Content \in [0..SizeMax -> Byte]
    /\ \A r \in Requests :
           /\ r.offset \in 0..SizeMax
           /\ r.length \in 0..SizeMax
           /\ r.memory \in BOOLEAN
           /\ \A o \in DOMAIN r.reader : r.reader[o] = Content[o]

ProcessInit ==
    /\ request \in Requests
    /\ pc = "called"
    /\ Idle

\* The call has returned and nothing is left to do.
Returned == pc = "returned" /\ UNCHANGED processVars

ProcessNext ==
    \/ Refuse
    \/ Begin
    \/ PushNextLeaf(request.reader)
    \/ FoldRoot
    \/ Returned

ProcessSpec == ProcessInit /\ [][ProcessNext]_processVars

-----------------------------------------------------------------------------

\* While the loop runs, the bytes behind the offset and the bytes left make up
\* the range; slot l holds the root of the last full subtree of 2^l of the
\* leaves pushed, counted from the start of the range (which need not be
\* aligned to 2^l leaves), and is free when bit l of their number is 0.
SlotsCountLeaves ==
    /\ pc = "leaves" =>
           leaf_offset + remaining = request.offset + request.length
    /\ pc = "leaves" /\ remaining > 0 =>
           \A l \in Slots :
               LET index == leaf_index \div Pow2[l]
                   span  == Pow2[l] * LeafBytes
               IN  workspace[l] =
                       IF index % 2 = 1
                       THEN TreeNode(Content, request.offset + (index - 1) * span,
                                     span)
                       ELSE EmptySlot

\* A root that is returned is the node the top-down recursion defines.
RootIsReference ==
    root.occupied =>
        root = TreeNode(Content, request.offset, request.length)

\* The call fails only for an unacceptable range, for want of memory, or
\* because the reader refuses one of the range's bytes: none of the checks
\* between the leaves and the root ever fires.
FailsOnlyForCause ==
    pc = "returned" /\ ~root.occupied =>
        \/ ~RangeAccepted(request.offset, request.length)
        \/ ~request.memory
        \/ \E o \in request.offset..(request.offset + request.length - 1) :
               o \notin DOMAIN request.reader

\* The state buffer is live exactly while the loop runs and in a result.
NoLeak == heap <=> (pc = "leaves" \/ root.occupied)
=============================================================================
