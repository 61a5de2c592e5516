--------------------------- MODULE ProcessReader ---------------------------
(***************************************************************************)
(* The steps of fch_process_reader (src/src/fractal_process.c): the loop    *)
(* that hashes the range [offset, offset + length) of a reader leaf by     *)
(* leaf.  FchProcess calls it with every range and with readers that fail; *)
(* in FchOneShot the one-shot API calls it over the padded message.        *)
(***************************************************************************)
EXTENDS TreeWorkspace

VARIABLES
    request,      \* the arguments: an offset, a length, and whether malloc
                  \* succeeds
    pc,           \* "idle", "called", "leaves" or "returned"
    workspace,
    leaf_index,
    leaf_offset,
    remaining,
    root,         \* result: the root, or EmptySlot when result.state is NULL
    heap          \* result.state is allocated

locals == <<workspace, leaf_index, leaf_offset, remaining>>
processVars == <<request, pc, workspace, leaf_index, leaf_offset, remaining,
                 root, heap>>

Idle ==
    /\ workspace = EmptyWorkspace
    /\ leaf_index = 0
    /\ leaf_offset = 0
    /\ remaining = 0
    /\ root = EmptySlot
    /\ heap = FALSE

-----------------------------------------------------------------------------

\* Mutant: the fail label does not free the state.
ReturnWithoutFree ==
    /\ pc' = "returned"
    /\ root' = EmptySlot
    /\ UNCHANGED heap

\* The `fail` label, and the returns before the allocation.
ReturnNothing ==
    /\ pc' = "returned"
    /\ root' = EmptySlot
    /\ heap' = FALSE

RootPosition == PositionOf(request.offset, request.length)

Refuse ==
    /\ pc = "called"
    /\ \/ ~RangeAccepted(request.offset, request.length)
       \/ RootPosition.level >= WorkspaceSlots
       \/ ~request.memory
    /\ ReturnNothing
    /\ UNCHANGED <<request, locals>>

Begin ==
    /\ pc = "called"
    /\ RangeAccepted(request.offset, request.length)
    /\ RootPosition.level < WorkspaceSlots
    /\ request.memory
    /\ pc' = "leaves"
    /\ heap' = TRUE
    /\ workspace' = EmptyWorkspace
    /\ leaf_index' = 0
    /\ leaf_offset' = request.offset
    /\ remaining' = request.length
    /\ UNCHANGED <<request, root>>

\* One iteration of the leaf loop.
LeafLength == IF remaining > LeafBytes THEN LeafBytes ELSE remaining

PushNextLeaf(reader) ==
    LET push == PushLeaf(workspace, reader, leaf_offset, LeafLength) IN
    /\ pc = "leaves"
    /\ leaf_index < RootPosition.leaf_count
    /\ workspace' = push.workspace
    /\ \/ /\ push.ok
          /\ leaf_offset <= SizeMax - LeafLength
          /\ remaining' = remaining - LeafLength
          /\ leaf_offset' = leaf_offset + LeafLength
          /\ leaf_index' = leaf_index + 1
          /\ UNCHANGED <<pc, root, heap>>
       \/ /\ ~push.ok \/ leaf_offset > SizeMax - LeafLength
          /\ ReturnNothing
          /\ UNCHANGED <<leaf_index, leaf_offset, remaining>>
    /\ UNCHANGED request

FoldRoot ==
    /\ pc = "leaves"
    /\ leaf_index = RootPosition.leaf_count
    /\ \/ /\ remaining = 0
          /\ FoldAccepted(workspace, RootPosition)
          /\ pc' = "returned"
          /\ root' = Root(workspace)
          /\ UNCHANGED heap
       \/ /\ remaining # 0 \/ ~FoldAccepted(workspace, RootPosition)
          /\ ReturnNothing
    /\ UNCHANGED <<request, locals>>
=============================================================================
