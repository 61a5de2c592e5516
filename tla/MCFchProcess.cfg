SPECIFICATION ProcessSpec
CONSTANTS
    LeafBytes = 3
    WorkspaceSlots = 5
    LengthBytes = 1
    PaddingMin = 2
    ChunkBytes = 2
    Content <- MCContent
    Requests <- MCRequests
INVARIANTS SlotsCountLeaves RootIsReference FailsOnlyForCause NoLeak
