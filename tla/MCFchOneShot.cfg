SPECIFICATION OneShotSpec
CONSTANTS
    LeafBytes = 4
    WorkspaceSlots = 6
    LengthBytes = 1
    PaddingMin = 4
    ChunkBytes = 3
    Clobber = 255
    Calls <- MCCalls
INVARIANTS DigestOfOriginal FailsExactlyForCause LeavesNothingBehind
