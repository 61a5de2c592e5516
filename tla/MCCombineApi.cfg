SPECIFICATION CombineSpec
CONSTANTS
    LeafBytes = 2
    WorkspaceSlots = 4
    LengthBytes = 1
    PaddingMin = 2
    ChunkBytes = 1
    Input <- MCInput
    MaxNodes = 3
INVARIANTS OneTreePerRange CombinesExactlySiblings
