SPECIFICATION Spec
CONSTANTS
    LeafBytes = 4
    WorkspaceSlots = 6
    LengthBytes = 1
    PaddingMin = 4
    ChunkBytes = 3
    Messages <- MCOneMessage
    UpdateSizes = {0, 1, 7, 16, 31, 32, 63}
    Tampering = FALSE
PROPERTY ImplementsPromise
