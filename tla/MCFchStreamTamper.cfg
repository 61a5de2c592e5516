SPECIFICATION Spec
CONSTANTS
    LeafBytes = 4
    WorkspaceSlots = 5
    LengthBytes = 2
    PaddingMin = 4
    ChunkBytes = 3
    Messages <- MCOneMessage
    UpdateSizes = {0, 2, 4, 7}
    Tampering = TRUE
INVARIANTS StorageHoldsMessage StorageReleased DigestIsReference
