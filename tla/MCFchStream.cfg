SPECIFICATION Spec
CONSTANTS
    LeafBytes = 4
    WorkspaceSlots = 5
    LengthBytes = 2
    PaddingMin = 4
    ChunkBytes = 3
    Messages <- MCMessages
    UpdateSizes = {0, 1, 3, 4, 5, 9, 30}
    Tampering = FALSE
INVARIANT StorageHoldsMessage
PROPERTIES FailureIsFinal ImplementsPromise
