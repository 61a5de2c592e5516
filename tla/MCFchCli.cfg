SPECIFICATION Spec
CONSTANTS
    Files <- MCFiles
    MaxArgs = 2
    BufferSize = 3
    Limit = 7
    Variants = {256, 512}
INVARIANTS LinesAreComplete ExitCodeTells ContextFreed NoBlockLost
PROPERTY Terminates
