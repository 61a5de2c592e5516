SPECIFICATION Spec
CONSTANTS
    LeafBytes = 2
    WorkspaceSlots = 8
    LengthBytes = 1
    PaddingMin = 2
    ChunkBytes = 1
    LeafChunks = 16
    ChunkLength = 64
    LongLength = 64
    LongChunk = 4
    LongUnit = 2
    FooterLength = 2
    ExtensionLength = 1
    CollisionSamples = 4
    PairLimit = 2
    BucketLimit = 2
    HerdingBucketLimit = 3
    PrefixValues = {0, 1, 2}
    RestValues = {0, 1}
    MinLeaves = 3
    MaxLeaves = 33
    PreimageChunks = 256
    PreimageSamples = 512
    TargetChunks = 64
    Targets = 64
    TargetSamples = 256
    ExpandablePairs = 96
    ReuseSamples = 256
    LongDepth = 6
    MaxFaults = 1
INVARIANTS CandidatesAreOthers FailsByMisfortune StatsExact
PROPERTY PassCoversReport
