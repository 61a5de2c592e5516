SPECIFICATION Spec
CONSTANTS
    BlockWords = 2
    WordBits = 2
    Rotations <- MCRotations
    ByteValues = 2
    MaskValues = 2
    MixRounds = 16
    ReducedRounds = 8
    Samples = 2
    Bases = 2
    RoundtripSamples = 2
    ReboundCandidates = 4
    ProjectionLimit = 1
    MitmCandidates = 3
    MitmTarget = 2
    MitmPairLimit = 4
    OutputCandidates = 3
    OutputTarget = 1
    OutputLimit = 2
    OutputPairLimit = 2
    OutputBucketLimit = 2
    TableStates <- MCTableStates
    FixedPointSamples = 2
    NearSamples = 3
    MaxOdd = 1
    MaxOddTrails = 2
    OddRounds = {1, 16}
INVARIANTS StatisticsExact FailsByMisfortune
PROPERTY PassCoversReport
