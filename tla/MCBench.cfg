SPECIFICATION Spec
CONSTANTS
    SizeMax = 15
    HeaderBytes = 2
    Sizes = {0, 6, 14}
    Counts = {0, 2}
    MaxCalls = 4
    Iterations = {0, 1, 2}
    MaxMeasures = 2
    Lengths = {0, 1, 5, 6, 7, 12, 16, 17}
    ChunkSizes = {0, 1, 2, 3, 6, 16, 20}
    Limit = 16
    Variants = {256, 512}
    Modes = {"full", "quick", "baseline", "peers", "peer-version", "timing", "usage"}
    Kinds <- MCKinds
    BaselineTargets = 3
    FullLengths = 2
    QuickLengths = 1
    Trials = 3
    Stride = 13
    TimingTargets = 2
    Patterns = 3
    TimingTrials = 3
    StateBytes = 4
    Times = {0, 2, 3, 4}
    Profiles <- MCProfiles
    MaxOdd = 2
INVARIANTS CountersTell ReportIsClean RowsTell AllGivenBack
PROPERTY Terminates
