SPECIFICATION DescentSpec
CONSTANTS
    LeafBytes = 3
    WorkspaceSlots = 6
    Roots <- AllRoots
INVARIANTS TypeOK SplitTotal SplitTiles DepthBounded
