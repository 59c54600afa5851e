SPECIFICATION Spec
CONSTANTS
    Keys = {k1, k2}
    Batches <- ListBatches
    Shapes <- MCShapes
    MaxTicks = 5
    Func <- extend
    InvFunc <- dropPrefix
    Filters <- NoFilter
    Swaps <- Either
    FilterFunc <- NonZero
    Zero <- EmptyList
    None = None
SYMMETRY KeySymmetry
INVARIANTS
    TypeOK
    IncrementalTracksWindow
    GroupSizesExact
CHECK_DEADLOCK FALSE
