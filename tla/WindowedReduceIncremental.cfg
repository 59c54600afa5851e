SPECIFICATION Spec
CONSTANTS
    Keys = {k1, k2}
    Batches <- CountBatches
    Shapes <- MCShapes
    MaxTicks = 5
    Func <- add
    InvFunc <- sub
    Filters <- Either
    Swaps <- InOrder
    FilterFunc <- NonZero
    Zero = 0
    None = None
SYMMETRY KeySymmetry
INVARIANTS
    IncrementalTracksWindow
    StaleKeysPruned
    CountsExact
CHECK_DEADLOCK FALSE
