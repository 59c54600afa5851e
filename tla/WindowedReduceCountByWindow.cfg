\* countByWindow: one key, batches of up to three elements, seven batches.
SPECIFICATION Spec
CONSTANTS
    Keys = {one}
    Batches <- OneBatches
    Shapes <- OneShapes
    MaxTicks = 7
    Func <- add
    InvFunc <- sub
    Filters <- NoFilter
    Swaps <- InOrder
    FilterFunc <- NonZero
    Zero = 0
    None = None
INVARIANTS
    CountByWindowIsWindowCount
CHECK_DEADLOCK FALSE
