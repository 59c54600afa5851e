SPECIFICATION Spec
CONSTANTS
    Keys = {k1, k2}
    States <- MCStates
    Batches <- MCBatches
    Initials <- MCInitials
    MaxTicks = 6
    UpdateFunc <- RunningCount
    None = None
INVARIANTS
    TypeOK
PROPERTIES
    Implements
    Tombstoned
CHECK_DEADLOCK FALSE
