SPECIFICATION Spec
CONSTANTS
    Outputs <- Program
    MaxTicks = 3
    MaxCrashes = 3
    MaxFaults = 2
    None = None
INVARIANTS
    WrittenUnlessTorn
    RecoveryIsQuiet
PROPERTIES
    EveryBatchDelivered
CHECK_DEADLOCK FALSE
