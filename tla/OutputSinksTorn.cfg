SPECIFICATION Spec
CONSTANTS
    Outputs <- OneSave
    MaxTicks = 2
    MaxCrashes = 1
    MaxFaults = 0
    None = None
INVARIANTS
    CompletedMeansWritten
CHECK_DEADLOCK FALSE
