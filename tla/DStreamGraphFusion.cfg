SPECIFICATION Spec
CONSTANTS
    Sources = 1
    BatchMs = 1000
    Durations <- MCDurations
    Argcs <- MCArgcs
    Calls <- FusionCalls
    MaxPy = 4
    MaxStreams = 4
    InputDeserializers <- TextInput
    MaxRefused = 1
    RefuseUpTo = 2
    None = None
INVARIANTS
    TypeOK
    FusionTransparent
    BoundaryKept
    FlagsReachJvm
CHECK_DEADLOCK FALSE
