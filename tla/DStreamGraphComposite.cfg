SPECIFICATION Spec
CONSTANTS
    Sources = 1
    BatchMs = 1000
    Durations <- CompositeDurations
    Argcs <- MCArgcs
    Calls <- CompositeCalls
    MaxPy = 7
    MaxStreams = 3
    InputDeserializers <- MCDeserializers
    MaxRefused = 0
    RefuseUpTo = 0
    None = None
INVARIANTS
    FusionTransparent
    ReadAsDeclared
CHECK_DEADLOCK FALSE
