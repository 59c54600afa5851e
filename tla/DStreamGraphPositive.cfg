SPECIFICATION Spec
CONSTANTS
    Sources = 1
    BatchMs = 1000
    Durations <- MCDurations
    Argcs <- MCArgcs
    Calls <- WindowCalls
    MaxPy = 4
    MaxStreams = 4
    InputDeserializers <- TextInput
    MaxRefused = 0
    RefuseUpTo = 0
    None = None
INVARIANTS
    WindowPositive
CHECK_DEADLOCK FALSE
