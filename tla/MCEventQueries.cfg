SPECIFICATION Spec
CONSTANTS
    Bytes <- MCBytes
    Descs <- MCDescs
    Threads <- MCThreads
    None = none
    Kinds = {"log", "metrics", "thread", "unreal"}
    Events <- MCEvents
    StartTicks = 3
    TicksPerNs = 2
    Queries <- MCQueries
    MaxEvents = 3
    MaxBlocks = 2
CHECK_DEADLOCK FALSE
INVARIANTS
    AnswerSound
    AnswerComplete
