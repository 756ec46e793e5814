SPECIFICATION Spec
CONSTANTS
    Threads = {main}
    Main = main
    Worker = worker
    Log = log
    Metrics = metrics
    None = none
    Consoles <- MCConsoles
    Fillers <- MCFillers
    MaxBlocks = 1
    MaxFlushes = 1
CHECK_DEADLOCK FALSE
INVARIANTS
    NoLostWakeup
    ThreadStreamFirst
    BlocksConserved
    DeadlockOnlyByReentry
    ShutdownDrains
PROPERTIES
    ImplementsContract
