SPECIFICATION Spec
CONSTANTS
    Threads = {main, t1}
    Traced = {t1}
    Main = main
    SinkThread = sink
    Log = log
    Metrics = metrics
    None = none
    max_queue_size = 2
    MaxRetries = 1
    MaxBlocks <- LogAndThread
    MaxTimeouts = 1
CHECK_DEADLOCK FALSE
INVARIANTS
    TypeOK
    QueueSizeAccounting
    MetadataFirst
    StreamOrder
PROPERTIES
    DropsOnlyWhenBacklogged
    JoinDrains
    ImplementsContract
