SPECIFICATION FairSpec
CONSTANTS
    Threads = {main, t1, ticker}
    Traced = {main}
    Main = main
    Ticker = ticker
    Log = log
    Metrics = metrics
    None = none
    buffer_size = 3
    max_obj_size = 1
    Sizes <- LongLogs
    MaxClock = 3
    MaxTicks = 1
CHECK_DEADLOCK FALSE
INVARIANTS
    TypeOK
    BlocksPartitionEvents
    Overfull
    BlockTimes
    SetFullHonoured
    ShutdownFlushes
PROPERTIES
    TickFlushes
