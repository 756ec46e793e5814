SPECIFICATION FairSpec
CONSTANTS
    Threads = {main, t1}
    Traced = {}
    Main = main
    SinkThread = sink
    Log = log
    Metrics = metrics
    None = none
    max_queue_size = 2
    MaxRetries = 1
    MaxBlocks <- OneEach
    MaxTimeouts = 1
CHECK_DEADLOCK FALSE
PROPERTIES
    DropReturns
    AcceptedIsHandled
