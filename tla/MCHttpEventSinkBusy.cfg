SPECIFICATION Spec
CONSTANTS
    Threads = {main, t1}
    Traced = {}
    Main = main
    SinkThread = sink
    Log = log
    Metrics = metrics
    None = none
    max_queue_size = 2
    MaxRetries = 0
    MaxBlocks <- OneEach
    MaxTimeouts = 1
CHECK_DEADLOCK FALSE
INVARIANTS
    BusyWhileWriting
