SPECIFICATION FairSpec
CONSTANTS
    Streams = {s1, s2}
    None = none
    MaxRetries = 1
    MaxBlocks = 2
    MaxFaults = 2
CHECK_DEADLOCK FALSE
INVARIANTS
    RowHasBlob
    NoDuplicateBlock
    BlockIsDescribed
PROPERTIES
    SentIsRecorded
    ClientGetsOn
