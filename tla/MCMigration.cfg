SPECIFICATION FairSpec
CONSTANTS
    Services = {s1, s2, s3}
    None = none
    MaxFaults = 3
CHECK_DEADLOCK FALSE
INVARIANTS
    TypeOK
    ConnectedHasSchema
    NoNeedlessFailure
PROPERTIES
    EveryoneReturns
