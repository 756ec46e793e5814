SPECIFICATION Spec
CONSTANTS
    Threads = {t1, t2}
    Sites <- MCSites
    Foreign <- MCForeign
    Builds <- MCBuilds
    None = none
    UsizeRange = 100
    debug_assertions = TRUE
    Features = {}
    MaxBuilds = 3
    MaxEvents = 2
CHECK_DEADLOCK FALSE
INVARIANTS
    FastCheckConservative
    OnLogByLevel
    SinkAliveWhileHeld
    GuardedEventsDelivered
