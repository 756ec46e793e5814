SPECIFICATION Spec
CONSTANTS
    Scopes = {a, b}
    RootHash = root
    None = none
    Lags = {0, 1}
    TicksPerNs = 4
    Limits = {2, 20}
    MaxEvents = 4
SYMMETRY ScopeSymmetry
CHECK_DEADLOCK FALSE
INVARIANTS
    SpansNested
    TreeMatchesTrace
    OnlyAfterGaps
