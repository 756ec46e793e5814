SPECIFICATION Spec
CONSTANTS
    Scopes = {a, b}
    RootHash = root
    None = none
    Lags = {0}
    TicksPerNs = 2
    Limits = {1}
    MaxEvents = 4
SYMMETRY ScopeSymmetry
CHECK_DEADLOCK FALSE
INVARIANTS
    StopIsHonoured
