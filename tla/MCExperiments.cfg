SPECIFICATION Spec
CONSTANTS
    Callers = {c1, c2}
    MaxLanes = 2
    Contexts = {v1, v2}
    Warmup = 1
    Horizon = 1
    LastClose = 3
    MaxFaults = 1
    None = None
SYMMETRY Symmetry
INVARIANTS
    OutcomeFollowsLock
    InProgressIsAttended
    SelectionIsRunnable
PROPERTIES
    LockedForecastIsImmutable
    LifecycleOnlyExtends
