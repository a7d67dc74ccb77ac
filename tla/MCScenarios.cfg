SPECIFICATION Spec
CONSTANTS
    Scenarios = {s1}
    Blind = {s1}
    RangeBars = 3
    WindowBars = 2
    Stride = 2
    Ops = {o1, o2}
    MaxFaults = 2
    None = None
INVARIANTS
    CompletedHasResult
PROPERTIES
    DurableStatusIsFinal
    OperationsEnd
