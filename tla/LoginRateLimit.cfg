SPECIFICATION Spec
CONSTANTS
    LoginKeys <- OneAccount
    ConsumeKeys <- Callback
    Session = {s1, s2}
    Max <- Limits
    Window <- Windows
    StaleMultiplier = 2
    MinStale = 2
    SweepEvery = 3
    Horizon = 5
    None = None
SYMMETRY Symmetry
CHECK_DEADLOCK FALSE
INVARIANTS TypeOK MemoryIsRecent FailuresBounded
PROPERTY SlidingWindow
