SPECIFICATION Spec
CONSTANTS
    Reminder = {r1, r2}
    Slack = {}
    Worker = {w1, w2}
    Lease = 2
    Backoff = 1
    MaxAttempts = 2
    SendDelay <- DueNow
    RunLimit = 1
    MaxFaults = 1
    MaxTries = 4
SYMMETRY Symmetry
INVARIANTS
    TypeOK
    NoConcurrentClaims
    AttemptCountExact
    DuplicatesNeedFaults
    RetriesBounded
    SentRowsAreSent
    IInv
PROPERTIES
    SentAtStays
    LifecycleSpec
