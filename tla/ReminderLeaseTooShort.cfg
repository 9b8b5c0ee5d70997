SPECIFICATION Spec
CONSTANTS
    Reminder = {r1, r2}
    Slack = {}
    Worker = {w1, w2}
    Lease = 2
    Backoff = 1
    MaxAttempts = 2
    SendDelay <- DueNow
    RunLimit = 2
    MaxFaults = 0
    MaxTries = 4
SYMMETRY Symmetry
INVARIANTS
    NoConcurrentClaims
