SPECIFICATION FairSpec
CONSTANTS
    Reminder = {r1, s1}
    Slack = {s1}
    Worker = {w1, w2}
    Lease = 2
    Backoff = 1
    MaxAttempts = 2
    SendDelay <- Delays
    RunLimit = 1
    MaxFaults = 1
    MaxTries = 4
PROPERTIES
    EventuallySettled
