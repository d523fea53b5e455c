SPECIFICATION FairSpec
CONSTANTS
    m1 = m1
    m2 = m2
    n1 = n1
    n2 = n2
    d1 = d1
    Messages = {m2}
    Payload <- MCPayload
    Notifications = {n2}
    Destinations = {d1}
    Targets <- MCTargets
    Workers = {w1, w2}
    None = None
    MaxAttempts = 2
    BaseDelay = 2
    MaxDelay = 2
    Factor = 2
    Jitter = 0
    MinDelay = 2
    FetchLimit = 2
    MaxFaults = 0
    MaxTimeouts = 0
PROPERTY RetriesEnd
CHECK_DEADLOCK FALSE
