SPECIFICATION FairSpec
CONSTANTS
    m1 = m1
    m2 = m2
    n1 = n1
    n2 = n2
    d1 = d1
    Messages = {m1, m2}
    Payload <- MCPayload
    Notifications = {n1, n2}
    Destinations = {d1, d2}
    Targets <- MCTargets
    Workers = {w1, w2}
    None = None
    MaxAttempts = 2
    BaseDelay = 2
    MaxDelay = 2
    Factor = 2
    Jitter = 50
    MinDelay = 2
    FetchLimit = 2
    MaxFaults = 1
    MaxTimeouts = 1
INVARIANTS TypeOK DeliveredIsRecorded LostOnlyToFaults DelayInBounds
PROPERTIES AckedIsAccounted SettledOnceReachable
CHECK_DEADLOCK FALSE
