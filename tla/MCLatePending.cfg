SPECIFICATION HSpec
CONSTANTS
    Notifications = {n1}
    Services = {s1}
    Owner <- MCOwner
    Replicas = {r1}
    Calls = {}
    None = None
    MaxAttempts = 2
    BatchLimit = 1
    MaxFaults = 0
    MaxFailures = 2
INVARIANT NoFailureLost
CHECK_DEADLOCK FALSE
