SPECIFICATION HSpec
CONSTANTS
    Notifications = {n1}
    Services = {s1}
    Owner <- MCOwner
    Replicas = {r1}
    Calls = {c1}
    None = None
    MaxAttempts = 1
    BatchLimit = 1
    MaxFaults = 0
    MaxFailures = 2
PROPERTY RemovedOnlyWhenAnswered
CHECK_DEADLOCK FALSE
