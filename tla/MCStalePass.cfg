SPECIFICATION Spec
CONSTANTS
    Notifications = {n1}
    Services = {s1}
    Owner <- MCOwner
    Replicas = {r1}
    Calls = {c1}
    None = None
    MaxAttempts = 1
    BatchLimit = 1
    MaxFaults = 0
    MaxFailures = 1
PROPERTY OnlyFailedIsDeadLettered
CHECK_DEADLOCK FALSE
