SPECIFICATION Spec
CONSTANTS
    Notifications = {n1}
    Services = {s1}
    Owner <- MCOwner
    Replicas = {r1}
    Calls = {}
    None = None
    MaxAttempts = 2
    BatchLimit = 1
    MaxFaults = 1
    MaxFailures = 2
INVARIANT NeverStranded
CHECK_DEADLOCK FALSE
