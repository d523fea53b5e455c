SPECIFICATION HSpec
CONSTANTS
    Notifications = {n1}
    Services = {s1}
    Owner <- MCOwner
    Replicas = {r1, r2}
    Calls = {}
    None = None
    MaxAttempts = 2
    BatchLimit = 1
    MaxFaults = 1
    MaxFailures = 2
SYMMETRY Interchangeable
INVARIANTS DeadLetteredIsInspectable LostOnlyOvertaken StrandedOnlyOvertaken
CHECK_DEADLOCK FALSE
