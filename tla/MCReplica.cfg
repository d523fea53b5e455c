SPECIFICATION FairHSpec
CONSTANTS
    Notifications = {n1}
    Services = {s1}
    Owner <- MCOwner
    Replicas = {r1}
    Calls = {c1}
    None = None
    MaxAttempts = 2
    BatchLimit = 1
    MaxFaults = 2
    MaxFailures = 3
INVARIANTS TypeOK OneDeadLetterPerNotification FailedCountedOnce
PROPERTIES FailedIsHandled RemovedOnlyOnceRepublished StrandedOnlyByFaults SettledUnlessOvertaken BalancedButForFaults
CHECK_DEADLOCK FALSE
