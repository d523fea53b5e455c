SPECIFICATION FairSpec
CONSTANTS
    Streams = {w1, w2}
    Publishers = {p1}
    Notifications = {n1}
    Services = {s1}
    n1 = n1
    n2 = n2
    s1 = s1
    s2 = s2
    Owner <- MCOwner
    Empty = Empty
    None = None
    Capacity = 1
    MaxEvents = 3
INVARIANTS TypeOK NoSendOnClosed NothingMissedWithinCapacity
PROPERTIES PublishReturns GoneIsReleased FeedSpec
CHECK_DEADLOCK FALSE
