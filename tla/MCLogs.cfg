SPECIFICATION FairSpec
CONSTANTS
    Streams = {w1, w2}
    Loggers = {g1, g2}
    None = None
    Capacity = 1
    Attributes = 4
    MaxLines = 1
    MaxFaults = 1
INVARIANTS OwnLabel StreamedIsLogged
PROPERTIES FeedSpec LogReturns GoneIsReleased
CHECK_DEADLOCK FALSE
