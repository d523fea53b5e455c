SPECIFICATION FairSpec
CONSTANTS
    Processes = {p1, p2}
    Calls = {c1, c2}
    Ids = {i1, i2, i3}
    Names = {a}
    None = None
    MaxFaults = 1
    MaxCrashes = 1
INVARIANTS TypeOK ServedIsMigrated LiveNamesUnique RevokedStaysOut
PROPERTIES TakenMeansLive DeletedOnce EventuallyServes
CHECK_DEADLOCK FALSE
