SPECIFICATION FairSpec
CONSTANTS
    c1 = c1
    s1 = s1
    s2 = s2
    Sessions = {c1, c2}
    Repertoire <- MCRepertoire
    Services = {s1, s2}
    Files <- MCFiles
    Envs <- MCEnvs
    Heights = {6, 7}
    Empty = Empty
    Broken = Broken
    None = None
    MaxFaults = 1
    MaxEvents = 3
INVARIANTS ActsAsConfigured NewestOnScreen
PROPERTIES KeylessIsLogs PromiseSpec UnattendedEnds
CHECK_DEADLOCK FALSE
