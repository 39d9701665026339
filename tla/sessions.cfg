SPECIFICATION FairSpec
CONSTANTS
    p1 = p1
    p2 = p2
    s1 = s1
    s2 = s2
    Processes = {p1}
    Shards = {s1}
    Owner <- OneProcess
    Totals = {1, 2}
    resume = TRUE
    Crashes = TRUE
    MaxStarts = 3
    MaxSessions = 1
    MaxEvents = 2
CHECK_DEADLOCK FALSE
INVARIANTS
    TypeOK
    NothingSkipped
    SameSharding
PROPERTIES
    SavedNeverBack
    CaughtUp
