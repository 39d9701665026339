SPECIFICATION Spec
CONSTANTS
    p1 = p1
    p2 = p2
    s1 = s1
    s2 = s2
    Processes = {p1, p2}
    Shards = {s1, s2}
    Owner <- Apart
    Totals = {2}
    resume = TRUE
    Crashes = FALSE
    MaxStarts = 3
    MaxSessions = 1
    MaxEvents = 2
CHECK_DEADLOCK FALSE
PROPERTIES
    SavedUntilRestart
