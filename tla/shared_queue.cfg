SPECIFICATION Spec
CONSTANTS
    p1 = p1
    p2 = p2
    s1 = s1
    s2 = s2
    Processes = {p1, p2}
    Shards = {s1, s2}
    Owner <- Apart
    Commands <- Command
    MaxCommands = 1
    MaxStarts = 2
    Breaks = FALSE
CHECK_DEADLOCK FALSE
PROPERTIES
    NotTurnedAway
