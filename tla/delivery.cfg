SPECIFICATION FairSpec
CONSTANTS
    p1 = p1
    p2 = p2
    s1 = s1
    s2 = s2
    Processes = {p1}
    Shards = {s1, s2}
    Owner <- Apart
    Commands <- SomeCommands
    MaxCommands = 3
    MaxStarts = 2
    Breaks = TRUE
CHECK_DEADLOCK FALSE
INVARIANTS
    TypeOK
    AtMostOnce
    Accounted
PROPERTIES
    KeepsPromise
    InOrder
    HandledWhileOpen
