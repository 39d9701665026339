SPECIFICATION FairSpec
CONSTANTS
    p1 = p1
    p2 = p2
    s1 = s1
    s2 = s2
    Processes = {p1}
    Shards = {s1}
    Owner <- OneProcess
    Commands <- Command
    MaxCommands = 1
    MaxStarts = 1
    Breaks = FALSE
CHECK_DEADLOCK FALSE
PROPERTIES
    ShardComesBack
