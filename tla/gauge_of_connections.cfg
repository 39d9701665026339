SPECIFICATION Spec
CONSTANTS
    Shards = {s1, s2}
    StageNames = {"Connected", "Identifying"}
    Sets <- TwoSets
    MaxSize = 1
    MaxRounds = 1
    Faults = FALSE
CHECK_DEADLOCK FALSE
INVARIANTS
    ConnectionsOnly
