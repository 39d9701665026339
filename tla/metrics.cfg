SPECIFICATION Spec
CONSTANTS
    Shards = {s1, s2}
    StageNames = {"Connected", "Identifying"}
    Sets <- TwoSets
    MaxSize = 1
    MaxRounds = 2
    Faults = TRUE
CHECK_DEADLOCK FALSE
INVARIANTS
    TypeOK
    GaugesWereTrue
    StagesAddUp
