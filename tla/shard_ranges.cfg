SPECIFICATION Spec
CONSTANTS
    MaxShard = 9
    MaxClusters = 12
    Configs <- SmallConfigs
CHECK_DEADLOCK FALSE
INVARIANTS
    TypeOK
    NoShardTwice
    EveryShardServed
    Balanced
