--------------------------- MODULE MCShardRanges ----------------------------
(***************************************************************************)
(* Instances of ShardRanges for TLC: every setting up to some bounds.      *)
(***************************************************************************)
EXTENDS ShardRanges

CONSTANTS
    MaxShard,       \* bound on SHARDS_END
    MaxClusters     \* bound on CLUSTERS; above MaxShard + 1, some clusters are empty

SmallConfigs ==
    {c \in [start : 0 .. MaxShard, end : 0 .. MaxShard, clusters : 0 .. MaxClusters] :
        c.start <= c.end}
=============================================================================
