---------------------------- MODULE ShardRanges -----------------------------
(***************************************************************************)
(* How get_clusters (cluster.rs) divides the shards SHARDS_START to        *)
(* SHARDS_END of this process among CLUSTERS clusters.  It builds the      *)
(* clusters one after the other, each with a range of shards; if one       *)
(* cannot be built the process ends.  A range with from = to + 1 is empty. *)
(*                                                                         *)
(* The settings are read from the environment and not validated.  Numbers  *)
(* are u64 in the code; here they are integers, and the type invariant     *)
(* says that no subtraction goes below zero.                               *)
(***************************************************************************)
EXTENDS Integers, Sequences

CONSTANT Configs    \* the settings the process may be started with

ASSUME ConfigsAssumption ==
    \A c \in Configs : /\ c \in [start : Nat, end : Nat, clusters : Nat]
                       /\ c.start <= c.end

VARIABLES
    config,       \* the settings
    clusters,     \* the ranges of the clusters built so far
    last_index,   \* the first shard not yet given to a cluster
    status        \* how far get_clusters has come

vars == <<config, clusters, last_index, status>>

Range == [from : Nat, to : Nat]
Statuses == {"starting", "building", "ready", "failed"}

shards == config.end - config.start + 1
base == shards \div config.clusters
extra == shards % config.clusters

\* Mutants of index: the last clusters get the extra shards, one cluster too many gets
\* one, none does, the first gets all.
IndexExtraLast(i) ==
    IF i >= config.clusters - extra THEN last_index + base ELSE last_index + base - 1
IndexOneMore(i) == IF i <= extra THEN last_index + base ELSE last_index + base - 1
IndexNoExtra(i) == last_index + base - 1
IndexAllFirst(i) == IF i = 0 THEN last_index + base + extra - 1 ELSE last_index + base - 1

\* The last shard of the i-th cluster, from 0: the first `extra` get a shard more.
index(i) == IF i < extra THEN last_index + base ELSE last_index + base - 1
-----------------------------------------------------------------------------
Init ==
    /\ config \in Configs
    /\ clusters = <<>>
    /\ last_index = config.start
    /\ status = "starting"

\* `shards / CONFIG.clusters` panics when CLUSTERS is zero.
Divide ==
    /\ status = "starting"
    /\ status' = IF config.clusters = 0 THEN "failed" ELSE "building"
    /\ UNCHANGED <<config, clusters, last_index>>

\* One iteration of the loop.
Build ==
    /\ status = "building"
    /\ Len(clusters) < config.clusters
    /\ LET i == Len(clusters) IN
          /\ clusters' = Append(clusters, [from |-> last_index, to |-> index(i)])
          /\ last_index' = index(i) + 1
    /\ UNCHANGED <<config, status>>

\* `build().await?` fails.
BuildFails ==
    /\ status = "building"
    /\ Len(clusters) < config.clusters
    /\ status' = "failed"
    /\ UNCHANGED <<config, clusters, last_index>>

Return ==
    /\ status = "building"
    /\ Len(clusters) = config.clusters
    /\ status' = "ready"
    /\ UNCHANGED <<config, clusters, last_index>>

Next == Divide \/ Build \/ BuildFails \/ Return

Spec == Init /\ [][Next]_vars
-----------------------------------------------------------------------------
(* Properties. *)

\* Shard numbers and the bounds of ranges are u64: `last_index + base - 1` never goes
\* below zero, not even for the empty ranges of more clusters than shards.
TypeOK ==
    /\ config \in Configs
    /\ clusters \in Seq(Range)
    /\ last_index \in Nat
    /\ status \in Statuses

\* No shard is run by two clusters, and none outside SHARDS_START to SHARDS_END by any:
\* another process may be running it, and Discord ends the older of two sessions.
NoShardTwice ==
    \A j \in 1 .. Len(clusters) :
        /\ config.start <= clusters[j].from
        /\ clusters[j].to <= config.end
        /\ \A k \in 1 .. j - 1 : clusters[k].to < clusters[j].from

\* When get_clusters returns, every shard of this process is in some cluster, so that
\* the deliveries of `incoming` for it find one.
EveryShardServed ==
    status = "ready" =>
        \A s \in config.start .. config.end :
            \E j \in 1 .. Len(clusters) : clusters[j].from <= s /\ s <= clusters[j].to

Size(r) == r.to - r.from + 1

\* No cluster has two shards more than another.
Balanced ==
    \A j, k \in 1 .. Len(clusters) : Size(clusters[j]) <= Size(clusters[k]) + 1
=============================================================================
