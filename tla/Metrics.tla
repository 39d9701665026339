------------------------------ MODULE Metrics -------------------------------
(***************************************************************************)
(* `run_jobs` of metrics.rs: once a second it sets the gauges that the     *)
(* server answers with.  It asks one shard after the other for its stage,  *)
(* and then Redis for the sizes of eight helper sets, one after the other, *)
(* while shards and sets change; the gauges of the sets are left alone     *)
(* unless all the reads succeed.  (The latencies are left out.)            *)
(***************************************************************************)
EXTENDS Integers, Sequences, FiniteSets

CONSTANTS
    Shards,       \* the shards of the clusters
    StageNames,   \* the stages of a shard (twilight)
    Sets,         \* the helper sets whose sizes are reported, in the order of the reads
    MaxSize,      \* bound on their sizes
    MaxRounds,    \* bound on the rounds of the job
    Faults        \* whether SCARD may fail

Unknown == "unknown"     \* `shard.info()` is an error: the shard has not started

ASSUME MetricsAssumption ==
    /\ IsFiniteSet(Shards) /\ IsFiniteSet(StageNames) /\ Unknown \notin StageNames
    /\ Sets \in Seq(STRING) /\ Sets # <<>>
    /\ MaxSize \in Nat /\ MaxRounds \in Nat /\ Faults \in BOOLEAN

VARIABLES
    stage,        \* the stage of each shard (twilight)
    size,         \* the size of each helper set (StateCache)
    round,        \* number of rounds begun
    reads,        \* the sizes read in this round, ...
    reported,     \* ... and how many of them have been set as gauges
    busy,         \* whether the job is at work, not asleep
    uncounted,    \* the shards that are yet to be asked in this round
    counts,       \* the number of shards in each stage, as counted in this round
    pending,      \* the stages whose gauge is yet to be set
    gateway_shards,      \* the gauge GATEWAY_SHARDS
    gateway_statuses,    \* the gauge GATEWAY_STATUSES, for each stage
    state_gauges,        \* the gauges STATE_GUILDS to STATE_VOICES
    \* Auxiliary variables: they record history and influence no action.
    seen,         \* the sizes each helper set has had in this round
    source        \* the sizes it had had in its round when its gauge was set

vars == <<stage, size, round, reads, reported, busy, uncounted, counts, pending,
          gateway_shards, gateway_statuses, state_gauges, seen, source>>

Names == {Sets[i] : i \in 1 .. Len(Sets)}
Zero == [x \in Names |-> 0]

Init ==
    /\ stage = [s \in Shards |-> Unknown]
    /\ size \in [Names -> 0 .. MaxSize]
    /\ round = 0 /\ reads = <<>> /\ reported = 0 /\ busy = FALSE
    /\ uncounted = {} /\ pending = {}
    /\ counts = [g \in StageNames |-> 0]
    /\ gateway_shards = 0
    /\ gateway_statuses = [g \in StageNames |-> 0]
    /\ state_gauges = Zero
    /\ seen = [x \in Names |-> {}]
    /\ source = [x \in Names |-> {0}]

\* A shard changes its stage, the cache changes a helper set (external to the job).
Change(s) ==
    /\ \E g \in StageNames \ {stage[s]} : stage' = [stage EXCEPT ![s] = g]
    /\ UNCHANGED <<size, round, reads, busy, uncounted, counts, pending, reported,
                   gateway_shards, gateway_statuses, state_gauges, seen, source>>

Resize(x) ==
    /\ \E d \in {-1, 1} :
          /\ size[x] + d \in 0 .. MaxSize
          /\ size' = [size EXCEPT ![x] = @ + d]
          /\ seen' = [seen EXCEPT ![x] = @ \cup {size[x] + d}]
    /\ UNCHANGED <<stage, round, reads, busy, uncounted, counts, pending, reported,
                   gateway_shards, gateway_statuses, state_gauges, source>>

\* A round begins.
Begin ==
    /\ ~busy /\ round < MaxRounds
    /\ round' = round + 1
    /\ busy' = TRUE
    /\ gateway_shards' = Cardinality(Shards)
    /\ counts' = [g \in StageNames |-> 0]
    /\ uncounted' = Shards
    /\ pending' = StageNames
    /\ reads' = <<>> /\ reported' = 0
    /\ seen' = [x \in Names |-> {size[x]}]
    /\ UNCHANGED <<stage, size, gateway_statuses, state_gauges, source>>

\* Mutant of Ask: a stage that no shard is in gets no entry, hence no gauge is set for it.
AskNoZeros(s) ==
    /\ s \in uncounted
    /\ uncounted' = uncounted \ {s}
    /\ counts' = IF stage[s] = Unknown THEN counts ELSE [counts EXCEPT ![stage[s]] = @ + 1]
    /\ pending' = IF uncounted' = {} THEN {g \in StageNames : counts'[g] > 0} ELSE pending
    /\ UNCHANGED <<stage, size, round, reads, reported, busy, gateway_shards,
                   gateway_statuses, state_gauges, seen, source>>

\* The next shard is asked for its stage, if it has started.
Ask(s) ==
    /\ s \in uncounted
    /\ uncounted' = uncounted \ {s}
    /\ counts' = IF stage[s] = Unknown THEN counts ELSE [counts EXCEPT ![stage[s]] = @ + 1]
    /\ UNCHANGED <<stage, size, round, reads, busy, pending, reported, gateway_shards,
                   gateway_statuses, state_gauges, seen, source>>

\* The gauge of one stage is set; the server may answer between two of them.
SetStatus(g) ==
    /\ g \in pending /\ uncounted = {}
    /\ pending' = pending \ {g}
    /\ gateway_statuses' = [gateway_statuses EXCEPT ![g] = counts[g]]
    /\ UNCHANGED <<stage, size, round, reads, busy, uncounted, counts, reported,
                   gateway_shards, state_gauges, seen, source>>

\* get_state_stats: SCARD of the next helper set.
Scard ==
    /\ busy /\ pending = {} /\ Len(reads) < Len(Sets)
    /\ reads' = Append(reads, size[Sets[Len(reads) + 1]])
    /\ UNCHANGED <<stage, size, round, busy, uncounted, counts, pending, reported,
                   gateway_shards, gateway_statuses, state_gauges, seen, source>>

\* Mutant of ScardFails: a failed read counts as -1.
ScardNegative ==
    /\ Faults /\ busy /\ pending = {} /\ Len(reads) < Len(Sets)
    /\ reads' = Append(reads, -1)
    /\ UNCHANGED <<stage, size, round, busy, uncounted, counts, pending, reported,
                   gateway_shards, gateway_statuses, state_gauges, seen, source>>

\* Any failure abandons the round.
ScardFails ==
    /\ Faults /\ busy /\ pending = {} /\ Len(reads) < Len(Sets)
    /\ busy' = FALSE
    /\ UNCHANGED <<stage, size, round, reads, uncounted, counts, pending, reported,
                   gateway_shards, gateway_statuses, state_gauges, seen, source>>

\* Mutant of Report: the gauges are set from the reads in the wrong order.
ReportSwapped ==
    /\ busy /\ Len(reads) = Len(Sets)
    /\ LET x == Sets[reported + 1] IN
          /\ state_gauges' = [state_gauges EXCEPT ![x] = reads[Len(Sets) - reported]]
          /\ source' = [source EXCEPT ![x] = seen[x]]
    /\ reported' = reported + 1
    /\ busy' = (reported + 1 < Len(Sets))
    /\ UNCHANGED <<stage, size, round, reads, uncounted, counts, pending, gateway_shards,
                   gateway_statuses, seen>>

\* The next gauge of the state cache is set, once all the sizes have been read.
Report ==
    /\ busy /\ Len(reads) = Len(Sets)
    /\ LET x == Sets[reported + 1] IN
          /\ state_gauges' = [state_gauges EXCEPT ![x] = reads[reported + 1]]
          /\ source' = [source EXCEPT ![x] = seen[x]]
    /\ reported' = reported + 1
    /\ busy' = (reported + 1 < Len(Sets))
    /\ UNCHANGED <<stage, size, round, reads, uncounted, counts, pending, gateway_shards,
                   gateway_statuses, seen>>

Next ==
    \/ \E s \in Shards : Change(s) \/ Ask(s)
    \/ \E x \in Names : Resize(x)
    \/ \E g \in StageNames : SetStatus(g)
    \/ Begin \/ Scard \/ ScardFails \/ Report

Spec == Init /\ [][Next]_vars
-----------------------------------------------------------------------------
(* Properties. *)

TypeOK ==
    /\ stage \in [Shards -> StageNames \cup {Unknown}]
    /\ size \in [Names -> 0 .. MaxSize]
    /\ round \in 0 .. MaxRounds /\ busy \in BOOLEAN
    /\ reads \in Seq(0 .. MaxSize) /\ Len(reads) <= Len(Sets)
    /\ reported \in 0 .. Len(Sets)
    /\ uncounted \subseteq Shards
    /\ counts \in [StageNames -> Nat] /\ pending \subseteq StageNames
    /\ gateway_shards \in Nat /\ gateway_statuses \in [StageNames -> Nat]
    /\ state_gauges \in [Names -> 0 .. MaxSize]
    /\ seen \in [Names -> SUBSET (0 .. MaxSize)]
    /\ source \in [Names -> SUBSET (0 .. MaxSize)]

\* Every gauge of the state cache shows a size its helper set has really had, during the
\* latest round that set it, though the sets change between the reads, any of the reads
\* may fail, and the gauges are set one by one.
GaugesWereTrue == \A x \in Names : state_gauges[x] \in source[x]

\* As many elements as the numbers of the stages add up to.
Counted(numbers) == UNION {{g} \X (1 .. numbers[g]) : g \in StageNames}

\* Once the gauges of a round are set, the stages add up to no more than the shards: a
\* shard that moves on while the others are asked, or between two rounds, is not counted
\* in two stages.
StagesAddUp == pending = {} => Cardinality(Counted(gateway_statuses)) <= gateway_shards

\* metrics.rs, help of GATEWAY_SHARDS: "Number of gateway connections with Discord".  No
\* connection is counted for a shard that has never started.
ConnectionsOnly == gateway_shards <= Cardinality({s \in Shards : stage[s] # Unknown})
=============================================================================
