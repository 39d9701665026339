------------------------- MODULE ShardRangesProofs --------------------------
(***************************************************************************)
(* The division of the shards among the clusters is right for every        *)
(* setting with SHARDS_START <= SHARDS_END.                                *)
(***************************************************************************)
EXTENDS ShardRanges, TLAPS

\* The shards that the first i clusters get.
Given(i) == i * base + IF i < extra THEN i ELSE extra

\* How far get_clusters has come, in closed form.
Progress ==
    /\ status = "starting" => clusters = <<>> /\ last_index = config.start
    /\ status \in {"building", "ready"} =>
            /\ config.clusters > 0
            /\ Len(clusters) <= config.clusters
            /\ last_index = config.start + Given(Len(clusters))
    /\ status = "ready" => Len(clusters) = config.clusters
    /\ clusters # <<>> => config.clusters > 0

\* The ranges end before the next one starts, ...
Below == \A j \in 1 .. Len(clusters) : clusters[j].to < last_index

\* ... leave no gap behind it, ...
NoGap ==
    \A s \in config.start .. last_index - 1 :
        \E j \in 1 .. Len(clusters) : clusters[j].from <= s /\ s <= clusters[j].to

\* ... and have one of two sizes.
TwoSizes == \A j \in 1 .. Len(clusters) : Size(clusters[j]) \in {base, base + 1}

\* The inductive invariant.
RangeInv == TypeOK /\ Progress /\ NoShardTwice /\ Below /\ NoGap /\ TwoSizes
-----------------------------------------------------------------------------
\* Quotient and remainder.
LEMMA Division ==
    ASSUME NEW a \in Nat, NEW b \in Nat, b > 0
    PROVE /\ a \div b \in Nat /\ a % b \in Nat
          /\ a % b < b
          /\ a = b * (a \div b) + (a % b)
  OBVIOUS

\* A product grows with its first factor.
LEMMA Monotone == ASSUME NEW i \in Nat, NEW j \in Nat, NEW q \in Nat, i <= j
                  PROVE i * q <= j * q
  OBVIOUS

\* The quotient and remainder of get_clusters.
LEMMA BaseAndExtra ==
    ASSUME TypeOK, config.clusters > 0
    PROVE /\ config.start \in Nat /\ config.end \in Nat /\ config.clusters \in Nat
          /\ config.start <= config.end
          /\ shards \in Nat /\ base \in Nat /\ extra \in Nat /\ extra < config.clusters
          /\ shards = config.clusters * base + extra
  <1>1. /\ config.start \in Nat /\ config.end \in Nat /\ config.clusters \in Nat
        /\ config.start <= config.end
    BY ConfigsAssumption DEF TypeOK
  <1>2. shards \in Nat
    BY <1>1 DEF shards
  <1> QED BY <1>1, <1>2, Division DEF base, extra

\* The clusters never get more shards than there are, and all of them in the end.
LEMMA GivenBound ==
    ASSUME TypeOK, config.clusters > 0, NEW i \in Nat, i <= config.clusters
    PROVE /\ Given(i) \in Nat
          /\ Given(i) <= shards
          /\ i > 0 => Given(i) > 0
          /\ i = config.clusters => Given(i) = shards
          /\ i < config.clusters => Given(i + 1) = Given(i) + IF i < extra THEN base + 1 ELSE base
  <1> DEFINE q == base
             x == extra
             n == config.clusters
  <1>1. /\ q \in Nat /\ x \in Nat /\ n \in Nat /\ x < n
        /\ shards = n * q + x /\ shards > 0
    BY BaseAndExtra DEF shards
  <1>2. Given(i) = i * q + (IF i < x THEN i ELSE x)
        /\ Given(i + 1) = (i + 1) * q + (IF i + 1 < x THEN i + 1 ELSE x)
    BY DEF Given
  <1> HIDE DEF q, x, n
  <1>3. i * q \in Nat /\ n * q \in Nat /\ i * q <= n * q
    BY <1>1, Monotone DEF n
  <1>4. (i + 1) * q = i * q + q
    BY <1>1
  <1>5. Given(i) \in Nat /\ Given(i) <= shards
    BY <1>1, <1>2, <1>3
  <1>6. i = n => Given(i) = shards
    BY <1>1, <1>2
  <1>7. Given(i + 1) = Given(i) + IF i < x THEN q + 1 ELSE q
    BY <1>1, <1>2, <1>3, <1>4
  <1>8. i > 0 => Given(i) > 0
    <2>1. CASE q = 0
      BY <2>1, <1>1, <1>2
    <2>2. CASE q > 0 /\ i > 0
      <3>1. 1 * q <= i * q
        BY <2>2, <1>1, Monotone
      <3> QED BY <2>2, <3>1, <1>1, <1>2, <1>3
    <2> QED BY <2>1, <2>2, <1>1
  <1> QED BY <1>5, <1>6, <1>7, <1>8 DEF q, x, n
-----------------------------------------------------------------------------
\* No cluster has been built at first.
LEMMA RangeInit == Init => RangeInv
  <1> SUFFICES ASSUME Init PROVE RangeInv
    OBVIOUS
  <1>1. config.start \in Nat /\ config \in Configs
    BY ConfigsAssumption DEF Init
  <1> QED BY <1>1 DEF Init, RangeInv, TypeOK, Statuses, Progress, NoShardTwice, Below, NoGap,
                     TwoSizes

\* An iteration of the loop hands out the next shards.
LEMMA BuildInv == ASSUME RangeInv, Build PROVE RangeInv'
  <1> DEFINE n == Len(clusters)
             ix == IF n < extra THEN last_index + base ELSE last_index + base - 1
             r == [from |-> last_index, to |-> ix]
  <1>1. /\ clusters \in Seq(Range) /\ n \in Nat /\ n < config.clusters /\ TypeOK
        /\ status = "building" /\ config.clusters > 0 /\ last_index \in Nat
        /\ last_index = config.start + Given(n)
        /\ config' = config /\ status' = status
        /\ clusters' = Append(clusters, r) /\ last_index' = ix + 1
    BY DEF RangeInv, TypeOK, Progress, Build, index
  <1>2. /\ config.start \in Nat /\ config.end \in Nat /\ config.clusters \in Nat
        /\ base \in Nat /\ extra \in Nat /\ base' = base /\ extra' = extra
        /\ shards = config.end - config.start + 1
    BY <1>1, BaseAndExtra DEF shards, base, extra
  <1>3. /\ Given(n) \in Nat /\ Given(n + 1) \in Nat
        /\ Given(n + 1) > 0 /\ Given(n + 1) <= shards
        /\ Given(n + 1) = Given(n) + IF n < extra THEN base + 1 ELSE base
    <2>1. n \in Nat /\ n <= config.clusters /\ n + 1 \in Nat /\ n + 1 <= config.clusters
      BY <1>1, <1>2
    <2>2. TypeOK /\ config.clusters > 0 /\ n < config.clusters /\ n + 1 > 0
      BY <1>1
    <2> HIDE DEF n
    <2>3. /\ Given(n) \in Nat
          /\ Given(n + 1) = Given(n) + IF n < extra THEN base + 1 ELSE base
      BY <2>1, <2>2, GivenBound
    <2>4. Given(n + 1) \in Nat /\ Given(n + 1) > 0 /\ Given(n + 1) <= shards
      BY <2>1, <2>2, GivenBound
    <2> QED BY <2>3, <2>4
  <1>4. ix \in Int /\ ix + 1 = config.start + Given(n + 1) /\ ix <= config.end
    <2> HIDE DEF n
    <2>1. last_index = config.start + Given(n)
      BY <1>1
    <2> QED BY <2>1, <1>2, <1>3
  <1>5. ix \in Nat
    BY <1>2, <1>3, <1>4
  <1>6. /\ Len(clusters') = n + 1 /\ clusters'[n + 1] = r
        /\ \A j \in 1 .. n : clusters'[j] = clusters[j]
        /\ clusters' \in Seq(Range)
    BY <1>1, <1>5 DEF Range
  <1>7. r.from = last_index /\ r.to = ix
    OBVIOUS
  <1>8. \A j \in 1 .. n : clusters[j].from \in Nat /\ clusters[j].to \in Nat
    <2> SUFFICES ASSUME NEW j \in 1 .. n PROVE clusters[j].from \in Nat /\ clusters[j].to \in Nat
      OBVIOUS
    <2>1. clusters[j] \in Range
      BY <1>1
    <2> QED BY <2>1 DEF Range
  <1>9. last_index \in Nat /\ last_index <= ix + 1
    BY <1>1, <1>2
  <1>10. Size(r) = IF n < extra THEN base + 1 ELSE base
    BY <1>1, <1>2, <1>7 DEF Size
  <1>n. n \in Nat /\ \A j \in 1 .. n + 1 : j = n + 1 \/ j \in 1 .. n
    BY <1>1
  <1> HIDE DEF n, r, ix
  <1>11. TypeOK'
    BY <1>1, <1>4, <1>5, <1>6 DEF TypeOK
  <1>12. Progress'
    <2>1. Len(clusters') <= config'.clusters
      BY <1>1, <1>2, <1>6
    <2>2. Given(Len(clusters))' = Given(n + 1)
      BY <1>2, <1>6 DEF Given
    <2>3. last_index' = config'.start + Given(Len(clusters))'
      BY <2>2, <1>1, <1>4
    <2> QED BY <2>1, <2>3, <1>1 DEF Progress
  <1>13. Below'
    <2> SUFFICES ASSUME NEW j \in 1 .. n + 1 PROVE clusters'[j].to < ix + 1
      BY <1>1, <1>6 DEF Below
    <2>1. CASE j = n + 1
      BY <2>1, <1>5, <1>6, <1>7
    <2>2. CASE j \in 1 .. n
      <3>1. clusters'[j] = clusters[j] /\ clusters[j].to \in Nat /\ clusters[j].to < last_index
        BY <2>2, <1>6, <1>8 DEF RangeInv, Below, n
      <3> QED BY <3>1, <1>5, <1>9
    <2> QED BY <2>1, <2>2, <1>n
  <1>14. NoShardTwice'
    <2> SUFFICES ASSUME NEW j \in 1 .. n + 1
                 PROVE /\ config.start <= clusters'[j].from
                       /\ clusters'[j].to <= config.end
                       /\ \A k \in 1 .. j - 1 : clusters'[k].to < clusters'[j].from
      BY <1>1, <1>6 DEF NoShardTwice
    <2>1. CASE j = n + 1
      <3>1. clusters'[j].from = last_index /\ clusters'[j].to = ix
        BY <2>1, <1>6, <1>7
      <3>2. \A k \in 1 .. n : clusters'[k].to < last_index
        BY <1>6 DEF RangeInv, Below, n
      <3>3. config.start <= last_index
        BY <1>1, <1>2, <1>3
      <3>4. j - 1 = n
        BY <2>1, <1>1
      <3> QED BY <3>1, <3>2, <3>3, <3>4, <1>4
    <2>2. CASE j \in 1 .. n
      <3>1. \A k \in 1 .. j - 1 : k \in 1 .. n
        BY <2>2, <1>1
      <3> QED BY <2>2, <3>1, <1>6 DEF RangeInv, NoShardTwice, n
    <2> QED BY <2>1, <2>2, <1>n
  <1>15. NoGap'
    <2>1. last_index' - 1 = ix
      BY <1>1, <1>5
    <2> SUFFICES ASSUME NEW s \in config.start .. ix
                 PROVE \E j \in 1 .. n + 1 : clusters'[j].from <= s /\ s <= clusters'[j].to
      BY <2>1, <1>1, <1>6 DEF NoGap
    <2>2. s \in Nat /\ config.start <= s /\ s <= ix
      BY <1>2, <1>5
    <2>3. CASE s >= last_index
      <3>1. n + 1 \in 1 .. n + 1
        BY <1>1
      <3> QED BY <2>2, <2>3, <3>1, <1>6, <1>7, <1>9
    <2>4. CASE s < last_index
      <3>1. s \in config.start .. last_index - 1
        BY <2>2, <2>4, <1>2, <1>9
      <3>2. PICK j \in 1 .. n : clusters[j].from <= s /\ s <= clusters[j].to
        BY <3>1 DEF RangeInv, NoGap, n
      <3>3. j \in 1 .. n + 1 /\ clusters'[j] = clusters[j]
        BY <1>1, <1>6
      <3> QED BY <3>2, <3>3
    <2> QED BY <2>2, <2>3, <2>4, <1>9
  <1>16. TwoSizes'
    <2> SUFFICES ASSUME NEW j \in 1 .. n + 1 PROVE Size(clusters'[j]) \in {base, base + 1}
      BY <1>2, <1>6 DEF TwoSizes, Size
    <2>1. CASE j = n + 1
      BY <2>1, <1>6, <1>10
    <2>2. CASE j \in 1 .. n
      BY <2>2, <1>6 DEF RangeInv, TwoSizes, n
    <2> QED BY <2>1, <2>2, <1>n
  <1> QED BY <1>11, <1>12, <1>13, <1>14, <1>15, <1>16 DEF RangeInv

\* The other steps change the status only.
LEMMA StatusInv ==
    ASSUME RangeInv, Divide \/ BuildFails \/ Return \/ UNCHANGED vars PROVE RangeInv'
  <1>1. config' = config /\ clusters' = clusters /\ last_index' = last_index
    BY DEF Divide, BuildFails, Return, vars
  <1>2. NoShardTwice' /\ Below' /\ NoGap' /\ TwoSizes'
    BY <1>1 DEF RangeInv, NoShardTwice, Below, NoGap, TwoSizes, Size, base, shards
  <1>3. TypeOK'
    BY <1>1 DEF RangeInv, TypeOK, Statuses, Divide, BuildFails, Return, vars
  <1>4. Given(Len(clusters))' = Given(Len(clusters))
    BY <1>1 DEF Given, base, extra, shards
  <1>5. Progress'
    <2>1. CASE Divide /\ config.clusters = 0
      BY <2>1, <1>1 DEF RangeInv, Divide, Progress
    <2>2. CASE Divide /\ config.clusters # 0
      <3>1. config.clusters \in Nat /\ config.start \in Nat /\ config.clusters > 0
        BY <2>2, ConfigsAssumption DEF RangeInv, TypeOK
      <3>2. clusters = <<>> /\ last_index = config.start /\ status' = "building"
        BY <2>2 DEF RangeInv, Progress, Divide
      <3>3. base \in Nat /\ extra \in Nat
        BY <3>1, BaseAndExtra DEF RangeInv
      <3>4. Len(clusters) = 0 /\ Given(Len(clusters)) = 0
        BY <3>2, <3>3 DEF Given
      <3> QED BY <1>1, <1>4, <3>1, <3>2, <3>4 DEF Progress
    <2>3. CASE BuildFails
      BY <2>3, <1>1 DEF RangeInv, BuildFails, Progress
    <2>4. CASE Return
      BY <2>4, <1>1, <1>4 DEF RangeInv, Return, Progress
    <2>5. CASE UNCHANGED vars
      BY <2>5, <1>1, <1>4 DEF RangeInv, vars, Progress
    <2> QED BY <2>1, <2>2, <2>3, <2>4, <2>5
  <1> QED BY <1>2, <1>3, <1>5 DEF RangeInv

\* The invariant holds throughout.
LEMMA RangeAlways == Spec => []RangeInv
  <1>1. RangeInv /\ [Next]_vars => RangeInv'
    BY BuildInv, StatusInv DEF Next
  <1> QED BY <1>1, RangeInit, PTL DEF Spec
-----------------------------------------------------------------------------
\* No bound of a range and no shard number ever goes below zero in get_clusters.
THEOREM RangesTypeCorrect == Spec => []TypeOK
  BY RangeAlways, PTL DEF RangeInv

\* get_clusters gives no shard to two clusters and none that is not this process's own.
THEOREM ShardsAreDisjoint == Spec => []NoShardTwice
  BY RangeAlways, PTL DEF RangeInv

\* get_clusters gives every shard of this process to a cluster.
THEOREM ShardsAreServed == Spec => []EveryShardServed
  <1>1. RangeInv => EveryShardServed
    <2> SUFFICES ASSUME RangeInv, status = "ready"
                 PROVE \A s \in config.start .. config.end :
                          \E j \in 1 .. Len(clusters) : clusters[j].from <= s /\ s <= clusters[j].to
      BY DEF EveryShardServed
    <2>1. /\ config.clusters > 0 /\ Len(clusters) = config.clusters
          /\ last_index = config.start + Given(Len(clusters))
      BY DEF RangeInv, Progress
    <2>2. config.start \in Nat /\ config.end \in Nat /\ config.clusters \in Nat
      BY <2>1, BaseAndExtra DEF RangeInv
    <2>3. Given(config.clusters) = shards
      BY <2>1, <2>2, GivenBound DEF RangeInv
    <2>4. last_index - 1 = config.end
      BY <2>1, <2>2, <2>3 DEF shards
    <2> QED BY <2>4 DEF RangeInv, NoGap
  <1> QED BY <1>1, RangeAlways, PTL

\* The sizes of the clusters of get_clusters differ by at most one.
THEOREM ClustersAreBalanced == Spec => []Balanced
  <1>1. RangeInv => Balanced
    <2> SUFFICES ASSUME RangeInv,
                        NEW j \in 1 .. Len(clusters), NEW k \in 1 .. Len(clusters)
                 PROVE Size(clusters[j]) <= Size(clusters[k]) + 1
      BY DEF Balanced
    <2>1. config.clusters > 0
      BY DEF RangeInv, Progress
    <2>2. base \in Nat
      BY <2>1, BaseAndExtra DEF RangeInv
    <2> QED BY <2>2 DEF RangeInv, TwoSizes
  <1> QED BY <1>1, RangeAlways, PTL
=============================================================================
