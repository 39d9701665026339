--------------------------- MODULE MetricsProofs ----------------------------
(***************************************************************************)
(* The gauges of the state cache show sizes that the helper sets have had, *)
(* and those of the stages add up to no more than the shards, for any      *)
(* number of shards, stages, helper sets and rounds of the job.            *)
(***************************************************************************)
EXTENDS Metrics, FiniteSetTheorems, TLAPS

\* While the job is at work, the sizes of the helper sets are among those seen in its round, ...
SizeSeen == busy => \A x \in Names : size[x] \in seen[x]

\* ... what it has read is, ...
ReadsSeen == \A i \in 1 .. Len(reads) : reads[i] \in seen[Sets[i]]

\* ... and it has a gauge of the state cache left to set.
GaugeLeft == busy => reported < Len(Sets)

\* The inductive invariant.
MetricsInv == TypeOK /\ SizeSeen /\ ReadsSeen /\ GaugeLeft /\ GaugesWereTrue
-----------------------------------------------------------------------------
\* The helper sets are those of the list.
LEMMA NameAt == /\ Len(Sets) \in Nat /\ Len(Sets) > 0
                /\ \A i \in 1 .. Len(Sets) : Sets[i] \in Names
  BY MetricsAssumption DEF Names

\* Before the first round the gauges are 0 and nothing has been read.
LEMMA MetricsInit == Init => MetricsInv
  <1> SUFFICES ASSUME Init PROVE MetricsInv
    OBVIOUS
  <1>1. TypeOK
    <2>1. /\ <<>> \in Seq(0 .. MaxSize) /\ 0 \in 0 .. MaxSize /\ 0 \in 0 .. MaxRounds
          /\ Len(<<>>) <= Len(Sets) /\ 0 \in 0 .. Len(Sets)
      BY MetricsAssumption, NameAt
    <2>2. round \in 0 .. MaxRounds /\ busy \in BOOLEAN /\ reads \in Seq(0 .. MaxSize)
          /\ Len(reads) <= Len(Sets) /\ reported \in 0 .. Len(Sets)
      BY <2>1 DEF Init
    <2>3. /\ state_gauges \in [Names -> 0 .. MaxSize]
          /\ seen \in [Names -> SUBSET (0 .. MaxSize)]
          /\ source \in [Names -> SUBSET (0 .. MaxSize)]
      BY <2>1 DEF Init, Zero
    <2> QED BY <2>2, <2>3 DEF Init, TypeOK
  <1>2. SizeSeen /\ GaugeLeft /\ ReadsSeen
    BY DEF Init, SizeSeen, GaugeLeft, ReadsSeen
  <1>3. GaugesWereTrue
    BY DEF Init, GaugesWereTrue, Zero
  <1> QED BY <1>1, <1>2, <1>3 DEF MetricsInv

\* Shards, sets and gauges outside the sizes: what is read and seen is left alone.
LEMMA StatusInv ==
    ASSUME MetricsInv,
           \/ \E s \in Shards : Change(s) \/ Ask(s)
           \/ \E g \in StageNames : SetStatus(g)
           \/ ScardFails \/ UNCHANGED vars
    PROVE MetricsInv'
  <1>1. UNCHANGED <<size, round, reads, reported, state_gauges, seen, source, gateway_shards>>
    BY DEF Change, Ask, SetStatus, ScardFails, vars
  <1>2. busy' => busy
    BY DEF Change, Ask, SetStatus, ScardFails, vars
  <1>3. TypeOK'
    <2>1. CASE \E s \in Shards : Change(s)
      BY <2>1 DEF Change, MetricsInv, TypeOK
    <2>2. ASSUME NEW s \in Shards, Ask(s) PROVE TypeOK'
      <3>1. counts' \in [StageNames -> Nat]
        BY <2>2 DEF Ask, MetricsInv, TypeOK
      <3> QED BY <2>2, <3>1 DEF Ask, MetricsInv, TypeOK
    <2>3. ASSUME NEW g \in StageNames, SetStatus(g) PROVE TypeOK'
      <3>1. gateway_statuses' \in [StageNames -> Nat]
        BY <2>3 DEF SetStatus, MetricsInv, TypeOK
      <3> QED BY <2>3, <3>1 DEF SetStatus, MetricsInv, TypeOK
    <2>4. CASE ScardFails
      BY <2>4 DEF ScardFails, MetricsInv, TypeOK
    <2>5. CASE UNCHANGED vars
      BY <2>5 DEF vars, MetricsInv, TypeOK
    <2> QED BY <2>1, <2>2, <2>3, <2>4, <2>5
  <1> QED BY <1>1, <1>2, <1>3 DEF MetricsInv, SizeSeen, ReadsSeen, GaugeLeft, GaugesWereTrue

\* A helper set changes during a round: its new size has been seen too.
LEMMA ResizeInv == ASSUME MetricsInv, NEW x \in Names, Resize(x) PROVE MetricsInv'
  <1>1. PICK d \in {-1, 1} : /\ size[x] + d \in 0 .. MaxSize
                             /\ size' = [size EXCEPT ![x] = @ + d]
                             /\ seen' = [seen EXCEPT ![x] = @ \cup {size[x] + d}]
    BY DEF Resize
  <1>2. UNCHANGED <<stage, round, reads, busy, uncounted, counts, pending, reported,
                    gateway_shards, gateway_statuses, state_gauges, source>>
    BY DEF Resize
  <1>3. size' \in [Names -> 0 .. MaxSize] /\ seen' \in [Names -> SUBSET (0 .. MaxSize)]
    BY <1>1 DEF MetricsInv, TypeOK
  <1>4. TypeOK'
    BY <1>2, <1>3 DEF MetricsInv, TypeOK
  <1>5. /\ \A y \in Names : seen[y] \subseteq seen'[y]
        /\ \A y \in Names : size'[y] = size[y] \/ size'[y] \in seen'[y]
    BY <1>1 DEF MetricsInv, TypeOK
  <1>6. SizeSeen'
    BY <1>2, <1>5 DEF MetricsInv, SizeSeen
  <1>7. ReadsSeen'
    <2>1. \A i \in 1 .. Len(reads) : i \in 1 .. Len(Sets)
      BY NameAt DEF MetricsInv, TypeOK
    <2> QED BY <1>2, <1>5, <2>1, NameAt DEF MetricsInv, ReadsSeen
  <1> QED BY <1>2, <1>4, <1>6, <1>7 DEF MetricsInv, GaugeLeft, GaugesWereTrue

\* A round begins: nothing has been read, and the sizes of this moment are seen.
LEMMA BeginInv == ASSUME MetricsInv, Begin PROVE MetricsInv'
  <1>1. TypeOK'
    <2>1. Cardinality(Shards) \in Nat
      BY MetricsAssumption, FS_CardinalityType
    <2>2. /\ <<>> \in Seq(0 .. MaxSize) /\ Len(<<>>) = 0 /\ 0 \in 0 .. Len(Sets)
          /\ round + 1 \in 0 .. MaxRounds /\ 0 <= Len(Sets)
      BY MetricsAssumption, NameAt DEF Begin, MetricsInv, TypeOK
    <2>3. seen' \in [Names -> SUBSET (0 .. MaxSize)] /\ counts' \in [StageNames -> Nat]
      BY DEF Begin, MetricsInv, TypeOK
    <2> QED BY <2>1, <2>2, <2>3 DEF Begin, MetricsInv, TypeOK
  <1>2. SizeSeen' /\ ReadsSeen'
    BY DEF Begin, SizeSeen, ReadsSeen
  <1>3. GaugeLeft'
    BY NameAt DEF Begin, GaugeLeft
  <1>4. GaugesWereTrue'
    BY DEF Begin, MetricsInv, GaugesWereTrue
  <1> QED BY <1>1, <1>2, <1>3, <1>4 DEF MetricsInv

\* A size is read: the helper set has it now.
LEMMA ScardInv == ASSUME MetricsInv, Scard PROVE MetricsInv'
  <1> DEFINE n == Len(reads) + 1
  <1>1. /\ reads \in Seq(0 .. MaxSize) /\ Len(reads) \in Nat /\ n \in 1 .. Len(Sets)
        /\ Sets[n] \in Names
    BY NameAt DEF Scard, MetricsInv, TypeOK
  <1>2. size[Sets[n]] \in 0 .. MaxSize /\ size[Sets[n]] \in seen[Sets[n]]
    BY <1>1 DEF Scard, MetricsInv, TypeOK, SizeSeen
  <1>3. /\ reads' = Append(reads, size[Sets[n]])
        /\ UNCHANGED <<stage, size, round, busy, uncounted, counts, pending, reported,
                       gateway_shards, gateway_statuses, state_gauges, seen, source>>
    BY DEF Scard
  <1> HIDE DEF n
  <1>4. /\ reads' \in Seq(0 .. MaxSize) /\ Len(reads') = Len(reads) + 1
        /\ \A i \in 1 .. Len(reads) : reads'[i] = reads[i]
        /\ reads'[Len(reads) + 1] = size[Sets[n]]
    BY <1>1, <1>2, <1>3
  <1>5. Len(reads') <= Len(Sets)
    BY <1>4, NameAt DEF Scard, MetricsInv, TypeOK
  <1>6. TypeOK'
    BY <1>3, <1>4, <1>5 DEF MetricsInv, TypeOK
  <1>7. ReadsSeen'
    <2>1. \A i \in 1 .. Len(reads') : i \in 1 .. Len(reads) \/ i = n
      BY <1>1, <1>4 DEF n
    <2>2. reads'[n] = size[Sets[n]]
      BY <1>4 DEF n
    <2> QED BY <1>2, <1>3, <1>4, <2>1, <2>2 DEF MetricsInv, ReadsSeen
  <1> QED BY <1>3, <1>6, <1>7 DEF MetricsInv, SizeSeen, GaugeLeft, GaugesWereTrue

\* A gauge is set to what was read for its own helper set.
LEMMA ReportInv == ASSUME MetricsInv, Report PROVE MetricsInv'
  <1>1. PICK n \in 1 .. Len(Sets) :
            /\ n = reported + 1 /\ Sets[n] \in Names
            /\ reads[n] \in seen[Sets[n]] /\ reads[n] \in 0 .. MaxSize
    <2>1. reported + 1 \in 1 .. Len(Sets) /\ Len(reads) = Len(Sets)
      BY NameAt DEF Report, MetricsInv, TypeOK, GaugeLeft
    <2> QED BY <2>1, NameAt DEF MetricsInv, TypeOK, ReadsSeen
  <1>2. /\ state_gauges' = [state_gauges EXCEPT ![Sets[n]] = reads[n]]
        /\ source' = [source EXCEPT ![Sets[n]] = seen[Sets[n]]]
        /\ reported' = n /\ busy' = (n < Len(Sets)) /\ busy
        /\ UNCHANGED <<stage, size, round, reads, uncounted, counts, pending, gateway_shards,
                       gateway_statuses, seen>>
    BY <1>1 DEF Report
  <1>3. /\ state_gauges' \in [Names -> 0 .. MaxSize]
        /\ source' \in [Names -> SUBSET (0 .. MaxSize)]
        /\ reported' \in 0 .. Len(Sets) /\ busy' \in BOOLEAN
    BY <1>1, <1>2, NameAt DEF MetricsInv, TypeOK
  <1>4. TypeOK'
    BY <1>2, <1>3 DEF MetricsInv, TypeOK
  <1>5. GaugesWereTrue'
    BY <1>1, <1>2 DEF MetricsInv, TypeOK, GaugesWereTrue
  <1> QED BY <1>2, <1>4, <1>5 DEF MetricsInv, SizeSeen, ReadsSeen, GaugeLeft

\* The invariant holds in every state.
LEMMA MetricsAlways == Spec => []MetricsInv
  <1>1. MetricsInv /\ [Next]_vars => MetricsInv'
    BY StatusInv, ResizeInv, BeginInv, ScardInv, ReportInv DEF Next
  <1> QED BY <1>1, MetricsInit, PTL DEF Spec

\* The job of metrics.rs keeps to the types of its gauges: no more sizes are read, and no
\* more gauges set, than there are helper sets.
THEOREM MetricsTypes == Spec => []TypeOK
  <1>1. MetricsInv => TypeOK
    BY DEF MetricsInv
  <1> QED BY <1>1, MetricsAlways, PTL

\* A gauge of the state cache never shows a size that its helper set has not had in the round
\* that set the gauge, nor the size of another set.
THEOREM MetricsGaugesWereTrue == Spec => []GaugesWereTrue
  <1>1. MetricsInv => GaugesWereTrue
    BY DEF MetricsInv
  <1> QED BY <1>1, MetricsAlways, PTL
-----------------------------------------------------------------------------
(* The stages add up to no more than the shards. *)

\* No gauge of a stage is set before every shard has been asked, and one that is set shows
\* what was counted; ...
StatusesCounted ==
    /\ uncounted # {} => pending = StageNames
    /\ \A g \in StageNames \ pending : gateway_statuses[g] = counts[g]

\* ... each shard is counted once at most, after it was asked; ...
CountedOnce ==
    /\ IsFiniteSet(Counted(counts))
    /\ Cardinality(Counted(counts)) + Cardinality(uncounted) <= Cardinality(Shards)

\* ... and the shards are reported before any of them is asked.
ShardsReported ==
    gateway_shards = Cardinality(Shards) \/ (uncounted = {} /\ Counted(counts) = {})

\* The inductive invariant of the stages.
StagesInv == StatusesCounted /\ CountedOnce /\ ShardsReported

\* Nothing is counted when all numbers are 0.
LEMMA CountedNone == ASSUME NEW n, \A g \in StageNames : n[g] = 0 PROVE Counted(n) = {}
  BY DEF Counted

\* One more shard in a stage counts as one more.
LEMMA CountedOneMore ==
    ASSUME NEW n \in [StageNames -> Nat], NEW g \in StageNames, IsFiniteSet(Counted(n))
    PROVE  LET m == [n EXCEPT ![g] = @ + 1] IN
              /\ IsFiniteSet(Counted(m))
              /\ Cardinality(Counted(m)) = Cardinality(Counted(n)) + 1
  <1> DEFINE m == [n EXCEPT ![g] = @ + 1]
             new == <<g, n[g] + 1>>
  <1>1. \A x : x \in Counted(m) <=> x \in Counted(n) \/ x = new
    <2>1. \A x : x \in Counted(n) <=> \E h \in StageNames : \E i \in 1 .. n[h] : x = <<h, i>>
      BY DEF Counted
    <2>2. \A x : x \in Counted(m) <=> \E h \in StageNames : \E i \in 1 .. m[h] : x = <<h, i>>
      BY DEF Counted
    <2>3. \A h \in StageNames : m[h] = IF h = g THEN n[g] + 1 ELSE n[h]
      OBVIOUS
    <2>4. n[g] \in Nat /\ 1 .. n[g] + 1 = (1 .. n[g]) \cup {n[g] + 1}
      OBVIOUS
    <2> HIDE DEF m
    <2>5. ASSUME NEW x, x \in Counted(m) PROVE x \in Counted(n) \/ x = new
      <3>1. PICK h \in StageNames : \E i \in 1 .. m[h] : x = <<h, i>>
        BY <2>2, <2>5
      <3>2. PICK i \in 1 .. m[h] : x = <<h, i>>
        BY <3>1
      <3>3. h = g => i \in 1 .. n[g] \/ i = n[g] + 1
        BY <2>3, <2>4
      <3> QED BY <2>1, <2>3, <3>2, <3>3
    <2>6. ASSUME NEW x, x \in Counted(n) PROVE x \in Counted(m)
      <3>1. PICK h \in StageNames : \E i \in 1 .. n[h] : x = <<h, i>>
        BY <2>1, <2>6
      <3>2. PICK i \in 1 .. n[h] : x = <<h, i>>
        BY <3>1
      <3>3. i \in 1 .. m[h]
        BY <2>3, <2>4
      <3> QED BY <2>2, <3>2, <3>3
    <2>7. new \in Counted(m)
      BY <2>2, <2>3, <2>4
    <2> QED BY <2>5, <2>6, <2>7
  <1>2. new \notin Counted(n)
    <2>1. ASSUME NEW h \in StageNames, NEW i \in 1 .. n[h], new = <<h, i>> PROVE FALSE
      <3>1. h = g /\ i = n[g] + 1
        BY <2>1
      <3> QED BY <3>1
    <2> QED BY <2>1 DEF Counted
  <1> HIDE DEF m, new
  <1>3. Counted(m) = Counted(n) \cup {new}
    BY <1>1
  <1>4. /\ IsFiniteSet(Counted(n) \cup {new})
        /\ Cardinality(Counted(n) \cup {new}) = Cardinality(Counted(n)) + 1
    BY <1>2, FS_AddElement
  <1>5. IsFiniteSet(Counted(m)) /\ Cardinality(Counted(m)) = Cardinality(Counted(n)) + 1
    BY <1>3, <1>4
  <1> QED BY <1>5 DEF m

\* Before the first round nothing is counted and nothing reported.
LEMMA StagesInit == Init => StagesInv
  <1> SUFFICES ASSUME Init PROVE StagesInv
    OBVIOUS
  <1>1. Counted(counts) = {}
    BY CountedNone DEF Init
  <1>2. Cardinality({}) = 0 /\ IsFiniteSet({}) /\ Cardinality(Shards) \in Nat
    BY MetricsAssumption, FS_EmptySet, FS_CardinalityType
  <1>3. StatusesCounted /\ ShardsReported
    BY <1>1 DEF Init, StatusesCounted, ShardsReported
  <1>4. CountedOnce
    <2>1. uncounted = {}
      BY DEF Init
    <2> QED BY <1>1, <1>2, <2>1 DEF CountedOnce
  <1> QED BY <1>3, <1>4 DEF StagesInv

\* A round begins: every shard is to be asked, and every stage to be set.
LEMMA BeginStages == ASSUME TypeOK, Begin PROVE StagesInv'
  <1>1. Counted(counts') = {}
    BY CountedNone DEF Begin
  <1>2. Cardinality({}) = 0 /\ IsFiniteSet({}) /\ Cardinality(Shards) \in Nat
    BY MetricsAssumption, FS_EmptySet, FS_CardinalityType
  <1>3. uncounted' = Shards /\ pending' = StageNames /\ gateway_shards' = Cardinality(Shards)
    BY DEF Begin
  <1> QED BY <1>1, <1>2, <1>3 DEF StagesInv, StatusesCounted, CountedOnce, ShardsReported

\* A shard is asked: it leaves the ones to be asked, and is counted in one stage or none.
LEMMA AskStages ==
    ASSUME TypeOK, StagesInv, NEW s \in Shards, Ask(s) PROVE StagesInv'
  <1>1. /\ s \in uncounted /\ uncounted' = uncounted \ {s} /\ pending = StageNames
        /\ UNCHANGED <<pending, gateway_shards, gateway_statuses>>
    BY DEF Ask, StagesInv, StatusesCounted
  <1>2. StatusesCounted' /\ ShardsReported'
    BY <1>1 DEF StagesInv, StatusesCounted, ShardsReported
  <1>3. /\ IsFiniteSet(uncounted) /\ Cardinality(uncounted) \in Nat
        /\ Cardinality(uncounted') = Cardinality(uncounted) - 1
    BY <1>1, MetricsAssumption, FS_Subset, FS_RemoveElement, FS_CardinalityType DEF TypeOK
  <1>4. /\ IsFiniteSet(Counted(counts'))
        /\ Cardinality(Counted(counts')) <= Cardinality(Counted(counts)) + 1
    <2>1. IsFiniteSet(Counted(counts)) /\ Cardinality(Counted(counts)) \in Nat
      BY FS_CardinalityType DEF StagesInv, CountedOnce
    <2>2. CASE stage[s] = Unknown
      BY <2>1, <2>2 DEF Ask
    <2>3. CASE stage[s] # Unknown
      <3>1. stage[s] \in StageNames /\ counts \in [StageNames -> Nat]
        BY <2>3 DEF TypeOK
      <3>2. counts' = [counts EXCEPT ![stage[s]] = @ + 1]
        BY <2>3 DEF Ask
      <3>3. LET m == [counts EXCEPT ![stage[s]] = @ + 1] IN
               /\ IsFiniteSet(Counted(m))
               /\ Cardinality(Counted(m)) = Cardinality(Counted(counts)) + 1
        BY <2>1, <3>1, CountedOneMore
      <3>4. /\ IsFiniteSet(Counted(counts'))
            /\ Cardinality(Counted(counts')) = Cardinality(Counted(counts)) + 1
        BY <3>2, <3>3
      <3> QED BY <2>1, <3>4
    <2> QED BY <2>2, <2>3
  <1>5. CountedOnce'
    <2>1. /\ Cardinality(Counted(counts)) \in Nat /\ Cardinality(Shards) \in Nat
          /\ Cardinality(Counted(counts')) \in Nat
      BY <1>4, MetricsAssumption, FS_CardinalityType DEF StagesInv, CountedOnce
    <2> QED BY <1>3, <1>4, <2>1 DEF StagesInv, CountedOnce
  <1> QED BY <1>2, <1>5 DEF StagesInv

\* The gauge of a stage is set to what was counted.
LEMMA SetStatusStages ==
    ASSUME TypeOK, StagesInv, NEW g \in StageNames, SetStatus(g) PROVE StagesInv'
  <1>1. /\ gateway_statuses' = [gateway_statuses EXCEPT ![g] = counts[g]]
        /\ pending' = pending \ {g} /\ uncounted = {}
        /\ UNCHANGED <<uncounted, counts, gateway_shards>>
    BY DEF SetStatus
  <1>2. StatusesCounted'
    BY <1>1 DEF TypeOK, StagesInv, StatusesCounted
  <1> QED BY <1>1, <1>2 DEF StagesInv, CountedOnce, ShardsReported

\* The other steps leave the stages that were counted alone.
LEMMA StagesKept ==
    ASSUME StagesInv, UNCHANGED <<uncounted, counts, pending, gateway_shards, gateway_statuses>>
    PROVE  StagesInv'
  BY DEF StagesInv, StatusesCounted, CountedOnce, ShardsReported

\* The gauges of a round that are set were counted in it, each shard once.
LEMMA StagesInvAddUp == ASSUME TypeOK, StagesInv PROVE StagesAddUp
  <1> SUFFICES ASSUME pending = {} PROVE Cardinality(Counted(gateway_statuses)) <= gateway_shards
    BY DEF StagesAddUp
  <1>1. Counted(gateway_statuses) = Counted(counts)
    <2>1. \A g \in StageNames : gateway_statuses[g] = counts[g]
      BY DEF StagesInv, StatusesCounted
    <2> QED BY <2>1 DEF Counted
  <1>2. /\ Cardinality(Counted(counts)) \in Nat /\ Cardinality(uncounted) \in Nat
        /\ Cardinality(Shards) \in Nat /\ Cardinality({}) = 0 /\ gateway_shards \in Nat
    BY MetricsAssumption, FS_CardinalityType, FS_Subset, FS_EmptySet
    DEF TypeOK, StagesInv, CountedOnce
  <1> QED BY <1>1, <1>2 DEF StagesInv, CountedOnce, ShardsReported

\* Once the gauges of a round are set, no shard is counted in two stages, whatever the shards
\* do while they are asked one by one, and whatever failed in the rounds before.
THEOREM MetricsStagesAddUp == Spec => []StagesAddUp
  <1>1. ASSUME TypeOK, StagesInv, [Next]_vars PROVE StagesInv'
    <2>1. CASE \/ \E s \in Shards : Change(s)
               \/ \E x \in Names : Resize(x)
               \/ Scard \/ ScardFails \/ Report \/ UNCHANGED vars
      <3>1. UNCHANGED <<uncounted, counts, pending, gateway_shards, gateway_statuses>>
        BY <2>1 DEF Change, Resize, Scard, ScardFails, Report, vars
      <3> QED BY <1>1, <3>1, StagesKept
    <2> QED BY <1>1, <2>1, BeginStages, AskStages, SetStatusStages DEF Next
  <1> QED BY <1>1, StagesInit, StagesInvAddUp, MetricsTypes, PTL DEF Spec
=============================================================================
