------------------------ MODULE IdentifyQueueProofs -------------------------
(***************************************************************************)
(* IdentifyQueue keeps its types, owes every waiting shard exactly one     *)
(* answer, spaces its answers and gives them in turn, whatever the shards, *)
(* the buckets and the wait.                                               *)
(***************************************************************************)
EXTENDS IdentifyQueue, TLAPS

\* The channels of the buckets hold requests of the shards of their buckets.
RightBucket ==
    \A b \in Buckets : \A j \in 1 .. Len(queue[b]) : Bucket(queue[b][j].shard) = b

\* A waiter that could answer now answered nobody for a full wait.
WaitedOut == \A b \in Buckets : sleeping[b] + since[b] >= Wait

\* The parts of OneLiveRequest: only waiting shards have live requests, ...
LiveWaits ==
    \A b \in Buckets : \A j \in 1 .. Len(queue[b]) :
        queue[b][j].live => shard[queue[b][j].shard] = "waiting"

\* ... each of them has one, ...
WaitingHasLive ==
    \A s \in Shards : shard[s] = "waiting" =>
        \E j \in 1 .. Len(queue[Bucket(s)]) :
            queue[Bucket(s)][j].shard = s /\ queue[Bucket(s)][j].live

\* ... and no two requests of a channel are live and of one shard.
LiveUnique ==
    \A b \in Buckets : \A i, j \in 1 .. Len(queue[b]) :
        queue[b][i].live /\ queue[b][j].live /\ queue[b][i].shard = queue[b][j].shard => i = j

\* The inductive invariant.
QueueInv ==
    TypeOK /\ RightBucket /\ WaitedOut /\ LiveWaits /\ WaitingHasLive /\ LiveUnique
-----------------------------------------------------------------------------
\* Every shard has a bucket.
LEMMA BucketType == \A s \in Shards : Bucket(s) \in Buckets
  BY IdentifyQueueAssumption DEF Bucket, Buckets

\* What a channel holds.
LEMMA RequestType ==
    ASSUME TypeOK, NEW b \in Buckets, NEW j \in 1 .. Len(queue[b])
    PROVE /\ queue[b][j] \in Requests
          /\ queue[b][j].shard \in Shards
          /\ queue[b][j].live \in BOOLEAN
  <1>1. queue[b] \in Seq(Requests)
    BY DEF TypeOK
  <1>2. queue[b][j] \in Requests
    BY <1>1
  <1> QED BY <1>2 DEF Requests

\* The channels start empty and the waiters awake.
LEMMA QueueInit == Init => QueueInv
  BY IdentifyQueueAssumption, BucketType
  DEF Init, QueueInv, TypeOK, RightBucket, WaitedOut, LiveWaits, WaitingHasLive, LiveUnique,
      ShardStates, Requests

\* `request` appends one live request of a shard that had none.
LEMMA RequestInv == ASSUME QueueInv, NEW s \in Shards, Request(s) PROVE QueueInv'
  <1> DEFINE B == Bucket(s)
             req == [shard |-> s, live |-> TRUE]
  <1>1. B \in Buckets
    BY BucketType
  <1>2. /\ queue \in [Buckets -> Seq(Requests)] /\ shard \in [Shards -> ShardStates]
        /\ req \in Requests /\ req.shard = s /\ req.live /\ shard[s] = "off"
        /\ sleeping' = sleeping /\ since' = since
        /\ shard' = [shard EXCEPT ![s] = "waiting"]
        /\ queue' = [queue EXCEPT ![B] = Append(@, req)]
    BY DEF QueueInv, TypeOK, Request, Requests
  <1> HIDE DEF B, req
  <1>3. /\ Len(queue'[B]) = Len(queue[B]) + 1
        /\ queue'[B][Len(queue[B]) + 1] = req
        /\ \A j \in 1 .. Len(queue[B]) : queue'[B][j] = queue[B][j]
        /\ queue'[B] \in Seq(Requests)
        /\ Len(queue[B]) \in Nat
    BY <1>1, <1>2
  <1>4. \A b \in Buckets : b # B => queue'[b] = queue[b]
    BY <1>2
  <1>5. \A b \in Buckets : queue[b] \in Seq(Requests) /\ Len(queue[b]) \in Nat
    BY <1>2
  <1>6. \A b \in Buckets : \A j \in 1 .. Len(queue[b]) :
            queue[b][j] \in Requests /\ queue[b][j].shard \in Shards
    BY RequestType DEF QueueInv
  <1>7. \A b \in Buckets : \A j \in 1 .. Len(queue[b]) :
            queue[b][j].live => queue[b][j].shard # s
    BY <1>2, <1>6 DEF QueueInv, LiveWaits
  <1>8. \A x \in Shards : shard'[x] = IF x = s THEN "waiting" ELSE shard[x]
    BY <1>2
  <1>9. TypeOK'
    BY <1>1, <1>2, <1>3 DEF QueueInv, TypeOK, ShardStates
  <1>10. RightBucket'
    BY <1>1, <1>2, <1>3, <1>4, <1>5 DEF QueueInv, RightBucket, B
  <1>11. WaitedOut'
    BY <1>2 DEF QueueInv, WaitedOut
  <1>12. LiveWaits'
    BY <1>1, <1>2, <1>3, <1>4, <1>5, <1>6, <1>8 DEF QueueInv, LiveWaits
  <1>13. WaitingHasLive'
    <2> SUFFICES ASSUME NEW x \in Shards, shard'[x] = "waiting"
                 PROVE \E j \in 1 .. Len(queue'[Bucket(x)]) :
                          queue'[Bucket(x)][j].shard = x /\ queue'[Bucket(x)][j].live
      BY DEF WaitingHasLive
    <2>1. CASE x = s
      BY <2>1, <1>2, <1>3 DEF B
    <2>2. CASE x # s
      <3>1. PICK j \in 1 .. Len(queue[Bucket(x)]) :
                queue[Bucket(x)][j].shard = x /\ queue[Bucket(x)][j].live
        BY <2>2, <1>8 DEF QueueInv, WaitingHasLive
      <3>2. Bucket(x) \in Buckets
        BY BucketType
      <3>3. j \in 1 .. Len(queue'[Bucket(x)]) /\ queue'[Bucket(x)][j] = queue[Bucket(x)][j]
        BY <3>1, <3>2, <1>3, <1>4
      <3> QED BY <3>1, <3>3
    <2> QED BY <2>1, <2>2
  <1>14. LiveUnique'
    <2> SUFFICES ASSUME NEW b \in Buckets, NEW i \in 1 .. Len(queue'[b]),
                        NEW j \in 1 .. Len(queue'[b]),
                        queue'[b][i].live, queue'[b][j].live,
                        queue'[b][i].shard = queue'[b][j].shard
                 PROVE i = j
      BY DEF LiveUnique
    <2>1. CASE b # B
      BY <2>1, <1>4 DEF QueueInv, LiveUnique
    <2>2. CASE b = B /\ i \in 1 .. Len(queue[b]) /\ j \in 1 .. Len(queue[b])
      BY <2>2, <1>3 DEF QueueInv, LiveUnique
    <2>3. CASE b = B /\ ~(i \in 1 .. Len(queue[b]) /\ j \in 1 .. Len(queue[b]))
      BY <2>3, <1>1, <1>2, <1>3, <1>7
    <2> QED BY <2>1, <2>2, <2>3
  <1> QED BY <1>9, <1>10, <1>11, <1>12, <1>13, <1>14 DEF QueueInv

\* Giving up leaves a dead request behind.
LEMMA DropInv == ASSUME QueueInv, NEW s \in Shards, Drop(s) PROVE QueueInv'
  <1> DEFINE B == Bucket(s)
             dead(r) == IF r.shard = s THEN [r EXCEPT !.live = FALSE] ELSE r
  <1>1. B \in Buckets
    BY BucketType
  <1>2. /\ queue \in [Buckets -> Seq(Requests)] /\ shard \in [Shards -> ShardStates]
        /\ sleeping' = sleeping /\ since' = since
        /\ shard' = [shard EXCEPT ![s] = "off"]
        /\ queue' = [queue EXCEPT ![B] = [j \in 1 .. Len(@) |-> dead(@[j])]]
    BY DEF QueueInv, TypeOK, Drop
  <1>3. \A r \in Requests : /\ dead(r) \in Requests /\ dead(r).shard = r.shard
                            /\ dead(r).live = (r.live /\ r.shard # s)
    BY DEF Requests
  <1> HIDE DEF B, dead
  <1>4. \A b \in Buckets : queue[b] \in Seq(Requests) /\ Len(queue[b]) \in Nat
    BY <1>2
  <1>5. \A b \in Buckets : \A j \in 1 .. Len(queue[b]) :
            queue[b][j] \in Requests /\ queue[b][j].shard \in Shards
    BY RequestType DEF QueueInv
  <1>6. /\ queue'[B] = [j \in 1 .. Len(queue[B]) |-> dead(queue[B][j])]
        /\ \A b \in Buckets : b # B => queue'[b] = queue[b]
    BY <1>1, <1>2
  <1>7. /\ queue'[B] \in Seq(Requests) /\ Len(queue'[B]) = Len(queue[B])
        /\ \A j \in 1 .. Len(queue[B]) : queue'[B][j] = dead(queue[B][j])
    BY <1>1, <1>3, <1>4, <1>5, <1>6
  <1>8. \A b \in Buckets :
            /\ Len(queue'[b]) = Len(queue[b])
            /\ \A j \in 1 .. Len(queue[b]) :
                  /\ queue'[b][j].shard = queue[b][j].shard
                  /\ queue'[b][j].live = (queue[b][j].live /\ queue[b][j].shard # s)
    <2> SUFFICES ASSUME NEW b \in Buckets
                 PROVE /\ Len(queue'[b]) = Len(queue[b])
                       /\ \A j \in 1 .. Len(queue[b]) :
                             /\ queue'[b][j].shard = queue[b][j].shard
                             /\ queue'[b][j].live = (queue[b][j].live /\ queue[b][j].shard # s)
      OBVIOUS
    <2>1. CASE b = B
      BY <2>1, <1>3, <1>5, <1>7
    <2>2. CASE b # B
      <3>1. \A j \in 1 .. Len(queue[b]) : queue[b][j].shard # s /\ queue[b][j].live \in BOOLEAN
        BY <2>2, <1>5 DEF QueueInv, RightBucket, B, Requests
      <3> QED BY <2>2, <3>1, <1>6
    <2> QED BY <2>1, <2>2
  <1>9. \A x \in Shards : shard'[x] = IF x = s THEN "off" ELSE shard[x]
    BY <1>2
  <1>10. TypeOK'
    BY <1>1, <1>2, <1>7 DEF QueueInv, TypeOK, ShardStates
  <1>11. RightBucket'
    BY <1>8 DEF QueueInv, RightBucket
  <1>12. WaitedOut'
    BY <1>2 DEF QueueInv, WaitedOut
  <1>13. LiveWaits'
    <2> SUFFICES ASSUME NEW b \in Buckets, NEW j \in 1 .. Len(queue'[b]), queue'[b][j].live
                 PROVE shard'[queue'[b][j].shard] = "waiting"
      BY DEF LiveWaits
    <2>1. /\ j \in 1 .. Len(queue[b]) /\ queue[b][j].live
          /\ queue[b][j].shard # s /\ queue'[b][j].shard = queue[b][j].shard
      BY <1>8
    <2>2. queue[b][j].shard \in Shards /\ shard[queue[b][j].shard] = "waiting"
      BY <2>1, <1>5 DEF QueueInv, LiveWaits
    <2> QED BY <2>1, <2>2, <1>9
  <1>14. WaitingHasLive'
    <2> SUFFICES ASSUME NEW x \in Shards, shard'[x] = "waiting"
                 PROVE \E j \in 1 .. Len(queue'[Bucket(x)]) :
                          queue'[Bucket(x)][j].shard = x /\ queue'[Bucket(x)][j].live
      BY DEF WaitingHasLive
    <2>1. x # s /\ shard[x] = "waiting" /\ Bucket(x) \in Buckets
      BY <1>9, BucketType
    <2>2. PICK j \in 1 .. Len(queue[Bucket(x)]) :
              queue[Bucket(x)][j].shard = x /\ queue[Bucket(x)][j].live
      BY <2>1 DEF QueueInv, WaitingHasLive
    <2> QED BY <2>1, <2>2, <1>8
  <1>15. LiveUnique'
    BY <1>8 DEF QueueInv, LiveUnique
  <1> QED BY <1>10, <1>11, <1>12, <1>13, <1>14, <1>15 DEF QueueInv

\* The waiter takes the head of its channel, and with it the shard's only live request.
LEMMA AnswerInv == ASSUME QueueInv, NEW b \in Buckets, Answer(b) PROVE QueueInv'
  <1> DEFINE req == Head(queue[b])
  <1>1. /\ queue \in [Buckets -> Seq(Requests)] /\ shard \in [Shards -> ShardStates]
        /\ sleeping \in [Buckets -> 0 .. Wait] /\ since \in [Buckets -> 0 .. Wait]
        /\ queue[b] # <<>>
        /\ queue' = [queue EXCEPT ![b] = Tail(@)]
        /\ sleeping' = [sleeping EXCEPT ![b] = Wait]
        /\ IF req.live THEN /\ shard' = [shard EXCEPT ![req.shard] = "identifying"]
                            /\ since' = [since EXCEPT ![b] = 0]
           ELSE shard' = shard /\ since' = since
    BY DEF QueueInv, TypeOK, Answer
  <1>2. \A c \in Buckets : queue[c] \in Seq(Requests) /\ Len(queue[c]) \in Nat
    BY <1>1
  <1>3. \A c \in Buckets : \A j \in 1 .. Len(queue[c]) :
            queue[c][j] \in Requests /\ queue[c][j].shard \in Shards
    BY RequestType DEF QueueInv
  <1>4. /\ Len(queue[b]) >= 1 /\ req = queue[b][1] /\ req.shard \in Shards
        /\ Bucket(req.shard) = b
        /\ queue'[b] = Tail(queue[b]) /\ queue'[b] \in Seq(Requests)
        /\ Len(queue'[b]) = Len(queue[b]) - 1
        /\ \A j \in 1 .. Len(queue[b]) - 1 : queue'[b][j] = queue[b][j + 1]
    BY <1>1, <1>2, <1>3 DEF QueueInv, RightBucket
  <1>5. \A c \in Buckets : c # b => queue'[c] = queue[c]
    BY <1>1
  <1> HIDE DEF req
  <1>6. \A x \in Shards : shard'[x] = IF req.live /\ x = req.shard THEN "identifying"
                                     ELSE shard[x]
    BY <1>1, <1>4
  <1>7. \A c \in Buckets : \A j \in 1 .. Len(queue'[c]) :
            \E i \in 1 .. Len(queue[c]) :
                queue'[c][j] = queue[c][i] /\ i = IF c = b THEN j + 1 ELSE j
    <2> SUFFICES ASSUME NEW c \in Buckets, NEW j \in 1 .. Len(queue'[c])
                 PROVE \E i \in 1 .. Len(queue[c]) :
                          queue'[c][j] = queue[c][i] /\ i = IF c = b THEN j + 1 ELSE j
      OBVIOUS
    <2>1. CASE c = b
      <3>1. j + 1 \in 1 .. Len(queue[b]) /\ queue'[b][j] = queue[b][j + 1]
        BY <2>1, <1>2, <1>4
      <3> QED BY <2>1, <3>1
    <2>2. CASE c # b
      BY <2>2, <1>5
    <2> QED BY <2>1, <2>2
  <1>8. TypeOK'
    <2>1. queue' \in [Buckets -> Seq(Requests)]
      BY <1>1, <1>4
    <2>2. sleeping' \in [Buckets -> 0 .. Wait] /\ since' \in [Buckets -> 0 .. Wait]
      BY <1>1, IdentifyQueueAssumption
    <2>3. shard' \in [Shards -> ShardStates]
      BY <1>1, <1>4 DEF ShardStates
    <2> QED BY <2>1, <2>2, <2>3 DEF TypeOK
  <1>9. RightBucket'
    BY <1>7 DEF QueueInv, RightBucket
  <1>10. WaitedOut'
    BY <1>1, IdentifyQueueAssumption DEF QueueInv, WaitedOut
  <1>11. LiveWaits'
    <2> SUFFICES ASSUME NEW c \in Buckets, NEW j \in 1 .. Len(queue'[c]), queue'[c][j].live
                 PROVE shard'[queue'[c][j].shard] = "waiting"
      BY DEF LiveWaits
    <2>1. PICK i \in 1 .. Len(queue[c]) :
              queue'[c][j] = queue[c][i] /\ i = IF c = b THEN j + 1 ELSE j
      BY <1>7
    <2>2. queue[c][i].shard \in Shards /\ shard[queue[c][i].shard] = "waiting"
      BY <2>1, <1>3 DEF QueueInv, LiveWaits
    <2>3. ~(req.live /\ queue[c][i].shard = req.shard)
      <3>1. SUFFICES ASSUME req.live, queue[c][i].shard = req.shard PROVE FALSE
        OBVIOUS
      <3>2. c = b
        BY <3>1, <1>4 DEF QueueInv, RightBucket
      <3>3. i = 1
        BY <3>1, <3>2, <2>1, <1>2, <1>4 DEF QueueInv, LiveUnique
      <3> QED BY <3>2, <3>3, <2>1, <1>4
    <2> QED BY <2>1, <2>2, <2>3, <1>6
  <1>12. WaitingHasLive'
    <2> SUFFICES ASSUME NEW x \in Shards, shard'[x] = "waiting"
                 PROVE \E j \in 1 .. Len(queue'[Bucket(x)]) :
                          queue'[Bucket(x)][j].shard = x /\ queue'[Bucket(x)][j].live
      BY DEF WaitingHasLive
    <2>1. Bucket(x) \in Buckets /\ shard[x] = "waiting" /\ ~(req.live /\ x = req.shard)
      BY BucketType, <1>6
    <2>2. PICK i \in 1 .. Len(queue[Bucket(x)]) :
              queue[Bucket(x)][i].shard = x /\ queue[Bucket(x)][i].live
      BY <2>1 DEF QueueInv, WaitingHasLive
    <2>3. CASE Bucket(x) # b
      BY <2>1, <2>2, <2>3, <1>5
    <2>4. CASE Bucket(x) = b
      <3>1. i # 1
        BY <2>1, <2>2, <2>4, <1>4
      <3>2. i - 1 \in 1 .. Len(queue'[b]) /\ queue'[b][i - 1] = queue[b][i]
        BY <2>4, <3>1, <1>2, <1>4
      <3> QED BY <2>2, <2>4, <3>2
    <2> QED BY <2>3, <2>4
  <1>13. LiveUnique'
    <2> SUFFICES ASSUME NEW c \in Buckets,
                        NEW i \in 1 .. Len(queue'[c]), NEW j \in 1 .. Len(queue'[c]),
                        queue'[c][i].live, queue'[c][j].live,
                        queue'[c][i].shard = queue'[c][j].shard
                 PROVE i = j
      BY DEF LiveUnique
    <2>1. PICK x \in 1 .. Len(queue[c]) :
              queue'[c][i] = queue[c][x] /\ x = IF c = b THEN i + 1 ELSE i
      BY <1>7
    <2>2. PICK y \in 1 .. Len(queue[c]) :
              queue'[c][j] = queue[c][y] /\ y = IF c = b THEN j + 1 ELSE j
      BY <1>7
    <2>3. x = y
      BY <2>1, <2>2 DEF QueueInv, LiveUnique
    <2> QED BY <2>1, <2>2, <2>3
  <1> QED BY <1>8, <1>9, <1>10, <1>11, <1>12, <1>13 DEF QueueInv

\* A shard that was answered is off again.
LEMMA IdentifyInv == ASSUME QueueInv, NEW s \in Shards, Identify(s) PROVE QueueInv'
  <1>1. /\ queue \in [Buckets -> Seq(Requests)] /\ shard \in [Shards -> ShardStates]
        /\ queue' = queue /\ sleeping' = sleeping /\ since' = since
        /\ shard[s] = "identifying" /\ shard' = [shard EXCEPT ![s] = "off"]
    BY DEF QueueInv, TypeOK, Identify
  <1>2. \A x \in Shards : shard'[x] = IF x = s THEN "off" ELSE shard[x]
    BY <1>1
  <1>3. \A c \in Buckets : \A j \in 1 .. Len(queue[c]) : queue[c][j].shard \in Shards
    BY RequestType DEF QueueInv
  <1>4. TypeOK'
    BY <1>1 DEF QueueInv, TypeOK, ShardStates
  <1>5. LiveWaits'
    BY <1>1, <1>2, <1>3 DEF QueueInv, LiveWaits
  <1>6. WaitingHasLive'
    BY <1>1, <1>2 DEF QueueInv, WaitingHasLive
  <1> QED BY <1>1, <1>4, <1>5, <1>6 DEF QueueInv, RightBucket, WaitedOut, LiveUnique

\* A tick takes from a sleep at most what it adds to the time since the last answer.
LEMMA TickInv == ASSUME QueueInv, Tick PROVE QueueInv'
  <1>1. /\ sleeping \in [Buckets -> 0 .. Wait] /\ since \in [Buckets -> 0 .. Wait]
        /\ queue' = queue /\ shard' = shard
        /\ sleeping' = [b \in Buckets |-> IF sleeping[b] > 0 THEN sleeping[b] - 1 ELSE 0]
        /\ since' = [b \in Buckets |-> IF since[b] < Wait THEN since[b] + 1 ELSE Wait]
    BY DEF QueueInv, TypeOK, Tick
  <1>2. TypeOK'
    BY <1>1, IdentifyQueueAssumption DEF QueueInv, TypeOK
  <1>3. WaitedOut'
    BY <1>1, IdentifyQueueAssumption DEF QueueInv, WaitedOut
  <1> QED BY <1>1, <1>2, <1>3
          DEF QueueInv, RightBucket, LiveWaits, WaitingHasLive, LiveUnique

\* Every step keeps the invariant.
LEMMA QueueNext == QueueInv /\ [Next]_vars => QueueInv'
  <1> SUFFICES ASSUME QueueInv, [Next]_vars PROVE QueueInv'
    OBVIOUS
  <1>1. CASE Next
    BY <1>1, RequestInv, DropInv, AnswerInv, IdentifyInv, TickInv DEF Next
  <1>2. CASE UNCHANGED vars
    BY <1>2 DEF vars, QueueInv, TypeOK, RightBucket, WaitedOut, LiveWaits, WaitingHasLive,
                LiveUnique
  <1> QED BY <1>1, <1>2
-----------------------------------------------------------------------------
\* The invariant holds throughout.
LEMMA QueueAlways == Spec => []QueueInv
  BY QueueInit, QueueNext, PTL DEF Spec

\* The channels, the sleeps and the shards keep their types, for any number of each.
THEOREM QueueTypes == Spec => []TypeOK
  <1>1. QueueInv => TypeOK
    BY DEF QueueInv
  <1> QED BY <1>1, QueueAlways, PTL

\* A waiting shard has exactly one live request, in the channel of its bucket, however
\* often it and the other shards ask, are answered and give up (`request`, `waiter`).
THEOREM OneAnswerOwed == Spec => []OneLiveRequest
  <1>1. QueueInv => OneLiveRequest
    <2> SUFFICES ASSUME QueueInv, NEW s \in Shards, NEW b \in Buckets
                 PROVE LET live == {j \in 1 .. Len(queue[b]) :
                                        queue[b][j].shard = s /\ queue[b][j].live}
                       IN IF shard[s] = "waiting" /\ b = Bucket(s)
                          THEN \E j \in live : live = {j} ELSE live = {}
      BY DEF OneLiveRequest
    <2> DEFINE live == {j \in 1 .. Len(queue[b]) : queue[b][j].shard = s /\ queue[b][j].live}
    <2>1. CASE shard[s] = "waiting" /\ b = Bucket(s)
      <3>1. PICK j \in live : TRUE
        BY <2>1 DEF QueueInv, WaitingHasLive
      <3>2. \A i \in live : i = j
        BY <3>1 DEF QueueInv, LiveUnique
      <3>3. live = {j}
        BY <3>1, <3>2
      <3> QED BY <2>1, <3>1, <3>3
    <2>2. CASE ~(shard[s] = "waiting" /\ b = Bucket(s))
      <3>1. \A j \in live : FALSE
        BY <2>2 DEF QueueInv, LiveWaits, RightBucket
      <3> QED BY <2>2, <3>1
    <2> QED BY <2>1, <2>2
  <1> QED BY <1>1, QueueAlways, PTL

\* Two answers of a bucket are SHARDS_WAIT apart: the waiter sleeps that long after every
\* answer, so a request that is answered finds the bucket's last answer that old.
THEOREM AnswersAreSpaced == Spec => Spaced
  <1> DEFINE Step == \A s \in Shards :
                        shard[s] = "waiting" /\ shard'[s] = "identifying"
                            => since[Bucket(s)] = Wait
  <1>1. QueueInv /\ [Next]_vars => [Step]_vars
    <2> SUFFICES ASSUME QueueInv, Next, NEW s \in Shards,
                        shard[s] = "waiting", shard'[s] = "identifying"
                 PROVE since[Bucket(s)] = Wait
      OBVIOUS
    <2>1. shard \in [Shards -> ShardStates]
      BY DEF QueueInv, TypeOK
    <2>2. CASE \E x \in Shards : Request(x) \/ Drop(x) \/ Identify(x)
      BY <2>1, <2>2 DEF Request, Drop, Identify
    <2>3. CASE \E b \in Buckets : Answer(b)
      <3>1. PICK b \in Buckets : Answer(b)
        BY <2>3
      <3>2. queue[b] \in Seq(Requests) /\ queue[b] # <<>> /\ Head(queue[b]) = queue[b][1]
            /\ 1 \in 1 .. Len(queue[b])
        BY <3>1 DEF QueueInv, TypeOK, Answer
      <3>3. Bucket(Head(queue[b]).shard) = b
        BY <3>2 DEF QueueInv, RightBucket
      <3>4. s = Head(queue[b]).shard
        BY <2>1, <3>1 DEF Answer
      <3>5. sleeping[b] = 0 /\ since[b] \in 0 .. Wait /\ sleeping[b] + since[b] >= Wait
        BY <3>1 DEF QueueInv, TypeOK, WaitedOut, Answer
      <3> QED BY <3>3, <3>4, <3>5, IdentifyQueueAssumption
    <2>4. CASE Tick
      BY <2>4 DEF Tick
    <2> QED BY <2>2, <2>3, <2>4 DEF Next
  <1> QED BY <1>1, QueueAlways, PTL DEF Spec, Spaced
-----------------------------------------------------------------------------
(* First come, first served. *)

\* The live request of a shard, and one of s ahead of one of t in the channel q.
Live(s) == [shard |-> s, live |-> TRUE]
Before(q, s, t) ==
    \E j \in 1 .. Len(q) : \E i \in 1 .. j - 1 : q[i] = Live(s) /\ q[j] = Live(t)

\* A request is the live one of a shard if it says so.
LEMMA LiveRequest ==
    ASSUME NEW r \in Requests, NEW x
    PROVE  r = Live(x) <=> r.shard = x /\ r.live
  <1>1. r = Live(x) => r.shard = x /\ r.live
    BY DEF Live
  <1>2. r.shard = x /\ r.live => r = Live(x)
    BY DEF Requests, Live
  <1> QED BY <1>1, <1>2

\* What Ahead says, now and after a step.
LEMMA AheadBefore ==
    ASSUME NEW s \in Shards, NEW t \in Shards
    PROVE /\ Ahead(s, t) <=> Bucket(s) = Bucket(t) /\ Before(queue[Bucket(s)], s, t)
          /\ Ahead(s, t)' <=> Bucket(s) = Bucket(t) /\ Before(queue'[Bucket(s)], s, t)
  BY DEF Ahead, Before, Live, Bucket

\* A waiting shard has its live request in its channel, and who has one there waits.
LEMMA LiveIsWaiting ==
    ASSUME QueueInv, NEW s \in Shards
    PROVE /\ shard[s] = "waiting" =>
                \E i \in 1 .. Len(queue[Bucket(s)]) : queue[Bucket(s)][i] = Live(s)
          /\ \A b \in Buckets : \A i \in 1 .. Len(queue[b]) :
                queue[b][i] = Live(s) => shard[s] = "waiting"
  <1>1. ASSUME shard[s] = "waiting"
        PROVE  \E i \in 1 .. Len(queue[Bucket(s)]) : queue[Bucket(s)][i] = Live(s)
    <2>1. PICK i \in 1 .. Len(queue[Bucket(s)]) :
              queue[Bucket(s)][i].shard = s /\ queue[Bucket(s)][i].live
      BY <1>1 DEF QueueInv, WaitingHasLive
    <2>2. queue[Bucket(s)][i] \in Requests
      BY BucketType, RequestType DEF QueueInv
    <2>3. queue[Bucket(s)][i] = Live(s)
      BY <2>1, <2>2 DEF Requests, Live
    <2> QED BY <2>3
  <1>2. ASSUME NEW b \in Buckets, NEW i \in 1 .. Len(queue[b]), queue[b][i] = Live(s)
        PROVE  shard[s] = "waiting"
    BY <1>2 DEF QueueInv, LiveWaits, Live
  <1> QED BY <1>1, <1>2

\* The conditions of InTurn on one step, for two shards.
Turn(s, t) ==
    /\ (/\ Bucket(s) = Bucket(t)
        /\ shard[s] = "waiting" /\ shard[t] # "waiting" /\ shard'[t] = "waiting")
          => Ahead(s, t)'
    /\ Ahead(s, t) =>
          /\ shard'[t] # "identifying"
          /\ shard'[s] = "waiting" /\ shard'[t] = "waiting" => Ahead(s, t)'

\* `request` puts a shard behind all that wait.
LEMMA RequestTurn ==
    ASSUME QueueInv, NEW x \in Shards, Request(x), NEW s \in Shards, NEW t \in Shards
    PROVE  Turn(s, t)
  <1>1. /\ shard' = [shard EXCEPT ![x] = "waiting"] /\ shard[x] = "off"
        /\ queue' = [queue EXCEPT ![Bucket(x)] = Append(@, Live(x))]
        /\ queue \in [Buckets -> Seq(Requests)] /\ shard \in [Shards -> ShardStates]
        /\ Live(x) \in Requests /\ Bucket(s) \in Buckets /\ Bucket(x) \in Buckets
    BY BucketType DEF QueueInv, TypeOK, Request, Live, Requests
  <1>2. queue[Bucket(s)] \in Seq(Requests) /\ Len(queue[Bucket(s)]) \in Nat
    BY <1>1
  <1>3. /\ Len(queue[Bucket(s)]) <= Len(queue'[Bucket(s)]) /\ Len(queue'[Bucket(s)]) \in Nat
        /\ \A i \in 1 .. Len(queue[Bucket(s)]) : queue'[Bucket(s)][i] = queue[Bucket(s)][i]
    BY <1>1, <1>2
  <1>4. Before(queue[Bucket(s)], s, t) => Before(queue'[Bucket(s)], s, t)
    <2> SUFFICES ASSUME NEW j \in 1 .. Len(queue[Bucket(s)]), NEW i \in 1 .. j - 1,
                        queue[Bucket(s)][i] = Live(s), queue[Bucket(s)][j] = Live(t)
                 PROVE Before(queue'[Bucket(s)], s, t)
      BY DEF Before
    <2>1. i \in 1 .. Len(queue[Bucket(s)]) /\ j \in 1 .. Len(queue'[Bucket(s)])
      BY <1>2, <1>3
    <2> QED BY <1>3, <2>1 DEF Before
  <1>5. ASSUME Bucket(s) = Bucket(t), shard[s] = "waiting", shard[t] # "waiting",
               shard'[t] = "waiting"
        PROVE  Before(queue'[Bucket(s)], s, t)
    <2>1. t = x
      BY <1>1, <1>5
    <2>2. PICK i \in 1 .. Len(queue[Bucket(s)]) : queue[Bucket(s)][i] = Live(s)
      BY <1>5, LiveIsWaiting
    <2> DEFINE j == Len(queue[Bucket(s)]) + 1
    <2>3. j \in 1 .. Len(queue'[Bucket(s)]) /\ queue'[Bucket(s)][j] = Live(t)
      BY <1>1, <1>2, <1>5, <2>1
    <2>4. i \in 1 .. j - 1 /\ queue'[Bucket(s)][i] = Live(s)
      BY <1>2, <1>3, <2>2
    <2> QED BY <2>3, <2>4 DEF Before
  <1>6. Ahead(s, t) => shard'[t] # "identifying"
    <2> SUFFICES ASSUME Before(queue[Bucket(s)], s, t) PROVE shard[t] = "waiting" \/ t = x
      BY <1>1, AheadBefore
    <2>1. PICK j \in 1 .. Len(queue[Bucket(s)]) : queue[Bucket(s)][j] = Live(t)
      BY DEF Before
    <2> QED BY <1>1, <2>1, LiveIsWaiting
  <1> QED BY <1>4, <1>5, <1>6, AheadBefore DEF Turn

\* A shard that gives up leaves the requests of the others where they are.
LEMMA DropTurn ==
    ASSUME QueueInv, NEW x \in Shards, Drop(x), NEW s \in Shards, NEW t \in Shards
    PROVE  Turn(s, t)
  <1>1. /\ shard' = [shard EXCEPT ![x] = "off"]
        /\ queue \in [Buckets -> Seq(Requests)] /\ shard \in [Shards -> ShardStates]
        /\ Bucket(s) \in Buckets /\ Bucket(x) \in Buckets
    BY BucketType DEF QueueInv, TypeOK, Drop
  <1>2. ASSUME s # x, t # x, Before(queue[Bucket(s)], s, t)
        PROVE  Before(queue'[Bucket(s)], s, t)
    <2> DEFINE q == queue[Bucket(s)]
    <2>1. \/ queue'[Bucket(s)] = q
          \/ queue'[Bucket(s)] = [j \in 1 .. Len(q) |->
                IF q[j].shard = x THEN [q[j] EXCEPT !.live = FALSE] ELSE q[j]]
      BY <1>1 DEF Drop
    <2>2. q \in Seq(Requests) /\ Len(q) \in Nat
      BY <1>1
    <2> HIDE DEF q
    <2>3. Len(queue'[Bucket(s)]) = Len(q)
      BY <2>1, <2>2
    <2>4. \A j \in 1 .. Len(q) : q[j].shard # x => queue'[Bucket(s)][j] = q[j]
      BY <2>1, <2>2
    <2>5. PICK j \in 1 .. Len(q) : \E i \in 1 .. j - 1 : q[i] = Live(s) /\ q[j] = Live(t)
      BY <1>2 DEF Before, q
    <2>6. PICK i \in 1 .. j - 1 : q[i] = Live(s) /\ q[j] = Live(t)
      BY <2>5
    <2>7. i \in 1 .. Len(q) /\ q[i].shard = s /\ q[j].shard = t
      BY <2>2, <2>6 DEF Live
    <2> QED BY <1>2, <2>3, <2>4, <2>6, <2>7 DEF Before
  <1>3. /\ shard'[s] = "waiting" => s # x
        /\ shard'[t] = "waiting" => t # x /\ shard[t] = "waiting"
    BY <1>1
  <1>4. Ahead(s, t) => shard'[t] # "identifying"
    <2> SUFFICES ASSUME Before(queue[Bucket(s)], s, t) PROVE shard[t] = "waiting"
      BY <1>1, AheadBefore
    <2>1. PICK j \in 1 .. Len(queue[Bucket(s)]) : queue[Bucket(s)][j] = Live(t)
      BY DEF Before
    <2> QED BY <1>1, <2>1, LiveIsWaiting
  <1> QED BY <1>2, <1>3, <1>4, AheadBefore DEF Turn

\* `waiter` answers the first of its channel, which nobody is ahead of.
LEMMA AnswerTurn ==
    ASSUME QueueInv, NEW b \in Buckets, Answer(b), NEW s \in Shards, NEW t \in Shards
    PROVE  Turn(s, t)
  <1> DEFINE q == queue[b]
  <1>1. /\ queue \in [Buckets -> Seq(Requests)] /\ shard \in [Shards -> ShardStates]
        /\ q \in Seq(Requests) /\ q # <<>> /\ queue' = [queue EXCEPT ![b] = Tail(q)]
        /\ Bucket(s) \in Buckets /\ Bucket(t) \in Buckets
    BY BucketType DEF QueueInv, TypeOK, Answer
  <1>2. /\ Len(q) \in Nat /\ Len(q) >= 1 /\ Head(q) = q[1] /\ 1 \in 1 .. Len(q)
        /\ Len(queue'[b]) = Len(q) - 1
        /\ \A j \in 1 .. Len(q) - 1 : queue'[b][j] = q[j + 1]
    BY <1>1
  <1>3. q[1] \in Requests /\ q[1].shard \in Shards /\ Bucket(q[1].shard) = b
    BY <1>2, RequestType DEF QueueInv, RightBucket
  <1>4. \A x \in Shards : shard'[x] = IF q[1] = Live(x) THEN "identifying" ELSE shard[x]
    <2>1. \A x \in Shards : q[1] = Live(x) <=> q[1].shard = x /\ q[1].live
      BY <1>3, LiveRequest
    <2>2. IF q[1].live THEN shard' = [shard EXCEPT ![q[1].shard] = "identifying"]
                       ELSE shard' = shard
      BY <1>2 DEF Answer
    <2> QED BY <1>1, <1>3, <2>1, <2>2
  <1>5. q[1] = Live(t) => Bucket(t) = b
    BY <1>3 DEF Live
  <1>6. \A c \in Buckets : c # b => queue'[c] = queue[c]
    BY <1>1
  <1>7. ASSUME NEW i \in 1 .. Len(q), NEW j \in 1 .. Len(q), q[i] = Live(t), q[j] = Live(t)
        PROVE  i = j
    BY <1>7 DEF QueueInv, LiveUnique, Live
  <1> HIDE DEF q
  <1>8. ~(shard[t] # "waiting" /\ shard'[t] = "waiting")
    BY <1>4
  <1>9. ASSUME Ahead(s, t)
        PROVE /\ shard'[t] # "identifying"
              /\ shard'[s] = "waiting" => Ahead(s, t)'
    <2>1. Bucket(s) = Bucket(t) /\ Before(queue[Bucket(s)], s, t)
      BY <1>9, AheadBefore
    <2>2. shard[t] = "waiting"
      <3>1. PICK j \in 1 .. Len(queue[Bucket(s)]) : queue[Bucket(s)][j] = Live(t)
        BY <2>1 DEF Before
      <3> QED BY <1>1, <3>1, LiveIsWaiting
    <2>3. CASE Bucket(s) # b
      BY <1>1, <1>4, <1>5, <1>6, <2>1, <2>2, <2>3, AheadBefore
    <2>4. CASE Bucket(s) = b
      <3>1. PICK j \in 1 .. Len(q) : \E i \in 1 .. j - 1 : q[i] = Live(s) /\ q[j] = Live(t)
        BY <2>1, <2>4 DEF Before, q
      <3>2. PICK i \in 1 .. j - 1 : q[i] = Live(s) /\ q[j] = Live(t)
        BY <3>1
      <3>3. q[1] # Live(t)
        BY <1>2, <1>7, <3>2
      <3>4. shard'[t] # "identifying"
        BY <1>4, <2>2, <3>3
      <3>5. ASSUME shard'[s] = "waiting" PROVE Ahead(s, t)'
        <4>1. i # 1
          BY <1>4, <3>2, <3>5
        <4>2. /\ i - 1 \in 1 .. (j - 1) - 1 /\ j - 1 \in 1 .. Len(queue'[b])
              /\ i - 1 \in 1 .. Len(q) - 1 /\ j - 1 \in 1 .. Len(q) - 1
          BY <1>2, <4>1
        <4>3. queue'[b][i - 1] = Live(s) /\ queue'[b][j - 1] = Live(t)
          BY <1>2, <3>2, <4>2
        <4>4. Before(queue'[b], s, t)
          BY <4>2, <4>3 DEF Before
        <4> QED BY <2>1, <2>4, <4>4, AheadBefore
      <3> QED BY <3>4, <3>5
    <2> QED BY <2>3, <2>4
  <1> QED BY <1>8, <1>9 DEF Turn

\* Shards that identify and time that passes leave the channels alone.
LEMMA OtherTurn ==
    ASSUME QueueInv, Tick \/ \E x \in Shards : Identify(x), NEW s \in Shards, NEW t \in Shards
    PROVE  Turn(s, t)
  <1>1. shard \in [Shards -> ShardStates] /\ Bucket(s) \in Buckets
    BY BucketType DEF QueueInv, TypeOK
  <1>2. /\ queue' = queue
        /\ shard'[t] = "waiting" => shard[t] = "waiting"
        /\ shard[t] = "waiting" => shard'[t] = "waiting"
    BY <1>1 DEF Tick, Identify
  <1>3. Ahead(s, t)' <=> Ahead(s, t)
    BY <1>2, AheadBefore
  <1>4. Ahead(s, t) => shard[t] = "waiting"
    <2> SUFFICES ASSUME Before(queue[Bucket(s)], s, t) PROVE shard[t] = "waiting"
      BY AheadBefore
    <2>1. PICK j \in 1 .. Len(queue[Bucket(s)]) : queue[Bucket(s)][j] = Live(t)
      BY DEF Before
    <2> QED BY <1>1, <2>1, LiveIsWaiting
  <1> QED BY <1>2, <1>3, <1>4 DEF Turn

\* First come, first served, in every bucket and whoever gives up: a shard that asks comes
\* after those that wait, is answered after them, and is overtaken by no other.
THEOREM AnswersInTurn == Spec => InTurn
  <1> DEFINE Step == \A s, t \in Shards :
          /\ (/\ Bucket(s) = Bucket(t)
              /\ shard[s] = "waiting" /\ shard[t] # "waiting" /\ shard'[t] = "waiting")
                => Ahead(s, t)'
          /\ Ahead(s, t) =>
                /\ shard'[t] # "identifying"
                /\ shard'[s] = "waiting" /\ shard'[t] = "waiting" => Ahead(s, t)'
  <1>1. QueueInv /\ [Next]_vars => [Step]_vars
    <2> SUFFICES ASSUME QueueInv, Next, NEW s \in Shards, NEW t \in Shards PROVE Turn(s, t)
      BY DEF Turn
    <2> QED BY RequestTurn, DropTurn, AnswerTurn, OtherTurn DEF Next
  <1> QED BY <1>1, QueueAlways, PTL DEF Spec, InTurn
-----------------------------------------------------------------------------
(* How long a shard may have to wait. *)

\* The ticks that the waiter of bucket b sleeps before it takes the request in place i.
Left(b, i) == sleeping[b] + (i - 1) * Wait

\* The request of s is in place i of its channel now, and in place j after the step.
Stays(s, i, j) ==
    /\ i \in 1 .. Len(queue[Bucket(s)]) /\ queue[Bucket(s)][i] = Live(s)
    /\ j \in 1 .. Len(queue'[Bucket(s)]) /\ queue'[Bucket(s)][j] = Live(s)

\* The live request of a shard is in one place.
LEMMA OneLivePlace ==
    ASSUME QueueInv, NEW s \in Shards,
           NEW i \in 1 .. Len(queue[Bucket(s)]), queue[Bucket(s)][i] = Live(s),
           NEW j \in 1 .. Len(queue[Bucket(s)]), queue[Bucket(s)][j] = Live(s)
    PROVE  i = j
  BY BucketType DEF QueueInv, LiveUnique, Live

\* Requests that are sent or dropped move no other.
LEMMA PlaceKept ==
    ASSUME QueueInv, NEW x \in Shards, Request(x) \/ Drop(x),
           NEW s \in Shards, NEW i, NEW j, Stays(s, i, j)
    PROVE  i = j
  <1> DEFINE q == queue[Bucket(s)]
             r == queue'[Bucket(s)]
  <1>1. /\ queue \in [Buckets -> Seq(Requests)] /\ q \in Seq(Requests) /\ Len(q) \in Nat
        /\ Bucket(s) \in Buckets /\ Bucket(x) \in Buckets
        /\ i \in 1 .. Len(q) /\ q[i] = Live(s) /\ j \in 1 .. Len(r) /\ r[j] = Live(s)
    BY BucketType DEF QueueInv, TypeOK, Stays
  <1>2. CASE Request(x)
    <2>1. s # x
      BY <1>1, <1>2, LiveIsWaiting DEF Request
    <2>2. r = q \/ r = Append(q, [shard |-> x, live |-> TRUE])
      BY <1>1, <1>2 DEF Request
    <2>3. Live(s) # [shard |-> x, live |-> TRUE]
      BY <2>1 DEF Live
    <2> HIDE DEF q, r
    <2>4. CASE r = q
      BY <1>1, <2>4, OneLivePlace DEF q
    <2>5. CASE r = Append(q, [shard |-> x, live |-> TRUE])
      <3>1. j \in 1 .. Len(q) \/ j = Len(q) + 1
        BY <1>1, <2>5
      <3>2. j \in 1 .. Len(q) /\ q[j] = Live(s)
        BY <1>1, <2>3, <2>5, <3>1
      <3> QED BY <1>1, <3>2, OneLivePlace DEF q
    <2> QED BY <2>2, <2>4, <2>5
  <1>3. CASE Drop(x)
    <2>1. \/ r = q
          \/ r = [k \in 1 .. Len(q) |->
                    IF q[k].shard = x THEN [q[k] EXCEPT !.live = FALSE] ELSE q[k]]
      BY <1>1, <1>3 DEF Drop
    <2>2. \A k \in 1 .. Len(q) : q[k] \in Requests
      BY <1>1
    <2> HIDE DEF q, r
    <2>3. CASE r = q
      BY <1>1, <2>3, OneLivePlace DEF q
    <2>4. CASE r = [k \in 1 .. Len(q) |->
                      IF q[k].shard = x THEN [q[k] EXCEPT !.live = FALSE] ELSE q[k]]
      <3>1. j \in 1 .. Len(q)
        BY <1>1, <2>4
      <3>2. q[j].shard # x
        <4> SUFFICES ASSUME q[j].shard = x PROVE FALSE
          OBVIOUS
        <4>1. r[j] = [q[j] EXCEPT !.live = FALSE]
          BY <2>4, <3>1
        <4>2. ~r[j].live
          BY <2>2, <3>1, <4>1 DEF Requests
        <4> QED BY <1>1, <4>2 DEF Live
      <3>3. q[j] = Live(s)
        BY <1>1, <2>4, <3>1, <3>2
      <3> QED BY <1>1, <3>1, <3>3, OneLivePlace DEF q
    <2> QED BY <2>1, <2>3, <2>4
  <1> QED BY <1>2, <1>3

\* An answer costs those behind it a place and brings them a sleep.
LEMMA AnswerLeft ==
    ASSUME QueueInv, NEW b \in Buckets, Answer(b),
           NEW s \in Shards, NEW i, NEW j, Stays(s, i, j)
    PROVE  Left(Bucket(s), j)' <= Left(Bucket(s), i)
  <1> DEFINE q == queue[Bucket(s)]
             r == queue'[Bucket(s)]
  <1>1. /\ queue \in [Buckets -> Seq(Requests)] /\ q \in Seq(Requests) /\ Len(q) \in Nat
        /\ sleeping \in [Buckets -> 0 .. Wait] /\ sleeping[Bucket(s)] \in 0 .. Wait
        /\ Bucket(s) \in Buckets /\ Wait \in Nat
        /\ i \in 1 .. Len(q) /\ q[i] = Live(s) /\ j \in 1 .. Len(r) /\ r[j] = Live(s)
    BY BucketType, IdentifyQueueAssumption DEF QueueInv, TypeOK, Stays
  <1>2. /\ queue' = [queue EXCEPT ![b] = Tail(@)] /\ queue[b] # <<>>
        /\ sleeping[b] = 0 /\ sleeping' = [sleeping EXCEPT ![b] = Wait]
    BY DEF Answer
  <1>3. CASE Bucket(s) # b
    <2>1. r = q /\ sleeping'[Bucket(s)] = sleeping[Bucket(s)]
      BY <1>1, <1>2, <1>3
    <2>2. i = j
      BY <1>1, <2>1, OneLivePlace
    <2>3. sleeping[Bucket(s)] + (i - 1) * Wait \in Int
      BY <1>1
    <2> QED BY <2>1, <2>2, <2>3 DEF Left
  <1>4. CASE Bucket(s) = b
    <2>1. /\ r = Tail(q) /\ q # <<>> /\ sleeping[Bucket(s)] = 0
          /\ sleeping'[Bucket(s)] = Wait
      BY <1>1, <1>2, <1>4
    <2> HIDE DEF q, r
    <2>2. j + 1 \in 1 .. Len(q) /\ q[j + 1] = Live(s) /\ j \in Nat
      BY <1>1, <2>1
    <2>3. i = j + 1
      BY <1>1, <2>2, OneLivePlace DEF q
    <2>4. Left(Bucket(s), j)' = Wait + (j - 1) * Wait /\ Left(Bucket(s), i) = 0 + j * Wait
      BY <2>1, <2>2, <2>3 DEF Left
    <2>5. Wait + (j - 1) * Wait = 0 + j * Wait /\ 0 + j * Wait \in Int
      BY <1>1, <2>2
    <2> QED BY <2>4, <2>5
  <1> QED BY <1>3, <1>4

\* What a shard that waits may still have to wait never grows, however many others ask, are
\* answered and give up, and a tick for which its waiter sleeps takes one tick off it.  So a
\* shard that asks finds its answer after at most SHARDS_WAIT for each request ahead of it
\* and the rest of one sleep: those who come later, in whatever numbers, cost it nothing.
THEOREM WaitNeverGrows ==
    Spec => [][\A s \in Shards : \A i \in 1 .. Len(queue[Bucket(s)]) :
                 \A j \in 1 .. Len(queue'[Bucket(s)]) :
                    queue[Bucket(s)][i] = Live(s) /\ queue'[Bucket(s)][j] = Live(s) =>
                       /\ Left(Bucket(s), j)' <= Left(Bucket(s), i)
                       /\ Tick /\ sleeping[Bucket(s)] > 0 =>
                             Left(Bucket(s), j)' = Left(Bucket(s), i) - 1]_vars
  <1> DEFINE Step ==
        \A s \in Shards : \A i \in 1 .. Len(queue[Bucket(s)]) :
           \A j \in 1 .. Len(queue'[Bucket(s)]) :
              queue[Bucket(s)][i] = Live(s) /\ queue'[Bucket(s)][j] = Live(s) =>
                 /\ Left(Bucket(s), j)' <= Left(Bucket(s), i)
                 /\ Tick /\ sleeping[Bucket(s)] > 0 =>
                       Left(Bucket(s), j)' = Left(Bucket(s), i) - 1
  <1>1. QueueInv /\ [Next]_vars => [Step]_vars
    <2> SUFFICES ASSUME QueueInv, Next, NEW s \in Shards, NEW i \in 1 .. Len(queue[Bucket(s)]),
                        NEW j \in 1 .. Len(queue'[Bucket(s)]), Stays(s, i, j)
                 PROVE /\ Left(Bucket(s), j)' <= Left(Bucket(s), i)
                       /\ Tick /\ sleeping[Bucket(s)] > 0 =>
                             Left(Bucket(s), j)' = Left(Bucket(s), i) - 1
      BY DEF Stays
    <2>0. /\ sleeping \in [Buckets -> 0 .. Wait] /\ Bucket(s) \in Buckets /\ Wait \in Nat
          /\ sleeping[Bucket(s)] \in 0 .. Wait /\ i \in Int
      BY BucketType, IdentifyQueueAssumption DEF QueueInv, TypeOK
    <2>1. (i - 1) * Wait \in Int
      BY <2>0
    <2>2. CASE Tick
      <3>1. queue' = queue
        BY <2>2 DEF Tick
      <3>2. i = j
        BY <3>1, OneLivePlace DEF Stays
      <3>3. sleeping'[Bucket(s)] =
               IF sleeping[Bucket(s)] > 0 THEN sleeping[Bucket(s)] - 1 ELSE 0
        BY <2>0, <2>2 DEF Tick
      <3> QED BY <2>0, <2>1, <3>2, <3>3 DEF Left
    <2>3. CASE ~Tick /\ \E x \in Shards : Request(x) \/ Drop(x)
      <3>1. i = j /\ sleeping' = sleeping
        BY <2>3, PlaceKept DEF Request, Drop
      <3> QED BY <2>0, <2>1, <2>3, <3>1 DEF Left
    <2>4. CASE ~Tick /\ \E x \in Shards : Identify(x)
      <3>1. queue' = queue /\ sleeping' = sleeping
        BY <2>4 DEF Identify
      <3>2. i = j
        BY <3>1, OneLivePlace DEF Stays
      <3> QED BY <2>0, <2>1, <2>4, <3>1, <3>2 DEF Left
    <2>5. CASE ~Tick /\ \E b \in Buckets : Answer(b)
      BY <2>5, AnswerLeft
    <2> QED BY <2>2, <2>3, <2>4, <2>5 DEF Next
  <1> QED BY <1>1, QueueAlways, PTL DEF Spec
=============================================================================
