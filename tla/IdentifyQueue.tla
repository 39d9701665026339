--------------------------- MODULE IdentifyQueue ----------------------------
(***************************************************************************)
(* The queues of cluster.rs that space out the identifies of shards.       *)
(*                                                                         *)
(* A shard that is to identify calls `request` and waits for an answer.    *)
(* There are SHARDS_CONCURRENCY buckets, each an unbounded channel with a  *)
(* `waiter` task that answers one request and then sleeps for SHARDS_WAIT. *)
(* LocalQueue is the case of one bucket.  A shard that is shut down while  *)
(* it waits drops its receiver and leaves its request in the channel.      *)
(*                                                                         *)
(* Time passes in ticks; nothing bounds how long a task that can run takes *)
(* to do so.                                                               *)
(***************************************************************************)
EXTENDS Integers, Sequences

CONSTANTS
    Shards,         \* the shards of all clusters: one queue serves them all
    Concurrency,    \* SHARDS_CONCURRENCY
    Wait,           \* SHARDS_WAIT, in ticks
    MaxQueue        \* bound on the length of a channel, in the model only

ASSUME IdentifyQueueAssumption ==
    /\ Shards \subseteq Nat
    /\ Concurrency \in Nat \ {0}
    /\ Wait \in Nat
    /\ MaxQueue \in Nat

VARIABLES
    queue,      \* the requests in the channel of each bucket
    sleeping,   \* the ticks each waiter has still to sleep
    shard,      \* what each shard is doing
    since       \* auxiliary: ticks since the last answer of each bucket, up to Wait

vars == <<queue, sleeping, shard, since>>

Buckets == 0 .. Concurrency - 1
Bucket(s) == s % Concurrency

\* A request; it is live until its shard drops the receiver.
Requests == [shard : Shards, live : BOOLEAN]

ShardStates == {"off", "waiting", "identifying"}
-----------------------------------------------------------------------------
Init ==
    /\ queue = [b \in Buckets |-> <<>>]
    /\ sleeping = [b \in Buckets |-> 0]
    /\ shard = [s \in Shards |-> "off"]
    /\ since = [b \in Buckets |-> Wait]

\* `request`: a shard sends the sender of a oneshot channel and awaits the receiver.
Request(s) ==
    /\ shard[s] = "off"
    /\ Len(queue[Bucket(s)]) < MaxQueue
    /\ queue' = [queue EXCEPT ![Bucket(s)] = Append(@, [shard |-> s, live |-> TRUE])]
    /\ shard' = [shard EXCEPT ![s] = "waiting"]
    /\ UNCHANGED <<sleeping, since>>

\* Mutant of Drop: the request stays live.
DropNothing(s) ==
    /\ shard[s] = "waiting"
    /\ shard' = [shard EXCEPT ![s] = "off"]
    /\ UNCHANGED <<queue, sleeping, since>>

\* The future of `request` is dropped, and with it the receiver.
Drop(s) ==
    /\ shard[s] = "waiting"
    /\ queue' = [queue EXCEPT ![Bucket(s)] =
                    [j \in 1 .. Len(@) |-> IF @[j].shard = s THEN [@[j] EXCEPT !.live = FALSE]
                                           ELSE @[j]]]
    /\ shard' = [shard EXCEPT ![s] = "off"]
    /\ UNCHANGED <<sleeping, since>>

\* Mutants of Answer: the waiter sleeps too long after a request nobody listens to any
\* more; it does not sleep; it ends when nobody listens.
AnswerLongSleep(b) ==
    /\ sleeping[b] = 0
    /\ queue[b] # <<>>
    /\ queue' = [queue EXCEPT ![b] = Tail(@)]
    /\ LET req == Head(queue[b]) IN
          IF req.live
          THEN /\ shard' = [shard EXCEPT ![req.shard] = "identifying"]
               /\ since' = [since EXCEPT ![b] = 0]
               /\ sleeping' = [sleeping EXCEPT ![b] = Wait]
          ELSE /\ sleeping' = [sleeping EXCEPT ![b] = 2 * Wait]
               /\ UNCHANGED <<shard, since>>

AnswerNoSleep(b) ==
    /\ queue[b] # <<>>
    /\ queue' = [queue EXCEPT ![b] = Tail(@)]
    /\ LET req == Head(queue[b]) IN
          IF req.live
          THEN /\ shard' = [shard EXCEPT ![req.shard] = "identifying"]
               /\ since' = [since EXCEPT ![b] = 0]
          ELSE UNCHANGED <<shard, since>>
    /\ UNCHANGED sleeping

AnswerLiveOnly(b) ==
    /\ sleeping[b] = 0
    /\ queue[b] # <<>>
    /\ Head(queue[b]).live
    /\ queue' = [queue EXCEPT ![b] = Tail(@)]
    /\ sleeping' = [sleeping EXCEPT ![b] = Wait]
    /\ shard' = [shard EXCEPT ![Head(queue[b]).shard] = "identifying"]
    /\ since' = [since EXCEPT ![b] = 0]

\* Mutant of Answer: the latest request is taken first.
AnswerLatest(b) ==
    /\ sleeping[b] = 0
    /\ queue[b] # <<>>
    /\ queue' = [queue EXCEPT ![b] = SubSeq(@, 1, Len(@) - 1)]
    /\ sleeping' = [sleeping EXCEPT ![b] = Wait]
    /\ LET req == queue[b][Len(queue[b])] IN
          IF req.live
          THEN /\ shard' = [shard EXCEPT ![req.shard] = "identifying"]
               /\ since' = [since EXCEPT ![b] = 0]
          ELSE UNCHANGED <<shard, since>>

\* `waiter` takes a request, answers it if anybody still listens, and sleeps in any case.
Answer(b) ==
    /\ sleeping[b] = 0
    /\ queue[b] # <<>>
    /\ queue' = [queue EXCEPT ![b] = Tail(@)]
    /\ sleeping' = [sleeping EXCEPT ![b] = Wait]
    /\ LET req == Head(queue[b]) IN
          IF req.live
          THEN /\ shard' = [shard EXCEPT ![req.shard] = "identifying"]
               /\ since' = [since EXCEPT ![b] = 0]
          ELSE UNCHANGED <<shard, since>>

\* An answered shard identifies; it asks again when it next has to identify.
Identify(s) ==
    /\ shard[s] = "identifying"
    /\ shard' = [shard EXCEPT ![s] = "off"]
    /\ UNCHANGED <<queue, sleeping, since>>

\* Time passes.
Tick ==
    /\ \E b \in Buckets : sleeping[b] > 0 \/ since[b] < Wait
    /\ sleeping' = [b \in Buckets |-> IF sleeping[b] > 0 THEN sleeping[b] - 1 ELSE 0]
    /\ since' = [b \in Buckets |-> IF since[b] < Wait THEN since[b] + 1 ELSE Wait]
    /\ UNCHANGED <<queue, shard>>

Next ==
    \/ \E s \in Shards : Request(s) \/ Drop(s) \/ Identify(s)
    \/ \E b \in Buckets : Answer(b)
    \/ Tick

Spec == Init /\ [][Next]_vars

\* The waiters are tokio tasks and the clock runs; no shard need ask or give up.
FairSpec == Spec /\ WF_vars(Tick) /\ \A b \in Buckets : WF_vars(Answer(b))
-----------------------------------------------------------------------------
(* Properties. *)

\* Channels hold requests, timers stay within SHARDS_WAIT.
TypeOK ==
    /\ queue \in [Buckets -> Seq(Requests)]
    /\ sleeping \in [Buckets -> 0 .. Wait]
    /\ shard \in [Shards -> ShardStates]
    /\ since \in [Buckets -> 0 .. Wait]

\* Two answers of a bucket are at least SHARDS_WAIT apart, whoever asks, gives up and asks
\* again in between: the limit Discord puts on identifies, as far as the queue keeps it.
Spaced ==
    [][\A s \in Shards :
          shard[s] = "waiting" /\ shard'[s] = "identifying" => since[Bucket(s)] = Wait]_vars

\* A waiting shard has exactly one live request, in the channel of its bucket, and no
\* other shard does: no shard waits for an answer nobody owes it, and none that has
\* given up and asked again is answered twice.
OneLiveRequest ==
    \A s \in Shards, b \in Buckets :
        LET live == {j \in 1 .. Len(queue[b]) : queue[b][j].shard = s /\ queue[b][j].live}
        IN IF shard[s] = "waiting" /\ b = Bucket(s) THEN \E j \in live : live = {j}
           ELSE live = {}

\* The live request of s comes before that of t in the channel of their bucket.
Ahead(s, t) ==
    LET requests == queue[Bucket(s)] IN
    /\ Bucket(s) = Bucket(t)
    /\ \E j \in 1 .. Len(requests) : \E i \in 1 .. j - 1 :
          /\ requests[i] = [shard |-> s, live |-> TRUE]
          /\ requests[j] = [shard |-> t, live |-> TRUE]

\* First come, first served: a shard that asks comes after all those of its bucket that
\* wait, none is answered before one that is ahead of it, and none overtakes another as
\* long as both wait.  One that gives up and asks again has lost its place.
InTurn ==
    [][\A s, t \in Shards :
          /\ (/\ Bucket(s) = Bucket(t)
              /\ shard[s] = "waiting" /\ shard[t] # "waiting" /\ shard'[t] = "waiting")
                => Ahead(s, t)'
          /\ Ahead(s, t) =>
                /\ shard'[t] # "identifying"
                /\ shard'[s] = "waiting" /\ shard'[t] = "waiting" => Ahead(s, t)']_vars

\* A shard that asks is answered unless it gives up, even though the requests of shards
\* that gave up cost a full wait each.
EveryRequestAnswered ==
    \A s \in Shards : shard[s] = "waiting" ~> shard[s] # "waiting"
=============================================================================
