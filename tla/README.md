# A TLA+ verification of twilight-dispatch

twilight-dispatch connects a Discord bot to the gateway. It runs the bot's
shards, keeps a cache of Discord's state in Redis, publishes the gateway's
events to RabbitMQ and passes commands from RabbitMQ to the gateway. This
directory models the parts of it in which something is shared, concurrent or
computed, checks them with TLC on small instances, and proves the most important
results with TLAPS for every instance. `PROJECT.json` relates every definition
to the lines of the code it models.

## Inventory

| Component | State | Operations | Interaction |
|---|---|---|---|
| State cache keys (`constants.rs`, `set_all`/`del_all` of `cache.rs`) | none | build a key, translate it to its stored form, derive its helper sets | used by the cache |
| State cache (`cache.rs`) | Redis: objects, helper sets `*_keys`, hash `expiry_keys` | `update` with 24 kinds of event, `set_all`, `del_all`, `expire_all`, `clear_guild` | called by every event's handler, concurrently |
| Expiry job (`cache::run_jobs`) | the same | read `expiry_keys`, delete the expired keys | races with the handlers |
| Outgoing loop (`handler::outgoing`) | counters | take an event, update the cache, count, publish to RabbitMQ | one per cluster; one spawned task per event |
| Incoming loop (`handler::incoming`) | none | consume, acknowledge, route to a cluster, send or reconnect | RabbitMQ and the clusters |
| Cluster start-up (`cluster::get_clusters`) | the clusters | load sessions, divide the shards, build clusters | before everything else |
| Identify queue (`LocalQueue`, `LargeBotQueue`, `waiter`) | a channel per bucket | request, answer, sleep | one queue for all shards |
| Sessions (`main.rs`, `cache::run_jobs`, `get_clusters`) | Redis: `gateway_sessions`, `gateway_shards` | dump at intervals and at shutdown, load at start-up | across restarts |
| Metrics (`metrics.rs`) | gauges | copy set sizes and shard states at intervals, serve them | reads Redis and the clusters |
| Configuration, models, utilities | none | read the environment, (de)serialise, declare queues, log | |

What is hard here:

* **Concurrency.** `outgoing` spawns a task for every event except that it
  awaits the cache update of Ready. A cache update is a sequence of Redis
  commands with an await at each, so the updates of events that arrive close
  together interleave command by command, with each other and with the expiry job.
* **Two representations.** An object and its membership in helper sets are
  written by different commands. `clear_guild` depends on the helper sets being
  right; nothing makes them right except that every path updates both.
* **Two forms of a key.** `set_all` and `del_all` store the channel of a guild
  without its guild; `get` does not translate.
* **Failure.** A Redis error ends an update in the middle, except in
  `clear_guild`, which ignores two of its errors. The process ends without waiting
  for its tasks; Redis keeps what they did.
* **Messages.** RabbitMQ delivers again what was not acknowledged; `incoming`
  acknowledges before it acts. Discord replays what follows the sequence it is told.
* **Restarts.** What a process knows of its sessions reaches Redis every second and
  at shutdown, in a key that several processes may share. It counts events that are still
  in a stream or with a task.
* **Time.** Entries expire by wall-clock time, identifies are spaced by sleeps.

What makes the components correct:

* cache: it converges to what the events say; the helper sets name what is
  cached, no more and no less; what is to expire does; the old state returned is
  the state before the event; Ready replaces nothing newer;
* identify queue: answers of a bucket are spaced, each waiting shard is owed one
  answer, and gets it;
* start-up: the shards are partitioned evenly, also when there are more clusters
  than shards;
* outgoing loop: dispatch events are published once each, the counters agree, and
  nothing overtakes a Ready;
* incoming loop: a command is handled at most once, in order, and does not vanish;
* sessions: a restart skips no event that was never received, resumes nothing of another
  sharding, and catches up;
* metrics: a gauge shows what was true when it was read.

`PROJECT.json` lists these as hazards, at the lines where they bite.

## Modules

| Module | Models | Extends |
|---|---|---|
| `Keyspace` | keys, their stored form, helper sets | |
| `GatewayEvents` | the events, reduced to what `update` reads of them (external) | `Keyspace` |
| `CacheUpdate` | `cache::update` as a table of operations per kind, and what each event means | `GatewayEvents` |
| `StateCache` | the Redis commands, the loop, the tasks, the purge, faults and restarts | `CacheUpdate` |
| `MCStateCache` | instances of `StateCache` for TLC | `StateCache` |
| `IdentifyQueue` | the queues of `cluster.rs` | |
| `ShardRanges`, `MCShardRanges` | the division of shards in `get_clusters`; its instances | |
| `EventFeed` | abstract: what clients that read the queue may rely on | |
| `Dispatch` | `outgoing`: stream, loop, tasks, counters, exchange, as an implementation of `EventFeed` | |
| `CommandPromise` | abstract: what clients of `gateway.send` may rely on | |
| `Delivery`, `MCDelivery` | `incoming` with the broker and the shards, as an implementation of `CommandPromise`; its instances | |
| `Sessions`, `MCSessions` | start-up, dumps, shutdown and crashes of processes on one Redis, with Discord's sessions; its instances | |
| `Metrics`, `MCMetrics` | `run_jobs` of `metrics.rs`; its instance | |
| `StateCacheProofs` | lemmas about the scripts of `CacheUpdate` (their operations, their order); theorems: types, `ReadyNeverClobbers`, the helper sets and the cache | `StateCache` |
| `ConvergenceProofs` | theorems: what expires is tracked, the cache converges, old values are the previous ones | `StateCacheProofs` |
| `IdentifyQueueProofs`, `ShardRangesProofs`, `DispatchProofs`, `DeliveryProofs`, `SessionsProofs`, `MetricsProofs` | theorems about those modules | |

### The state cache

A key is the tuple of its parts, `"role:1:7"` being `<<"role", 1, 7>>`, because
the code looks at keys only through `split(':')`. `StoredKey` is `new_key` of
`set_all` and `del_all`; `IndexesOf` and `MembersFor` are their `members` map.

An object is reduced to the number of the event that wrote it: the properties
need to tell old from new and present from absent, not more.

`CacheUpdate!Arm` gives, for each kind of event, the operations of its arm of
`update` in order, and `Handled` and `Cached` the settings that switch them off.
A *worker* of `StateCache` (a task, the loop while it awaits Ready, or the purge)
holds an event, the operation it executes and those that follow. Each action is
one Redis command: `Mset` and `Sadd` are `set_all`; `Delete` and `Srem` are
`del_all`; `Hset` is `expire_all`; `Get`, `GetAll`, `Modify`, `GetMembers`,
`ClearGet`, `GetEmojiKeys` and `GetEmojis` are the reads, after which the arm
decides how it goes on. The helper sets come out of a `HashMap`, so `Sadd` and
`Srem` take them in any order. `Scan`, `Delete`, `Srem`, `Hdel` are the expiry job.
`Fail` is an error of the current command, `Restart` the end of the process at any
point and its next start. One cluster's loop is modelled; the loops of several
clusters behave as more tasks, except that each awaits its own Ready.

Four variables record history and guard nothing. `ref` is the cache had every
event been applied at once, in gateway order: the abstract specification against
which `ConvergesToReference` and `OldIsPrevious` are stated, defined in
`CacheUpdate!Applied` from what an event means, apart from the scripts. `raced`,
`drift` and `untracked` collect the keys for which the code promises nothing:

* `raced`: handlers of two events that both concern the key overlapped, or one
  failed before it was done;
* `drift`: a `set_all` of the key began while another worker was between the two
  halves of a `del_all` of it, or the reverse, or one of them was cut short; the
  next undisturbed write or deletion takes the key out again;
* `untracked`: the key was written while the purge was between deleting it and
  deleting its expiry, or its writer failed before it recorded the expiry; the next
  undisturbed refresh takes it out again.

A property that excuses these keys says exactly which interleavings can go
wrong; `unlisted_key` below shows one that does.

### The identify queue and the shard ranges

`IdentifyQueue` has a channel and a `waiter` per bucket; `LocalQueue` is the case
of one bucket. A shard that is shut down drops its receiver, and its request stays
in the channel, dead. Time passes in ticks. The queue spaces its answers; how soon
an answered shard identifies is up to twilight.

`ShardRanges` follows the loop of `get_clusters`, with the arithmetic of
`base`, `extra` and `last_index`, for any settings with
SHARDS_START <= SHARDS_END; CLUSTERS = 0 panics in the division.

### The outgoing loop

`StateCache` follows a cache update command by command and takes the rest of
`outgoing` for granted; `Dispatch` is the other way round: an update is one step that
finds the previous state or does not, and what is followed is the two items that
twilight puts into the stream for a message, the raw payload and the parsed event.
`Take` is the head of the loop, `ReadyUpdated` the end of the update it awaits; a task
runs `Update`, then `Count` (a parsed event) or `Decode` and `Publish` (a payload).
`PublishFails` is a failure to serialise as well as one to publish, both of which are
only logged. `updated`, `failed` and `olds` record history.

`EventFeed` is the abstract specification: an event that is received is due, until it is
published, once, or given up for a failure. The refinement maps `due` to `Due`, the dispatch
events whose payload is in the stream or with a task. `KeepsFeed` is checked by TLC and
proved.

### The delivery of commands

`Delivery` has the queue `gateway.send`, and per process the state of its consumer, the
messages in its stream (`buffer`) and the one it has acknowledged (`current`). `Take`
is `consumer.next()` and `basic_ack`; `Handle` the rest of the loop's body, with
`Result` for what it does with a command. `Break` loses the connection: the broker has
the unacknowledged messages ready again, while the process still handles the ones in
its stream, and then returns. Processes start and end at any time. An acknowledgement
sent just before a connection breaks counts as received; one that is lost is the
`Break` before the `Take`.

`CommandPromise` is the abstract specification: commands pass from the broker to a
process, once, unless a connection gives them back. The refinement maps `queued` to
what is ready or unacknowledged, and `owed` to what a process holds that the broker
no longer waits for. `KeepsPromise` is checked by TLC and proved.

### The sessions

A process of `Sessions` goes through `Start` (GET gateway_shards), `Load` (GET
gateway_sessions), `Announce` (SET gateway_shards, and the spawns), then runs until
`CtrlC` (`down_resumable`) and `Save` (SET gateway_sessions), or `End`s anywhere on the
way. `Collect` and `Dump` are one round of `run_jobs`, with the await between them;
they go on until the process is gone, also between `Save` and `End`. A shard starts
with the session it was given, if any, and resumes it if Discord still has it. Discord
numbers the events of a session, from 1 (Ready) on. A shard that receives one counts it, which
is what is saved, and sends it into the `stream` (`Receive`); the loop of `outgoing` takes it
from there when it gets to it (`Take`), perhaps long after, since it awaits the cache update of
each Ready, and its task then has it `inflight` until `Publish`. A cluster's stream is modelled
shard by shard, since no property depends on the order of events of different
shards. A session without id, which `run_jobs` writes for a shard that has none yet, is id 0.

`published` and `dropped` record what became of the events; those of a process that ends
are dropped, from its streams and its tasks. `NothingSkipped` says that a position is not
ahead of what was received; that what it covers was published is what the README of the
repository says and `lost_in_flight` refutes. `behind` says that
`gateway_sessions` was not written under the number that `gateway_shards` now has: a process
announced another one since, or a process with an older one wrote after it. A process
that starts then takes the sessions for those of its own `SHARDS_TOTAL` (`tainted`), the one
case in which `SameSharding` promises nothing.

### The metrics

A round of `Metrics` counts the shards, asks each for its stage (`Ask`), sets the
gauges of the stages (`SetStatus`), reads the sizes of the helper sets one by one
(`Scard`) and sets their gauges (`Report`), while shards and sets change (`Change`,
`Resize`). `seen` and `source` record the sizes a set has had in the round.

## Runs

| Run | Bounds | Checks | States |
|---|---|---|---|
| `guild_lifecycle` | 1 guild, 1 channel, 2 tasks, 3 events of 6 kinds | `TypeOK`, `IndexCoversStore`, `ConvergesToReference`, `ReadyNeverClobbers` | 419,000 |
| `expiring_objects` | 1 member, 2 tasks, 3 events of 3 kinds, fairness | `IndexHasNoGhosts`, `ExpiryTracked`, `EvictedEventually` | 325,000 |
| `every_kind` | 1 object of each kind, 1 task, 2 events of all 24 kinds | `ConvergesToReference`, `OldIsPrevious` | 244,000 |
| `faults_and_restarts` | 1 guild, 1 user, 1 task, 2 events of 4 kinds, faults | `IndexCoversStore`, `ConvergesToReference` | 354,000 |
| `identify_queue` | 3 shards, 2 buckets, a wait of 2, 3 requests per channel, fairness | `TypeOK`, `OneLiveRequest`, `Spaced`, `InTurn`, `EveryRequestAnswered` | 11,300 |
| `shard_ranges` | shards 0 to 9, 0 to 12 clusters | `TypeOK`, `NoShardTwice`, `EveryShardServed`, `Balanced` | 10,700 |
| `dispatch` | 3 messages of 5 kinds, faults, fairness | `TypeOK`, `DispatchesOnce`, `CountedIsPublished`, `ReadyIsBarrier`, `KeepsFeed`, `EventuallyPublished` | 209,000 |
| `delivery` | 1 process, its shard and one nobody runs, 3 commands of 4, 2 starts, broken connections, fairness | `TypeOK`, `AtMostOnce`, `Accounted`, `KeepsPromise`, `InOrder`, `HandledWhileOpen` | 324,000 |
| `sessions` | 1 process, 1 shard, 2 values of SHARDS_TOTAL, 3 starts, 2 events per session, crashes, fairness | `TypeOK`, `NothingSkipped`, `SameSharding`, `SavedNeverBack`, `CaughtUp` | 707,000 |
| `metrics` | 2 shards, 2 stages, 2 helper sets, 2 rounds, faults | `TypeOK`, `GaugesWereTrue`, `StagesAddUp` | 218,000 |

Why the bounds are enough to be interesting: two tasks, the loop and the purge
make every pairwise overlap of updates with each other and with the purge, which
is all the helper sets and the expiry can tell apart; three events allow a key to
be written, disturbed and repaired. `every_kind` trades concurrency for breadth:
each arm runs on a cache that each arm may have left, with the purge around it.
Its one channel is private, because reads of a guild's channel fail (below). With
two shards in one bucket and one in the other, the queue has contention and
independence; twelve clusters exceed ten shards. Three messages are a Ready with one
on each side; three commands allow one to be handled from a broken stream while the
broker gives it back, with others before and behind it; three starts allow a process to
resume from what a process left that had itself resumed, and a crash in between. Bounds
in the guards are `MaxEvents` (of a behaviour, or of a session), `MaxQueue` (requests in
a channel), `MaxMessages`, `MaxCommands`, `MaxStarts`, `MaxSessions` (beyond which
Discord gives up no live session), `MaxSize` and `MaxRounds`.
Interchangeable tasks are a symmetry set in `guild_lifecycle`, which has no liveness property.
Several processes on one queue or one Redis are covered by the theorems about `Delivery`
and `Sessions`, which hold for any number of them, except that `InOrder` is about one
process; the liveness properties are checked for one process only. `ExpiryTracked` is checked
without faults and proved with them.

Deadlock is not checked where a behaviour ends once its events, messages, commands,
starts or rounds are used up, nor for `ShardRanges`, which ends when `get_clusters` does.
The queue must never stop, and there it is checked.

Fairness: in `expiring_objects`, each worker's next command, its completion, the purge's
next round and the passing of time are weakly fair, since tokio polls every task
that can go on, `run_jobs` loops for ever and Redis answers; that events arrive is
not assumed. In `identify_queue`, the waiters and the clock are weakly fair; that
a shard asks, gives up or identifies is not assumed. In `dispatch`, the loop
and every task are weakly fair. In `delivery`, so are the broker's pushing, `incoming`, and twilight's connecting of a shard
that is down; nothing is assumed of clients, of connections to the broker or of the end
of processes, and `HandledWhileOpen` asks only for the time a subscription lasts. In
`sessions`, shards start (the identify queue answers), Discord answers a handshake,
events are received, `outgoing` takes what is in its streams (Redis answers or fails the
updates of Ready it awaits) and tasks end; `CaughtUp` is about processes that are left running.

### Where the code departs from its documentation

Two runs state what the README of the repository says, and find it violated:

* `old_in_queue` (`OldInQueue`): the task that publishes a payload never has the old
  state, which only the task of the parsed event reads.
* `lost_in_flight` (`NotASingleEventLost`): the sequence saved at Ctrl-C includes the
  events that are in the streams of `outgoing` and with its tasks, which end with the process.

The other departures follow from what a module says already, and a configuration beside
it shows each (`tlc -config <name>.cfg <module>` ends in the violation):

| Configuration | Module | Property | What happens |
|---|---|---|---|
| `unlisted_key` | `MCStateCache` | `StoredKeysAreListed` | ChannelDelete and ChannelCreate of one channel overlap as DEL, MSET, SADD, SREM; the channel is cached, but in no helper set, so `clear_guild` will not find it |
| `guild_set_leak` | `MCStateCache` | `GuildSetListsCachedKeys` | with no overlap at all, `clear_guild` deletes the guild's channels under their stored keys, which do not name the guild, so they stay in `guild_keys:g` |
| `previous_state` | `MCStateCache` | `OldIsPrevious` | ChannelUpdate and ChannelDelete look for the old state of a guild's channel under its event key, and never find it |
| `channel_pins` | `MCStateCache` | `ConvergesToReference` | for the same reason ChannelPinsUpdate of a guild's channel does nothing |
| `false_joins` | `MCStateCache` | `JoinsMatchLeaves` | the GuildDelete of an outage clears the guild and counts no leave; the GuildCreate after it is counted as a join |
| `late_dump` | `MCSessions` | `SessionsResumed` | a dump of `run_jobs` that was collected earlier is written after the sessions saved at Ctrl-C, and lacks a session |
| `shared_redis` | `MCSessions` | `SavedUntilRestart` | of two processes on one Redis, the one that runs overwrites what the one that was stopped has saved |
| `shared_queue` | `MCDelivery` | `NotTurnedAway` | of two processes on one queue, the one without the shard takes the command and drops it |
| `consumer_ends` | `MCDelivery` | `Forwarded` | once the connection to RabbitMQ is lost, `incoming` has returned for good |
| `reconnect` | `MCDelivery` | `ShardComesBack` | Reconnect shuts the shard down |
| `gauge_of_connections` | `MCMetrics` | `ConnectionsOnly` | shards are counted as connections before they have any |

The mutants of `PROJECT.json` replace one definition of a module by a plausible
mistake, and the property named must then fail: each property depends on the code.

## Proofs

All theorems hold for every value of the constants that satisfies the
assumptions of the modules (`KeyspaceAssumption`, `SettingsAssumption`,
`StateCacheAssumption`, `IdentifyQueueAssumption`, `ConfigsAssumption`,
`DispatchAssumption`, `DeliveryAssumption`, `SessionsAssumption`, `MetricsAssumption`): any
number of keys, tasks, events, processes, shards and commands, any settings, faults or
none. Three theorems have a hypothesis of their own (`CacheConverges`, `OldValuesArePrevious`,
`DeliveryInOrder`), named with them below.

* `TypeCorrect`: `Spec => []TypeOK` for the cache. The strengthening `TypeInv`
  says that each worker's event is well-formed and its remaining operations are
  in `Plan` of that event; `ScriptPlanned` shows that each arm yields such
  operations.
* `ReadyIsSafe`: `Spec => ReadyNeverClobbers`. `ReadyInv` adds that event numbers
  are bounded by `received`, and that while the loop holds Ready no worker has a
  later event, so whatever Ready overwrites is older.
* `StoreIsIndexed` and `NoGhosts`: `IndexCoversStore` and `IndexHasNoGhosts` are
  invariants. Neither is inductive. What is missing is what a worker in the middle
  of a `set_all` or `del_all` has done already: `AddedIsThere` (the sets no longer
  in `left` have the key) and `RemovedIsGone` (they do not). Steps
  that touch neither the cache nor the sets are dealt with once, by `Quiet`.
* `ExpiryIsTracked`: `Spec => []ExpiryTracked`. It rests, as do the next two, on the order
  of the operations of an update, which `TypeInv` does not have. `InOrder` of
  `StateCacheProofs` says of the operation under way and those left that each acts on keys
  its event is about (`Fits`) and of any two of them that the second does not remove what
  the first wrote, does not read after a write, and that the writing of an object that
  expires is followed by `expire_all` of it (`Before`). Every arm yields operations in
  order, and every read goes on with operations in order (`Steady`); so it is also known,
  for every worker, what it has yet to write, to remove and to read (`ToWrite`, `ToRemove`,
  `ToRead`). `GuildSetsSound` says that the helper set of a guild names objects of that
  guild only, without which `clear_guild` might delete anything. To this, `PurgeTracked` adds
  that a key written while the purge is at it counts as untracked.
* `Convergence`: `Spec => []Converges`, the property `ConvergesToReference` for all keys
  except, if there are ChannelPinsUpdates, the channels of guilds. The inductive
  invariant relates each update to the reference, which has had the whole of its
  event since it began: a key of the event that is not raced is written already, and
  holds what the reference holds, or is yet to be written; it is gone, or yet to be removed;
  or it is yet to be read by an update that modifies what it finds (`Settled`). Two
  updates that have a key in common have raced on it (`Solo`), so no other worker
  disturbs this. `CacheConverges` is `ConvergesToReference` itself, where there are no
  channels of guilds or no ChannelPinsUpdate (`Blind = {}`); `channel_pins` shows that it
  fails otherwise. The runs that check the property satisfy the hypothesis.
* `OldValues`: `Spec => []SeenIsPrevious`, the property `OldIsPrevious` for all events that
  do not ask for the old state of the channel of a guild. Until an update has read what it
  returns, the cache still holds it; from then on the update does (`Known`).
  `OldValuesArePrevious` is `OldIsPrevious` itself, where there are no channels of guilds,
  `state_old` is off, or channels are neither updated nor deleted; `previous_state` shows that
  it fails otherwise.
* `QueueTypes`, `OneAnswerOwed` and `AnswersAreSpaced`: for the identify queue, from `QueueInv`:
  each bucket's remaining sleep and the time since its last answer add up to at
  least the wait, requests are in their shard's bucket, and live requests and
  waiting shards correspond one to one.
* `AnswersInTurn`: `Spec => InTurn`. A request is `Ahead` of another when it is before it in
  the channel; a channel grows at its end and shrinks at its head only, so a shard that asks
  comes after those that wait and is never answered before them. `WaitNeverGrows` gives it
  in time: what a waiting shard may still have to wait, the rest of the waiter's sleep and
  a `Wait` for each request ahead of it (`Left`), never grows and loses one with every tick
  of the sleep. These are the safety parts of `EveryRequestAnswered`, which needs fairness.
* `RangesTypeCorrect`, `ShardsAreDisjoint`, `ShardsAreServed`,
  `ClustersAreBalanced`: for the shard ranges, from the closed form of
  `last_index`, `start + i * base + min(i, extra)`, with every range built ending
  below it and no gap before it.
* `DispatchTypes`, `DispatchOnce`, `DispatchBarrier`: for `outgoing`, from
  `DispatchInv`. The stream is in order and without repetitions; the payload of a message
  is in one place only, the stream, one task, or published or given up (`OnePlace`);
  and a Ready whose update is not over is still in the stream or with the loop, and ahead
  of every task (`Barrier`). `DispatchCounted` adds the finiteness of the sets it
  counts.
* `DispatchKeepsFeed`: `Spec => KeepsFeed`, the refinement of `EventFeed`. What it needs
  besides `OnePlace` is that a payload leaves the stream only for a task, and a task only by
  publishing or failing: then each action is a step of `EventFeed` or a stutter. It is the
  safety part of `EventuallyPublished`.
* `DeliveryTypes`, `DeliveryKeepsPromise`, `DeliveryAtMostOnce`, `DeliveryAccounted`,
  `DeliveryInOrder`: for
  `incoming`. The refinement needs that a command which no broken connection gave back
  is in one place (ready, one stream, or one hand); then each action is a step of
  `CommandPromise` or a stutter. `AtMostOnce` needs besides that a command that was
  handled is nowhere any more. `InOrder` has the hypothesis that one process consumes the
  queue. Its invariant, `Sequenced`, says that what was published before the command in hand
  has been handled or cut short, and what was published before a message of the stream
  has been too, is in hand, or is ahead in the stream; that the broker pushes the first
  message that is ready keeps it so, because every other one is accounted for (`Traced`).
* `SessionsTypes`, `SessionsNothingSkipped`, `SessionsSavedNeverBack`: for the sessions.
  `NothingSkipped` speaks of every copy of a position at once and so is inductive with
  the types; that an event received stays so, on its way from the stream to a task
  and to the exchange, or when it is lost, is `ReceivedGrows`. `SavedNeverBack`
  is not inductive: `OrderInv` says in addition that a position exists
  once per shard in each copy, that only its owner's copies are moved, and that what is
  saved is behind what the owner has in flight to Redis, which is behind the shard.
* `SessionsSameSharding`: `Spec => []SameSharding`, for any number of processes on one Redis.
  Not inductive: a process need not have the number in `gateway_shards`, which another may
  have changed. `KeysInStep` says that, unless `behind`, every saved position is of a session
  opened for the number in `gateway_shards`; `InStep`, that what a process holds of its own
  shards, or is about to take from Redis, is of sessions opened for its `SHARDS_TOTAL`. A
  process writes entries of its own shards only (`Mine`), and a session is opened only
  by the process that owns its shard (`SessionTotals`), so no process disturbs what another
  has taken up. All of it holds until `tainted`.
* `MetricsTypes`, `MetricsGaugesWereTrue`: for the metrics. What has been read in a round is
  among the sizes its own helper set has had in it (`ReadsSeen`), which a change of the set
  between the reads does not undo.
* `MetricsStagesAddUp`: `Spec => []StagesAddUp`. The numbers of the stages add up to the size of
  a disjoint union (`Counted`), to which a shard that is asked adds one; with those not yet
  asked they are never more than the shards (`CountedOnce`). No gauge is set before all are
  asked, and those set show what was counted (`StatusesCounted`); the number of shards is
  reported before any of them is asked (`ShardsReported`).

Some definitions were found wanting by a proof and were put right. `Erased`, `Written` and
`OldOf` of `CacheUpdate` had a `CASE` with overlapping guards, of which the value is
whichever TLC takes first; an event that is not handled is now dealt with before the
`CASE`. `Metrics` allowed no helper sets, and an initial size above `MaxSize`; its `StagesAddUp`
summed with a fold, about which nothing can be proved without induction over finite sets.
`behind` of `Sessions` did not see a process with an older number write after the
announcement of another, so that `SameSharding` held for a single process only.

Only model-checked: liveness (`EvictedEventually`, `EveryRequestAnswered`,
`EventuallyPublished`, `HandledWhileOpen`, `CaughtUp`), which is beyond the prover. What is
proved beside it are its safety parts: that what expires is tracked until it is deleted,
that an answer is owed, in turn and within a bound, that an event stays due until
it is published or given up, that a command stays owed, and that no position is skipped.

## Not modelled, and why

* Object contents and their JSON, and whether a stored object parses (a failure to parse
  is a `Fail` of the read, or a message that is malformed).
* The latencies among the metrics, and the HTTP server, which formats what it is asked
  for; the logging to Discord; the declaration of exchange and queues; the reading of
  the configuration, whose settings are constants of the modules: I/O without state
  that anything else depends on. The example client is not part of the crate.
* `gateway_statuses` and `gateway_started`, which the service writes and never reads.
* SHARDS_END below SHARDS_START and SHARDS_CONCURRENCY = 0, which the code does not
  check; the assumptions of the modules exclude them.
* `state_member = FALSE` with the bot's own member, and the other settings switched
  off, are in the model and in the proofs but not in a run.
* twilight, Discord, RabbitMQ and Redis are modelled from how the code uses them.

## Plan

Runs of `StateCache` with settings switched off and with two guilds, which the proofs cover
already.
