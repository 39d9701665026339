------------------------------ MODULE Dispatch ------------------------------
(***************************************************************************)
(* `outgoing` (handler.rs): from the event stream of a cluster to the      *)
(* exchange and the counters.                                              *)
(*                                                                         *)
(* For a message of the gateway twilight puts two items into the stream,   *)
(* the raw ShardPayload and then the parsed event; for a change of the     *)
(* connection of a shard, one.  The loop takes them in order and spawns a  *)
(* task for each, except that it first runs the cache update of a Ready    *)
(* itself.  A task for an event updates the cache and counts; a task for a *)
(* payload publishes it.  What an update does is in StateCache; here it is *)
(* one step that finds the previous state or does not.                     *)
(***************************************************************************)
EXTENDS Integers, Sequences, FiniteSets

CONSTANTS
    Kinds,          \* the kinds of message that arrive
    MaxMessages,    \* bound on their number
    Faults,         \* whether commands to Redis and RabbitMQ may fail
    state_enabled,  \* the setting STATE_ENABLED
    state_old       \* the setting STATE_OLD

Dispatches == {"Ready", "Resumed", "Event"}       \* `t` is present
Controls == {"Hello", "Garbage"}                  \* `t` is absent; not even decodable
Lifecycle == {"Connecting", "Connected", "Disconnected", "Identifying", "Reconnecting",
              "Resuming"}
Labels == Lifecycle \cup {"Ready", "Resumed"}     \* of SHARD_EVENTS

ASSUME DispatchAssumption ==
    /\ Kinds \subseteq Dispatches \cup Controls \cup Lifecycle
    /\ MaxMessages \in Nat
    /\ {Faults, state_enabled, state_old} \subseteq BOOLEAN

VARIABLES
    kind,            \* the messages so far
    stream,          \* the items the loop has not taken
    loop,            \* the Ready items whose cache update the loop is running (one or none)
    tasks,           \* the tasks spawned and not over
    cached,          \* whether the cache holds the object the events are about
    gateway_events,  \* the counter GATEWAY_EVENTS
    shard_events,    \* the counter SHARD_EVENTS, for each label
    published,       \* the messages given to the exchange, in order
    \* Auxiliary variables: they record history and influence no action.
    updated,         \* messages whose cache update is over
    failed,          \* messages that were not published
    olds             \* messages for which the update found a previous state

vars == <<kind, stream, loop, tasks, cached, gateway_events, shard_events, published,
          updated, failed, olds>>
counters == <<gateway_events, shard_events, published, failed>>

Numbers == 1 .. MaxMessages
Item == [n : Numbers, type : {"payload", "event"}]
Task == [n : Numbers, type : {"payload", "event"}, step : {"update", "match", "publish"},
         old : BOOLEAN]

Items(k, n) ==
    LET payload == [n |-> n, type |-> "payload"]
        event == [n |-> n, type |-> "event"]
    IN  CASE k \in Lifecycle -> <<event>>
          [] k = "Garbage" -> <<payload>>
          [] OTHER -> <<payload, event>>

Spawned(i, step) == [n |-> i.n, type |-> i.type, step |-> step, old |-> FALSE]
-----------------------------------------------------------------------------
Init ==
    /\ kind = <<>> /\ stream = <<>> /\ loop = {} /\ tasks = {}
    /\ cached \in BOOLEAN
    /\ gateway_events = 0
    /\ shard_events = [l \in Labels |-> 0]
    /\ published = <<>>
    /\ updated = {} /\ failed = {} /\ olds = {}

\* twilight puts the items of a message into the stream (external).
Arrive(k) ==
    /\ Len(kind) < MaxMessages
    /\ kind' = Append(kind, k)
    /\ stream' = stream \o Items(k, Len(kind) + 1)
    /\ UNCHANGED <<loop, tasks, cached, counters, updated, olds>>

IsReady(i) == i.type = "event" /\ kind[i.n] = "Ready"

\* Mutant of Take: the update of Ready is left to its task.
TakeAndSpawn ==
    /\ loop = {} /\ stream # <<>>
    /\ stream' = Tail(stream)
    /\ LET i == Head(stream) IN
          tasks' = tasks \cup
              {Spawned(i, IF state_enabled /\ i.type = "event" THEN "update" ELSE "match")}
    /\ UNCHANGED <<kind, loop, cached, counters, updated, olds>>

\* The loop takes an item and spawns its task, or starts the update of a Ready.
Take ==
    /\ loop = {} /\ stream # <<>>
    /\ stream' = Tail(stream)
    /\ LET i == Head(stream)
           step == IF state_enabled /\ i.type = "event" THEN "update" ELSE "match"
       IN IF state_enabled /\ IsReady(i) THEN loop' = {i} /\ UNCHANGED tasks
          ELSE tasks' = tasks \cup {Spawned(i, step)} /\ UNCHANGED loop
    /\ UNCHANGED <<kind, cached, counters, updated, olds>>

\* Mutant of ReadyUpdated: `outgoing` returns if the update fails.
ReadyOrReturn ==
    /\ \E i \in loop : tasks' = tasks \cup {Spawned(i, "match")} /\ updated' = updated \cup {i.n}
    /\ loop' = {}
    /\ cached' \in {cached, TRUE}
    /\ stream' = IF cached' THEN stream ELSE <<>>
    /\ UNCHANGED <<kind, counters, olds>>

\* The update of a Ready is over, or has failed; its task is spawned.
ReadyUpdated ==
    /\ \E i \in loop : /\ tasks' = tasks \cup {Spawned(i, "match")}
                       /\ updated' = updated \cup {i.n}
    /\ loop' = {}
    /\ cached' \in {cached, TRUE}
    /\ UNCHANGED <<kind, stream, counters, olds>>

\* cache::update in a task.  Only an event about the object reads or writes it.
Update(t) ==
    /\ t.step = "update"
    /\ \/ /\ kind[t.n] = "Event"
          /\ cached' \in BOOLEAN
          /\ LET old == state_old /\ cached IN
                /\ tasks' = (tasks \ {t}) \cup {[t EXCEPT !.step = "match", !.old = old]}
                /\ olds' = IF old THEN olds \cup {t.n} ELSE olds
       \/ /\ Faults \/ kind[t.n] # "Event"
          /\ tasks' = (tasks \ {t}) \cup {[t EXCEPT !.step = "match"]}
          /\ UNCHANGED <<cached, olds>>
    /\ updated' = updated \cup {t.n}
    /\ UNCHANGED <<kind, stream, loop, counters>>

\* Mutant of Count: a reconnection takes back the connection.
CountDown(t) ==
    /\ t.step = "match" /\ t.type = "event"
    /\ shard_events' = IF kind[t.n] \in Labels
                       THEN [shard_events EXCEPT ![kind[t.n]] =
                                @ + IF kind[t.n] = "Reconnecting" THEN -1 ELSE 1]
                       ELSE shard_events
    /\ tasks' = tasks \ {t}
    /\ UNCHANGED <<kind, stream, loop, cached, gateway_events, published, updated, failed, olds>>

\* The task of an event ends with the `match`; joins and leaves are in StateCache.
Count(t) ==
    /\ t.step = "match" /\ t.type = "event"
    /\ shard_events' = IF kind[t.n] \in Labels
                       THEN [shard_events EXCEPT ![kind[t.n]] = @ + 1] ELSE shard_events
    /\ tasks' = tasks \ {t}
    /\ UNCHANGED <<kind, stream, loop, cached, gateway_events, published, updated, failed, olds>>

\* Mutant of Decode: a payload without `t` is published like the others.
DecodeAll(t) ==
    /\ t.step = "match" /\ t.type = "payload"
    /\ IF kind[t.n] # "Garbage"
       THEN /\ gateway_events' = gateway_events + 1
            /\ tasks' = (tasks \ {t}) \cup {[t EXCEPT !.step = "publish"]}
       ELSE tasks' = tasks \ {t} /\ UNCHANGED gateway_events
    /\ UNCHANGED <<kind, stream, loop, cached, shard_events, published, updated, failed, olds>>

\* A payload is decoded; one without `t` ends here.
Decode(t) ==
    /\ t.step = "match" /\ t.type = "payload"
    /\ IF kind[t.n] \in Dispatches
       THEN /\ gateway_events' = gateway_events + 1
            /\ tasks' = (tasks \ {t}) \cup {[t EXCEPT !.step = "publish"]}
       ELSE tasks' = tasks \ {t} /\ UNCHANGED gateway_events
    /\ UNCHANGED <<kind, stream, loop, cached, shard_events, published, updated, failed, olds>>

\* Mutant of Publish: the task tries again although it may have succeeded.
PublishRetry(t) ==
    /\ t.step = "publish"
    /\ published' = Append(published, [n |-> t.n, old |-> t.old])
    /\ \/ tasks' = tasks \ {t}
       \/ Len(published) < MaxMessages /\ UNCHANGED tasks
    /\ UNCHANGED <<kind, stream, loop, cached, gateway_events, shard_events, updated, failed, olds>>

\* basic_publish, with the `old` of this task.
Publish(t) ==
    /\ t.step = "publish"
    /\ published' = Append(published, [n |-> t.n, old |-> t.old])
    /\ tasks' = tasks \ {t}
    /\ UNCHANGED <<kind, stream, loop, cached, gateway_events, shard_events, updated, failed, olds>>

\* A failure to publish is only logged.
PublishFails(t) ==
    /\ Faults /\ t.step = "publish"
    /\ failed' = failed \cup {t.n}
    /\ tasks' = tasks \ {t}
    /\ UNCHANGED <<kind, stream, loop, cached, gateway_events, shard_events, published, updated,
                   olds>>

Run(t) == Update(t) \/ Count(t) \/ Decode(t) \/ Publish(t) \/ PublishFails(t)

Next ==
    \/ \E k \in Kinds : Arrive(k)
    \/ Take \/ ReadyUpdated
    \/ \E t \in tasks : Run(t)

Spec == Init /\ [][Next]_vars

\* Every task that can go on is run; a Redis or RabbitMQ command ends.
FairSpec ==
    /\ Spec
    /\ WF_vars(Take) /\ WF_vars(ReadyUpdated)
    /\ \A t \in Task : WF_vars(t \in tasks /\ Run(t))
-----------------------------------------------------------------------------
(* Properties. *)

TypeOK ==
    /\ kind \in Seq(Kinds) /\ Len(kind) <= MaxMessages
    /\ stream \in Seq(Item)
    /\ loop \subseteq Item
    /\ tasks \subseteq Task
    /\ cached \in BOOLEAN
    /\ gateway_events \in Nat
    /\ shard_events \in [Labels -> Nat]
    /\ published \in Seq([n : Numbers, old : BOOLEAN])
    /\ updated \subseteq Numbers /\ failed \subseteq Numbers /\ olds \subseteq Numbers

IsPublished(n) == \E i \in 1 .. Len(published) : published[i].n = n

\* README: "The decoded and decompressed dispatch events from the gateway will be
\* available in the queue".  Dispatch events only, and each only once, in whatever order
\* the tasks run.
DispatchesOnce ==
    /\ \A i \in 1 .. Len(published) : kind[published[i].n] \in Dispatches
    /\ \A i, j \in 1 .. Len(published) : published[i].n = published[j].n => i = j

\* The dispatch events whose payload is on its way to the exchange.
Due ==
    {n \in 1 .. Len(kind) :
        /\ kind[n] \in Dispatches
        /\ \/ \E i \in 1 .. Len(stream) : stream[i] = [n |-> n, type |-> "payload"]
           \/ \E t \in tasks : t.n = n /\ t.type = "payload"}

Feed == INSTANCE EventFeed
            WITH received <- Len(kind), due <- Due, lost <- failed,
                 queue <- [i \in 1 .. Len(published) |-> published[i].n]

\* `outgoing` implements EventFeed: between the stream, the loop and the tasks no dispatch
\* event gets lost, whatever becomes of the cache, and none is in two of them.
KeepsFeed == Feed!Spec

\* GATEWAY_EVENTS counts what was published, was not for a failure, or is about to be.
CountedIsPublished ==
    gateway_events = Len(published) + Cardinality(failed)
                        + Cardinality({t \in tasks : t.step = "publish"})

\* No event that followed a Ready is looked at before the cache update of the Ready is
\* over, so that the update never undoes that of a later event.
ReadyIsBarrier ==
    state_enabled => \A t \in tasks, r \in 1 .. Len(kind) :
                        kind[r] = "Ready" /\ r < t.n => r \in updated

\* Every dispatch event is published in the end, or the failure to is logged, whatever
\* becomes of its cache update.
EventuallyPublished ==
    \A n \in Numbers :
        (n <= Len(kind) /\ kind[n] \in Dispatches) ~> (IsPublished(n) \/ n \in failed)

\* README: "when the old state option is enabled, there will be an additional field for
\* gateway events in the message queue, `old`, containing the previous state (only if it
\* exists)".
OldInQueue ==
    \A i \in 1 .. Len(published) : published[i].n \in olds => published[i].old
=============================================================================
