------------------------------ MODULE Delivery ------------------------------
(***************************************************************************)
(* `incoming` (handler.rs): the commands that clients publish to the queue *)
(* gateway.send, on their way to the shards.                               *)
(*                                                                         *)
(* The broker pushes the messages of the queue to the processes that       *)
(* consume it and keeps each until it is acknowledged; when a connection   *)
(* breaks, its unacknowledged messages are ready again, at their place.    *)
(* `incoming` handles the messages of its stream one after the other, and  *)
(* acknowledges each before it looks at it; it ignores whether the         *)
(* acknowledgement arrives, and returns for good when the stream ends.     *)
(***************************************************************************)
EXTENDS Integers, Sequences

CONSTANTS
    Processes,    \* the processes consuming the queue
    Shards,       \* all the shards, ...
    Owner,        \* ... and the process with a cluster that has each (ShardRanges), if any
    Commands,     \* what clients publish
    MaxCommands,  \* bound on the commands of a behaviour
    MaxStarts,    \* bound on the starts of processes
    Breaks        \* whether the connection to the broker may break

Ids == 1 .. MaxCommands
Command == [op : {"Send", "Reconnect", "Malformed"}, shard : Shards]
None == 0         \* no command in hand

ASSUME DeliveryAssumption ==
    /\ DOMAIN Owner = Shards       \* clients may name a shard that no process has
    /\ Commands \subseteq Command
    /\ MaxCommands \in Nat /\ MaxStarts \in Nat
    /\ Breaks \in BOOLEAN

VARIABLES
    commands,     \* the commands that are published, one after the other
    submitted,    \* how many have been
    queue,        \* broker: the messages that are ready
    consumer,     \* how far `incoming` of each process has come
    buffer,       \* the messages in its stream
    current,      \* the message it has acknowledged and not handled
    shard,        \* whether each shard has a connection to Discord, or was shut down
    starts,       \* number of starts
    \* Auxiliary variables: they record history and influence no action.
    times,        \* how often each command has been handled
    outcome,      \* what came of each command
    again,        \* the commands a broken connection has given back to the broker
    cut           \* the commands in hand when a process ended

vars == <<commands, submitted, queue, consumer, buffer, current, shard, starts, times,
          outcome, again, cut>>

Consumers == {"off", "ready", "open", "broken", "returned"}
Outcomes == {"sent", "failed", "shut", "invalid", "malformed"}

\* The messages in the stream of p.
Held(p) == {buffer[p][i] : i \in 1 .. Len(buffer[p])}

\* The messages the broker waits for p to acknowledge.
Unacked(p) == IF consumer[p] = "open" THEN Held(p) ELSE {}
-----------------------------------------------------------------------------
Init ==
    /\ commands \in [Ids -> Commands]
    /\ submitted = 0
    /\ queue = {}
    /\ consumer = [p \in Processes |-> "off"]
    /\ buffer = [p \in Processes |-> <<>>]
    /\ current = [p \in Processes |-> None]
    /\ shard = [s \in Shards |-> "down"]
    /\ starts = 0
    /\ times = [n \in Ids |-> 0]
    /\ outcome = [n \in Ids |-> {}]
    /\ again = {} /\ cut = {}

\* A client publishes a command.
Submit ==
    /\ submitted < MaxCommands
    /\ submitted' = submitted + 1
    /\ queue' = queue \cup {submitted + 1}
    /\ UNCHANGED <<commands, consumer, buffer, current, shard, starts, times, outcome, again, cut>>

\* A process starts, and in the course of it spawns `incoming`.
ProcessStart(p) ==
    /\ consumer[p] = "off" /\ starts < MaxStarts
    /\ starts' = starts + 1
    /\ consumer' = [consumer EXCEPT ![p] = "ready"]
    /\ UNCHANGED <<commands, submitted, queue, buffer, current, shard, times, outcome, again, cut>>

\* basic_consume; if it fails, `incoming` returns.
Consume(p) ==
    /\ consumer[p] = "ready"
    /\ consumer' = [consumer EXCEPT ![p] = "open"]
    /\ UNCHANGED <<commands, submitted, queue, buffer, current, shard, starts, times, outcome,
                   again, cut>>

ConsumeFails(p) ==
    /\ Breaks /\ consumer[p] = "ready"
    /\ consumer' = [consumer EXCEPT ![p] = "returned"]
    /\ UNCHANGED <<commands, submitted, queue, buffer, current, shard, starts, times, outcome,
                   again, cut>>

\* The broker pushes the first message that is ready to one of the consumers.
Deliver(p) ==
    /\ consumer[p] = "open"
    /\ \E n \in queue :
          /\ \A m \in queue : n <= m
          /\ queue' = queue \ {n}
          /\ buffer' = [buffer EXCEPT ![p] = Append(@, n)]
    /\ UNCHANGED <<commands, submitted, consumer, current, shard, starts, times, outcome, again,
                   cut>>

\* Mutants of Take: the message is not acknowledged; the latest message goes first; the
\* message waits for its shard.
TakeUnacked(p) ==
    /\ buffer[p] # <<>> /\ current[p] = None
    /\ current' = [current EXCEPT ![p] = Head(buffer[p])]
    /\ buffer' = [buffer EXCEPT ![p] = Tail(@)]
    /\ queue' = queue \cup {Head(buffer[p])}
    /\ UNCHANGED <<commands, submitted, consumer, shard, starts, times, outcome, again, cut>>
TakeLast(p) ==
    /\ buffer[p] # <<>> /\ current[p] = None
    /\ current' = [current EXCEPT ![p] = buffer[p][Len(buffer[p])]]
    /\ buffer' = [buffer EXCEPT ![p] = SubSeq(@, 1, Len(@) - 1)]
    /\ UNCHANGED <<commands, submitted, queue, consumer, shard, starts, times, outcome, again, cut>>
TakeIfUp(p) ==
    /\ buffer[p] # <<>> /\ current[p] = None
    /\ shard[commands[Head(buffer[p])].shard] = "up"
    /\ current' = [current EXCEPT ![p] = Head(buffer[p])]
    /\ buffer' = [buffer EXCEPT ![p] = Tail(@)]
    /\ UNCHANGED <<commands, submitted, queue, consumer, shard, starts, times, outcome, again, cut>>

\* consumer.next() and basic_ack: in vain if the connection is broken.
Take(p) ==
    /\ buffer[p] # <<>> /\ current[p] = None
    /\ current' = [current EXCEPT ![p] = Head(buffer[p])]
    /\ buffer' = [buffer EXCEPT ![p] = Tail(@)]
    /\ UNCHANGED <<commands, submitted, queue, consumer, shard, starts, times, outcome, again, cut>>

\* Mutant of Result: `find` is unwrapped, and a shard of no cluster is a panic.
ResultUnwrap(p, c) ==
    CASE c.op = "Malformed" -> "malformed"
      [] c.op # "Malformed" /\ Owner[c.shard] # p -> "panic"
      [] c.op = "Send" /\ Owner[c.shard] = p -> IF shard[c.shard] = "up" THEN "sent" ELSE "failed"
      [] c.op = "Reconnect" /\ Owner[c.shard] = p -> "shut"

\* What process p does with command c.
Result(p, c) ==
    CASE c.op = "Malformed" -> "malformed"
      [] c.op # "Malformed" /\ Owner[c.shard] # p -> "invalid"
      [] c.op = "Send" /\ Owner[c.shard] = p -> IF shard[c.shard] = "up" THEN "sent" ELSE "failed"
      [] c.op = "Reconnect" /\ Owner[c.shard] = p -> "shut"

\* Mutant of Handle: `incoming` returns when a message is malformed.
HandleOrReturn(p) ==
    /\ current[p] # None
    /\ LET n == current[p]
           r == Result(p, commands[n])
       IN /\ outcome' = [outcome EXCEPT ![n] = @ \cup {r}]
          /\ times' = [times EXCEPT ![n] = @ + 1]
          /\ shard' = IF r = "shut" THEN [shard EXCEPT ![commands[n].shard] = "shut"] ELSE shard
          /\ current' = [current EXCEPT ![p] = None]
          /\ consumer' = IF r = "malformed" THEN [consumer EXCEPT ![p] = "returned"] ELSE consumer
          /\ buffer' = IF r = "malformed" THEN [buffer EXCEPT ![p] = <<>>] ELSE buffer
    /\ UNCHANGED <<commands, submitted, queue, starts, again, cut>>

\* The rest of the loop's body: decode the message, find the cluster, then send to the
\* shard or (Reconnect) shut it down.  Whatever fails is only logged.
Handle(p) ==
    /\ current[p] # None
    /\ LET n == current[p]
           r == Result(p, commands[n])
       IN /\ outcome' = [outcome EXCEPT ![n] = @ \cup {r}]
          /\ times' = [times EXCEPT ![n] = @ + 1]
          /\ shard' = IF r = "shut" THEN [shard EXCEPT ![commands[n].shard] = "shut"] ELSE shard
          /\ current' = [current EXCEPT ![p] = None]
    /\ UNCHANGED <<commands, submitted, queue, consumer, buffer, starts, again, cut>>

\* The connection breaks.  The broker has the unacknowledged messages ready again; those
\* already in the stream are handled all the same.
Break(p) ==
    /\ Breaks /\ consumer[p] = "open"
    /\ consumer' = [consumer EXCEPT ![p] = "broken"]
    /\ queue' = queue \cup Held(p)
    /\ again' = again \cup Held(p)
    /\ UNCHANGED <<commands, submitted, buffer, current, shard, starts, times, outcome, cut>>

\* The stream has ended (an error in it is logged and skipped).
Return(p) ==
    /\ consumer[p] = "broken" /\ buffer[p] = <<>> /\ current[p] = None
    /\ consumer' = [consumer EXCEPT ![p] = "returned"]
    /\ UNCHANGED <<commands, submitted, queue, buffer, current, shard, starts, times, outcome,
                   again, cut>>

\* The process ends, by Ctrl-C or otherwise.
ProcessEnd(p) ==
    /\ consumer[p] # "off"
    /\ consumer' = [consumer EXCEPT ![p] = "off"]
    /\ queue' = queue \cup Unacked(p)
    /\ buffer' = [buffer EXCEPT ![p] = <<>>]
    /\ current' = [current EXCEPT ![p] = None]
    /\ shard' = [s \in Shards |-> IF Owner[s] = p THEN "down" ELSE shard[s]]
    /\ cut' = cut \cup ({current[p]} \ {None})
    /\ UNCHANGED <<commands, submitted, starts, times, outcome, again>>

\* A shard is connected, or loses its connection (external); one shut down stays so.
Connect(s) ==
    /\ Owner[s] \in Processes /\ consumer[Owner[s]] # "off" /\ shard[s] = "down"
    /\ shard' = [shard EXCEPT ![s] = "up"]
    /\ UNCHANGED <<commands, submitted, queue, consumer, buffer, current, starts, times,
                   outcome, again, cut>>

Disconnect(s) ==
    /\ shard[s] = "up"
    /\ shard' = [shard EXCEPT ![s] = "down"]
    /\ UNCHANGED <<commands, submitted, queue, consumer, buffer, current, starts, times,
                   outcome, again, cut>>

Step(p) ==
    \/ ProcessStart(p) \/ Consume(p) \/ ConsumeFails(p) \/ Deliver(p) \/ Take(p)
    \/ Handle(p) \/ Break(p) \/ Return(p) \/ ProcessEnd(p)

Next ==
    \/ Submit
    \/ \E p \in Processes : Step(p)
    \/ \E s \in Shards : Connect(s) \/ Disconnect(s)

Spec == Init /\ [][Next]_vars

\* The broker pushes what is ready to those who can take it, the runtime runs a task that
\* can go on, and twilight connects a shard again.  Nothing is assumed of clients, of the
\* connection to the broker, and of processes.
FairSpec ==
    /\ Spec
    /\ WF_vars(\E p \in Processes : Deliver(p))
    /\ \A p \in Processes : WF_vars(Consume(p) \/ ConsumeFails(p)) /\ WF_vars(Take(p))
                              /\ WF_vars(Handle(p)) /\ WF_vars(Return(p))
    /\ \A s \in Shards : WF_vars(Connect(s))
-----------------------------------------------------------------------------
(* Properties. *)

TypeOK ==
    /\ commands \in [Ids -> Commands]
    /\ submitted \in 0 .. MaxCommands
    /\ queue \subseteq Ids
    /\ consumer \in [Processes -> Consumers]
    /\ buffer \in [Processes -> Seq(Ids)]
    /\ current \in [Processes -> Ids \cup {None}]
    /\ shard \in [Shards -> {"down", "up", "shut"}]
    /\ starts \in Nat
    /\ times \in [Ids -> Nat]
    /\ outcome \in [Ids -> SUBSET Outcomes]
    /\ again \subseteq Ids /\ cut \subseteq Ids

\* The commands the broker answers for, and those that a process answers for: it has
\* acknowledged them, or its acknowledgement no longer counts.
Queued == queue \cup UNION {Unacked(p) : p \in Processes}
Owed(p) == ({current[p]} \ {None}) \cup (Held(p) \ Unacked(p))

Promise == INSTANCE CommandPromise WITH
    queued <- Queued, owed <- [p \in Processes |-> Owed(p)]

\* `incoming` keeps the promise to the clients of gateway.send: nothing is handled that the
\* broker still answers for, except what a broken connection gave back to it.
KeepsPromise == Promise!Spec

\* A command is handled at most once, by whatever process, across broken connections and
\* restarts, unless a connection broke with the command unacknowledged.
AtMostOnce == \A n \in Ids \ again : times[n] <= 1

\* No command vanishes: it is with the broker, in the hands of a process, handled, or was
\* in the hands of a process that ended.
Accounted ==
    \A n \in 1 .. submitted :
        \/ n \in Queued \/ times[n] > 0 \/ n \in cut
        \/ \E p \in Processes : n \in Owed(p)

\* With one process, commands are handled in the order of their publication, for the
\* first time at least: `incoming` waits for one before it takes the next.
InOrder ==
    [][\A n \in Ids : times[n] = 0 /\ times'[n] = 1 =>
          \A m \in 1 .. n - 1 : times[m] > 0 \/ m \in cut]_vars

Handled(n) == times[n] > 0 \/ n \in cut

\* As long as some process keeps its subscription, every command is handled.
HandledWhileOpen ==
    (\E p \in Processes : <>[](consumer[p] = "open")) =>
        \A n \in Ids : n <= submitted ~> Handled(n)

\* README: "Gateway events are forwarded to and from RabbitMQ".  As long as some process is
\* left running, every command is handled.
Forwarded ==
    (\E p \in Processes : <>[](consumer[p] # "off")) =>
        \A n \in Ids : n <= submitted ~> Handled(n)

\* README: "To send events to the gateway, connect to the channel `gateway.send`, then
\* publish a message".  A command for a shard that is connected is not turned away.
NotTurnedAway ==
    [][\A n \in Ids : shard[commands[n].shard] = "up" =>
          "invalid" \notin outcome'[n] \ outcome[n]]_vars

\* README: "there may be others in the future to reconnect to a shard".  Once the command
\* Reconnect has been handled, its shard is connected again if the process is left running.
ShardComesBack ==
    \A s \in {x \in Shards : Owner[x] \in Processes} :
        <>[](consumer[Owner[s]] # "off") => (shard[s] = "shut" ~> shard[s] = "up")
=============================================================================
