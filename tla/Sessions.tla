------------------------------ MODULE Sessions ------------------------------
(***************************************************************************)
(* The sessions of the shards across restarts of the service.              *)
(*                                                                         *)
(* A process (`real_main`, main.rs) reads the sessions in Redis at start   *)
(* (`get_clusters`, cluster.rs), and its shards resume them as they start. *)
(* While it runs, `run_jobs` (cache.rs) dumps the current sessions every   *)
(* second; on Ctrl-C the process shuts its shards down and saves them once *)
(* more.  It may also end at any other moment.  Processes that run         *)
(* different shards may share one Redis, and each writes the whole value.  *)
(*                                                                         *)
(* Discord numbers the events of a session.  It replays to a shard that    *)
(* resumes with number n the events after n, and no others.                *)
(***************************************************************************)
EXTENDS Integers, Sequences, FiniteSets

CONSTANTS
    Processes,    \* the processes sharing a Redis
    Shards,       \* all the shards, ...
    Owner,        \* ... and the process whose SHARDS_START to SHARDS_END has each
    Totals,       \* values SHARDS_TOTAL takes from one start to the next
    resume,       \* the setting RESUME
    Crashes,      \* whether a process may end other than by Ctrl-C, and commands fail
    MaxStarts,    \* bound on the starts of processes
    MaxSessions,  \* bound on the sessions of a shard that Discord gives up
    MaxEvents     \* bound on the events of a session

ASSUME SessionsAssumption ==
    /\ Owner \in [Shards -> Processes]
    /\ Totals \subseteq Nat \ {0}
    /\ resume \in BOOLEAN /\ Crashes \in BOOLEAN
    /\ MaxStarts \in Nat /\ MaxSessions \in Nat /\ MaxEvents \in Nat \ {0}

VARIABLES
    stage,        \* how far each process has come
    total,        \* its SHARDS_TOTAL
    resumes,      \* the sessions it read at start
    shard,        \* what twilight knows of each shard
    stream,       \* events received that `outgoing` has not taken yet, in order
    inflight,     \* events whose task has not published them yet
    dump,         \* the sessions run_jobs is about to write
    final,        \* the sessions real_main is about to write
    sessions,     \* the key gateway_sessions
    shards_key,   \* the key gateway_shards; 0 if absent
    gateway,      \* Discord: the latest session of each shard
    starts,       \* number of starts
    \* Auxiliary variables: they record history and influence no action.
    published,    \* events published to RabbitMQ
    dropped,      \* events received and lost with their process, or by a failure
    behind,       \* gateway_sessions was not written under the number in gateway_shards, ...
    tainted       \* ... and a process has started and taken it for that of this number

redis == <<sessions, shards_key>>
events == <<stream, inflight>>
aux == <<published, dropped, behind, tainted>>
vars == <<stage, total, resumes, shard, stream, inflight, dump, final, sessions, shards_key,
          gateway, starts, published, dropped, behind, tainted>>

Stages == {"off", "load", "announce", "running", "stopping", "stopped"}
Alive == {"running", "stopping", "stopped"}       \* tasks are running
States == {"idle", "handshake", "active", "closed"}

Entry == [shard : Shards, id : Nat, seq : Nat]    \* SessionInfo; id 0 is the empty string
Known == [st : States, id : Nat, seq : Nat]       \* id 0: no session
Session == [id : Nat, total : Nat, sent : Nat, live : BOOLEAN]
Event == Shards \X Nat \X Nat                     \* shard, session, number

Own(p) == {s \in Shards : Owner[s] = p}

\* The events received and neither published nor lost: those in the streams, and those
\* of the tasks of `outgoing`.
Waiting(s) == {stream[s][i] : i \in 1 .. Len(stream[s])}
Coming == inflight \cup UNION {Waiting(s) : s \in Shards}
OwnEvents(p) == {e \in inflight : Owner[e[1]] = p} \cup UNION {Waiting(s) : s \in Own(p)}

\* Mutant of EntryOf: the sequence of the event before the last is kept, to be safe.
EntryBefore(s) == [shard |-> s, id |-> shard[s].id, seq |-> shard[s].seq - 1]

\* What is kept of a shard.
EntryOf(s) == [shard |-> s, id |-> shard[s].id, seq |-> shard[s].seq]
Off == [st |-> "idle", id |-> 0, seq |-> 0]
Running(s) == stage[Owner[s]] = "running"          \* down_resumable closes all shards
-----------------------------------------------------------------------------
(* Start-up: the reads of get_clusters and the writes of real_main. *)

Init ==
    /\ stage = [p \in Processes |-> "off"]
    /\ total = [p \in Processes |-> 0]
    /\ resumes = [p \in Processes |-> {}]
    /\ shard = [s \in Shards |-> Off]
    /\ stream = [s \in Shards |-> <<>>]
    /\ inflight = {}
    /\ dump = [p \in Processes |-> {}]
    /\ final = [p \in Processes |-> {}]
    /\ sessions = {} /\ shards_key = 0
    /\ gateway = [s \in Shards |-> [id |-> 0, total |-> 0, sent |-> 0, live |-> FALSE]]
    /\ starts = 0
    /\ published = {} /\ dropped = {} /\ behind = FALSE /\ tainted = FALSE

\* Mutant of Start: the saved sessions are used whatever SHARDS_TOTAL was.
StartAnyTotal(p) ==
    /\ stage[p] = "off" /\ starts < MaxStarts
    /\ starts' = starts + 1
    /\ \E t \in Totals : total' = [total EXCEPT ![p] = t]
    /\ stage' = [stage EXCEPT ![p] = IF resume THEN "load" ELSE "announce"]
    /\ tainted' = (tainted \/ (behind /\ stage'[p] = "load"))
    /\ UNCHANGED <<resumes, shard, events, dump, final, redis, gateway, published, dropped,
                   behind>>

\* GET gateway_shards: the sessions are read if RESUME is set and the total is the same.
Start(p) ==
    /\ stage[p] = "off" /\ starts < MaxStarts
    /\ starts' = starts + 1
    /\ \E t \in Totals :
          /\ total' = [total EXCEPT ![p] = t]
          /\ stage' = [stage EXCEPT ![p] = IF resume /\ shards_key = t THEN "load"
                                                                      ELSE "announce"]
    /\ tainted' = (tainted \/ (behind /\ stage'[p] = "load"))
    /\ UNCHANGED <<resumes, shard, events, dump, final, redis, gateway, published, dropped,
                   behind>>

\* Mutants of Load: the sequence is forgotten, or taken for the next one expected.
LoadFromZero(p) ==
    /\ stage[p] = "load"
    /\ resumes' = [resumes EXCEPT ![p] = {[e EXCEPT !.seq = 0] : e \in sessions}]
    /\ stage' = [stage EXCEPT ![p] = "announce"]
    /\ UNCHANGED <<total, shard, events, dump, final, redis, gateway, starts, aux>>
LoadNext(p) ==
    /\ stage[p] = "load"
    /\ resumes' = [resumes EXCEPT ![p] = {[e EXCEPT !.seq = @ + 1] : e \in sessions}]
    /\ stage' = [stage EXCEPT ![p] = "announce"]
    /\ UNCHANGED <<total, shard, events, dump, final, redis, gateway, starts, aux>>

\* GET gateway_sessions: every cluster is given all of them.
Load(p) ==
    /\ stage[p] = "load"
    /\ resumes' = [resumes EXCEPT ![p] = sessions]
    /\ stage' = [stage EXCEPT ![p] = "announce"]
    /\ UNCHANGED <<total, shard, events, dump, final, redis, gateway, starts, aux>>

\* SET gateway_shards; the jobs and the clusters are then spawned.
Announce(p) ==
    /\ stage[p] = "announce"
    /\ stage' = [stage EXCEPT ![p] = "running"]
    /\ shards_key' = total[p]
    /\ behind' = (behind \/ shards_key # total[p])
    /\ UNCHANGED <<total, resumes, shard, events, dump, final, sessions, gateway, starts,
                   published, dropped, tainted>>
-----------------------------------------------------------------------------
(* Shards and Discord (twilight and the gateway: external). *)

\* Mutant of ShardStart: only the shards with a session to resume are started.
ShardStartIfSaved(s) ==
    /\ Running(s) /\ shard[s].st = "idle"
    /\ \E e \in resumes[Owner[s]] :
          /\ e.shard = s
          /\ shard' = [shard EXCEPT ![s] = [st |-> "handshake", id |-> e.id, seq |-> e.seq]]
    /\ UNCHANGED <<stage, total, resumes, events, dump, final, redis, gateway, starts, aux>>

\* The identify queue lets a shard start, with the session it is to resume, if any.
ShardStart(s) ==
    /\ Running(s) /\ shard[s].st = "idle"
    /\ LET mine == {e \in resumes[Owner[s]] : e.shard = s} IN
          \/ /\ mine = {}
             /\ shard' = [shard EXCEPT ![s].st = "handshake"]
          \/ \E e \in mine :
                shard' = [shard EXCEPT ![s] = [st |-> "handshake", id |-> e.id, seq |-> e.seq]]
    /\ UNCHANGED <<stage, total, resumes, events, dump, final, redis, gateway, starts, aux>>

Handshaking(s) == Running(s) /\ shard[s].st = "handshake"

\* Discord still has the session.
Resume(s) ==
    /\ Handshaking(s)
    /\ shard[s].id # 0 /\ shard[s].id = gateway[s].id
    /\ gateway[s].live /\ shard[s].seq <= gateway[s].sent
    /\ shard' = [shard EXCEPT ![s].st = "active"]
    /\ UNCHANGED <<stage, total, resumes, events, dump, final, redis, gateway, starts, aux>>

\* Invalid Session, for a shard that resumes or at any later time.  Discord may give up
\* the latest session, and has given up the ones before it.
Invalidate(s) ==
    /\ Running(s) /\ shard[s].st \in {"handshake", "active"} /\ shard[s].id # 0
    /\ \/ shard[s].id # gateway[s].id \/ ~gateway[s].live \/ shard[s].seq > gateway[s].sent
       \/ gateway[s].id < MaxSessions
    /\ shard' = [shard EXCEPT ![s] = [st |-> "handshake", id |-> 0, seq |-> 0]]
    /\ gateway' = [gateway EXCEPT ![s].live = @ /\ shard[s].id # gateway[s].id]
    /\ UNCHANGED <<stage, total, resumes, events, dump, final, redis, starts, aux>>

\* Identify and Ready, the first event of a new session.
Identify(s) ==
    /\ Handshaking(s) /\ shard[s].id = 0
    /\ LET id == gateway[s].id + 1 IN
          /\ gateway' = [gateway EXCEPT ![s] = [id |-> id, total |-> total[Owner[s]],
                                                sent |-> 1, live |-> TRUE]]
          /\ shard' = [shard EXCEPT ![s] = [st |-> "active", id |-> id, seq |-> 1]]
          /\ stream' = [stream EXCEPT ![s] = Append(@, <<s, id, 1>>)]
    /\ UNCHANGED <<stage, total, resumes, inflight, dump, final, redis, starts, aux>>

\* Something happens in the guilds of the shard, connected or not.
Emit(s) ==
    /\ gateway[s].live /\ gateway[s].sent < MaxEvents
    /\ gateway' = [gateway EXCEPT ![s].sent = @ + 1]
    /\ UNCHANGED <<stage, total, resumes, shard, events, dump, final, redis, starts, aux>>

\* The shard counts an event, from when on run_jobs and down_resumable see it in the
\* sequence, and sends it into the stream.
Receive(s) ==
    /\ Running(s) /\ shard[s].st = "active" /\ shard[s].id = gateway[s].id
    /\ shard[s].seq < gateway[s].sent
    /\ shard' = [shard EXCEPT ![s].seq = @ + 1]
    /\ stream' = [stream EXCEPT ![s] = Append(@, <<s, shard[s].id, shard[s].seq + 1>>)]
    /\ UNCHANGED <<stage, total, resumes, inflight, dump, final, redis, gateway, starts, aux>>
-----------------------------------------------------------------------------
(* `outgoing`. *)

\* The loop takes the next event of a shard and spawns a task for it, however long after:
\* it awaits the update of the cache for each Ready.  A cluster has one stream for its
\* shards; in which order events of different shards are taken makes no difference here.
Take(s) ==
    /\ stream[s] # <<>>
    /\ stream' = [stream EXCEPT ![s] = Tail(@)]
    /\ inflight' = inflight \cup {Head(stream[s])}
    /\ UNCHANGED <<stage, total, resumes, shard, dump, final, redis, gateway, starts, aux>>

\* basic_publish of a task of `outgoing`, in any order; a failure is only logged.
Publish(e) ==
    /\ e \in inflight
    /\ inflight' = inflight \ {e}
    /\ published' = published \cup {e}
    /\ UNCHANGED <<stage, total, resumes, shard, stream, dump, final, redis, gateway, starts,
                   dropped, behind, tainted>>

PublishFails(e) ==
    /\ Crashes /\ e \in inflight
    /\ inflight' = inflight \ {e}
    /\ dropped' = dropped \cup {e}
    /\ UNCHANGED <<stage, total, resumes, shard, stream, dump, final, redis, gateway, starts,
                   published, behind, tainted>>
-----------------------------------------------------------------------------
(* The job and the shut-down. *)

\* run_jobs takes what is known of the shards that have started, ...
Collect(p) ==
    /\ stage[p] \in Alive /\ dump[p] = {}
    /\ dump' = [dump EXCEPT ![p] = {{EntryOf(s) : s \in {t \in Own(p) : shard[t].st # "idle"}}}]
    /\ UNCHANGED <<stage, total, resumes, shard, events, final, redis, gateway, starts, aux>>

\* ... and writes it to gateway_sessions, all shards at once, two awaits later, ...
Dump(p) ==
    /\ \E m \in dump[p] : sessions' = m
    /\ dump' = [dump EXCEPT ![p] = {}]
    /\ behind' = (shards_key # total[p])
    /\ UNCHANGED <<stage, total, resumes, shard, events, final, shards_key, gateway, starts,
                   published, dropped, tainted>>

\* ... or fails to.
DumpFails(p) ==
    /\ Crashes /\ dump[p] # {}
    /\ dump' = [dump EXCEPT ![p] = {}]
    /\ UNCHANGED <<stage, total, resumes, shard, events, final, redis, gateway, starts, aux>>

\* Ctrl-C: down_resumable of every cluster closes the shards and returns the sessions.
CtrlC(p) ==
    /\ stage[p] = "running"
    /\ stage' = [stage EXCEPT ![p] = "stopping"]
    /\ final' = [final EXCEPT ![p] = {EntryOf(s) : s \in {t \in Own(p) : shard[t].id # 0}}]
    /\ shard' = [s \in Shards |-> IF Owner[s] = p /\ shard[s].st # "idle"
                                  THEN [shard[s] EXCEPT !.st = "closed"] ELSE shard[s]]
    /\ UNCHANGED <<total, resumes, events, dump, redis, gateway, starts, aux>>

\* SET gateway_sessions at the end of real_main.  Until the process is gone, run_jobs
\* and `outgoing` go on.
Save(p) ==
    /\ stage[p] = "stopping"
    /\ stage' = [stage EXCEPT ![p] = "stopped"]
    /\ sessions' = final[p]
    /\ behind' = (shards_key # total[p])
    /\ UNCHANGED <<total, resumes, shard, events, dump, final, shards_key, gateway, starts,
                   published, dropped, tainted>>

\* real_main has returned, or an error, a panic or a signal ends the process before.
End(p) ==
    /\ stage[p] = "stopped" \/ (Crashes /\ stage[p] # "off")
    /\ stage' = [stage EXCEPT ![p] = "off"]
    /\ resumes' = [resumes EXCEPT ![p] = {}]
    /\ shard' = [s \in Shards |-> IF Owner[s] = p THEN Off ELSE shard[s]]
    /\ stream' = [s \in Shards |-> IF Owner[s] = p THEN <<>> ELSE stream[s]]
    /\ inflight' = inflight \ OwnEvents(p)
    /\ dump' = [dump EXCEPT ![p] = {}]
    /\ final' = [final EXCEPT ![p] = {}]
    /\ dropped' = dropped \cup OwnEvents(p)
    /\ UNCHANGED <<total, redis, gateway, starts, published, behind, tainted>>

ProcessStep(p) ==
    \/ Start(p) \/ Load(p) \/ Announce(p) \/ Collect(p) \/ Dump(p) \/ DumpFails(p)
    \/ CtrlC(p) \/ Save(p) \/ End(p)
ShardStep(s) ==
    \/ ShardStart(s) \/ Resume(s) \/ Invalidate(s) \/ Identify(s) \/ Emit(s) \/ Receive(s)
    \/ Take(s)

Next ==
    \/ \E p \in Processes : ProcessStep(p)
    \/ \E s \in Shards : ShardStep(s)
    \/ \E e \in inflight : Publish(e) \/ PublishFails(e)

Spec == Init /\ [][Next]_vars

\* The runtime runs every task that can go on, the identify queue lets every shard start
\* (IdentifyQueue), Discord answers, and so does Redis when `outgoing` awaits a Ready.
FairSpec ==
    /\ Spec
    /\ \A s \in Shards :
          /\ WF_vars(ShardStart(s))
          /\ WF_vars(Handshaking(s) /\ (Resume(s) \/ Invalidate(s) \/ Identify(s)))
          /\ WF_vars(Receive(s)) /\ WF_vars(Take(s))
    /\ WF_vars(\E e \in inflight : Publish(e) \/ PublishFails(e))
-----------------------------------------------------------------------------
(* Properties. *)

TypeOK ==
    /\ stage \in [Processes -> Stages]
    /\ total \in [Processes -> Totals \cup {0}]
    /\ resumes \in [Processes -> SUBSET Entry]
    /\ shard \in [Shards -> Known]
    /\ stream \in [Shards -> Seq(Event)]
    /\ inflight \subseteq Event
    /\ dump \in [Processes -> SUBSET SUBSET Entry]
    /\ final \in [Processes -> SUBSET Entry]
    /\ sessions \subseteq Entry
    /\ shards_key \in Nat
    /\ gateway \in [Shards -> Session]
    /\ starts \in Nat
    /\ published \subseteq Event /\ dropped \subseteq Event
    /\ behind \in BOOLEAN /\ tainted \in BOOLEAN

\* Every copy of the position of a shard: its own, and those on their way to and from
\* Redis, in it, or read from it by a process that is starting.
Positions ==
    {EntryOf(s) : s \in Shards} \cup sessions
        \cup UNION {resumes[p] \cup final[p] \cup UNION dump[p] : p \in Processes}

\* However old the dump that a process resumes from, whoever wrote it and whenever the
\* writer ended: a position never runs ahead of what was received, so that Discord is never
\* told to skip an event that the service has never had.  (README: "twilight-dispatch will
\* resume the sessions, so you will not lose a single event".  It holds for the events that
\* were not received; those a position covers need not have reached a task of `outgoing`,
\* let alone the exchange, and NotASingleEventLost is about them.)
NothingSkipped ==
    \A e \in Positions :
        /\ e.id <= gateway[e.shard].id
        /\ e.id = gateway[e.shard].id =>
              \A n \in 1 .. e.seq : <<e.shard, e.id, n>> \in published \cup Coming \cup dropped

\* A shard only ever runs a session that was opened for its number of shards.  Redis holds
\* the two in two keys: gateway_shards is written at start and gateway_sessions by the
\* first dump, and a process that ends in between leaves sessions that the next one
\* takes for those of the new SHARDS_TOTAL.
SameSharding ==
    tainted \/ \A s \in Shards : shard[s].id # 0 /\ shard[s].id = gateway[s].id =>
                                    gateway[s].total = total[Owner[s]]

\* Saved positions do not go back, except that a dump of run_jobs may still land after
\* the sessions that real_main saved on Ctrl-C.
SavedNeverBack ==
    [][\A e \in sessions, f \in sessions' :
          e.shard = f.shard /\ e.id = f.id /\ stage[Owner[e.shard]] # "stopped" =>
             e.seq <= f.seq]_vars

\* If a process is left running, then in the end its shards have resumed or opened a
\* session, have received all that Discord sent in it, and every event is published
\* (or its failure logged).
CaughtUp ==
    \A p \in Processes :
        <>[](stage[p] = "running") =>
            <>[](/\ OwnEvents(p) = {}
                 /\ \A s \in Own(p) : /\ shard[s].st = "active"
                                      /\ shard[s].seq = gateway[s].sent)

\* README: "you will not lose a single event".  While a process is off, the events that
\* Discord will not replay have been published.
NotASingleEventLost ==
    \A e \in sessions :
        stage[Owner[e.shard]] = "off" /\ e.id = gateway[e.shard].id =>
            \A n \in 1 .. e.seq : <<e.shard, e.id, n>> \in published

\* README: "Even when a restart is required, twilight-dispatch will resume the sessions".
\* A shard opens a new session only if it had none, or Discord gave up the one it had.
SessionsResumed ==
    [][\A s \in Shards : gateway'[s].id # gateway[s].id => ~gateway[s].live]_vars

\* README: "Resumable sessions after restart".  What a process has saved is there until it
\* starts again; but run_jobs of another one overwrites the key with its own shards.
SavedUntilRestart ==
    [][\A e \in sessions : stage[Owner[e.shard]] = "off" =>
          \E f \in sessions' : f.shard = e.shard]_vars
=============================================================================
