----------------------------- MODULE StateCache -----------------------------
(***************************************************************************)
(* The state cache of cache.rs, driven by the event loop of handler.rs.    *)
(*                                                                         *)
(* `outgoing` takes the events of a cluster off its stream one by one and  *)
(* spawns a task for each; a task runs `cache::update`, a sequence of      *)
(* Redis commands with an await at each of them.  The tasks of events that *)
(* arrive close together therefore interleave command by command.  Ready   *)
(* is the exception: the loop itself runs its update and takes no further  *)
(* event before that is over.  `run_jobs` purges expired keys meanwhile.   *)
(*                                                                         *)
(* A worker is a task, the loop or the purge job.  It holds the operation  *)
(* it is executing and the ones that follow; each action below is the next *)
(* Redis command of one worker, and Redis executes commands one at a time. *)
(***************************************************************************)
EXTENDS CacheUpdate

CONSTANTS
    Tasks,            \* tasks that can be in flight at once
    MaxEvents,        \* bound on the number of events of a behaviour
    Kinds,            \* the kinds of event the gateway sends
    Faults            \* whether Redis commands may fail and the process may restart

Loop == "loop"        \* `outgoing` itself, while it updates the state for Ready
Purge == "purge"      \* the expiry part of `run_jobs`
Workers == Tasks \cup {Loop, Purge}

ASSUME StateCacheAssumption ==
    /\ {Loop, Purge} \cap Tasks = {}
    /\ MaxEvents \in Nat
    /\ Kinds \subseteq AllKinds
    /\ Faults \in BOOLEAN

VARIABLES
    store,        \* the value of each stored key: the number of the event that wrote it
    idx,          \* the helper sets
    expiry,       \* the hash `expiry_keys`
    work,         \* what each worker is doing
    received,     \* number of events taken off the stream
    guild_events, \* the counter GUILD_EVENTS: what each counted event was counted as
    \* Auxiliary variables: they record history and influence no action.
    ref,          \* the store, had each event been applied at once on arrival
    raced,        \* keys that two overlapping workers, or a failed one, have touched
    drift,        \* keys whose last write overlapped a deletion, or was cut short
    untracked     \* keys whose last write overlapped a purge, or lost its expiry

redis == <<store, idx, expiry>>
aux == <<ref, raced, drift, untracked>>
vars == <<store, idx, expiry, work, received, guild_events, ref, raced, drift, untracked>>

Events == {e \in Event : e.kind \in Kinds /\ WellFormed(e)}

ExpiryKeys == MemberKeys \cup MessageKeys         \* the keys ever given an expiry
ExpiryStates == {"none", "fresh", "expired"}
-----------------------------------------------------------------------------
(* Workers. *)

Work == [ev : Event, n : Nat, cur : Op, rest : Seq(Op),
         old : SUBSET (StoredKeys \X Nat), prior : SUBSET (StoredKeys \X Nat)]

Idle == [ev |-> NoEvent, n |-> 0, cur |-> Nop, rest |-> <<>>, old |-> {}, prior |-> {}]

\* Worker w goes on with the operations ops.
GoOn(w, ops) ==
    [work[w] EXCEPT !.cur = IF ops = <<>> THEN Nop ELSE Head(ops),
                    !.rest = IF ops = <<>> THEN <<>> ELSE Tail(ops)]

\* Worker w has the helper sets `left` to update before its next operation.
Remaining(w, op, left) ==
    IF left = {} THEN GoOn(w, work[w].rest)
    ELSE [work[w] EXCEPT !.cur = [op |-> op, keys |-> work[w].cur.keys, left |-> left]]

At(w, op) == work[w].cur.op = op

\* Some worker other than w is in the middle of a set_all, or of a del_all, of s.
Adding(w, s) == \E v \in Workers \ {w} : At(v, "sadd") /\ s \in Stored(work[v].cur.keys)
Removing(w, s) == \E v \in Workers \ {w} : At(v, "srem") /\ s \in Stored(work[v].cur.keys)

\* The purge has deleted s and has not yet removed its expiry.
Purging(s) == /\ At(Purge, "srem") \/ At(Purge, "hdel")
              /\ s \in Stored(work[Purge].cur.keys)

\* The keys still adrift once w begins a set_all or del_all of K: it brings a key
\* back in line if nobody else is in the middle of one.
StillAdrift(w, K) == drift \ {s \in Stored(K) : ~Adding(w, s) /\ ~Removing(w, s)}
-----------------------------------------------------------------------------
(* The commands of set_all, del_all and expire_all. *)

\* MSET
Mset(w) ==
    /\ At(w, "set")
    /\ LET K == work[w].cur.keys
           clash == {s \in Stored(K) : Removing(w, s)}
       IN /\ store' = [s \in StoredKeys |-> IF s \in Stored(K) THEN work[w].n ELSE store[s]]
          /\ work' = [work EXCEPT ![w] = Remaining(w, "sadd", MemberIndexes(K))]
          /\ drift' = StillAdrift(w, K) \cup clash
          /\ raced' = raced \cup clash
          /\ untracked' = untracked \cup {s \in Stored(K) : Purging(s)}
    /\ UNCHANGED <<idx, expiry, received, guild_events, ref>>

\* Mutant of Sadd: only the first of the helper sets is updated.
SaddOnce(w) ==
    /\ At(w, "sadd")
    /\ \E i \in work[w].cur.left :
          idx' = [idx EXCEPT ![i] = @ \cup MembersFor(work[w].cur.keys, i)]
    /\ work' = [work EXCEPT ![w] = GoOn(w, work[w].rest)]
    /\ UNCHANGED <<store, expiry, received, guild_events, aux>>

\* SADD to one of the helper sets; a HashMap yields them in any order.
Sadd(w) ==
    /\ At(w, "sadd")
    /\ \E i \in work[w].cur.left :
          /\ idx' = [idx EXCEPT ![i] = @ \cup MembersFor(work[w].cur.keys, i)]
          /\ work' = [work EXCEPT ![w] = Remaining(w, "sadd", work[w].cur.left \ {i})]
    /\ UNCHANGED <<store, expiry, received, guild_events, aux>>

\* DEL
Delete(w) ==
    /\ At(w, "del")
    /\ LET K == work[w].cur.keys
           clash == {s \in Stored(K) : Adding(w, s)}
       IN /\ store' = [s \in StoredKeys |-> IF s \in Stored(K) THEN Nil ELSE store[s]]
          /\ work' = [work EXCEPT ![w] = Remaining(w, "srem", MemberIndexes(K))]
          /\ drift' = StillAdrift(w, K) \cup clash
          /\ raced' = raced \cup clash
    /\ UNCHANGED <<idx, expiry, received, guild_events, ref, untracked>>

\* Mutant of Srem: only the first of the helper sets is updated.
SremOnce(w) ==
    /\ At(w, "srem")
    /\ \E i \in work[w].cur.left :
          idx' = [idx EXCEPT ![i] = @ \ MembersFor(work[w].cur.keys, i)]
    /\ work' = [work EXCEPT ![w] = GoOn(w, work[w].rest)]
    /\ UNCHANGED <<store, expiry, received, guild_events, aux>>

\* SREM from one of the helper sets.
Srem(w) ==
    /\ At(w, "srem")
    /\ \E i \in work[w].cur.left :
          /\ idx' = [idx EXCEPT ![i] = @ \ MembersFor(work[w].cur.keys, i)]
          /\ work' = [work EXCEPT ![w] = Remaining(w, "srem", work[w].cur.left \ {i})]
    /\ UNCHANGED <<store, expiry, received, guild_events, aux>>

\* HSET expiry_keys
Hset(w) ==
    /\ At(w, "expire")
    /\ LET K == work[w].cur.keys IN
          /\ expiry' = [k \in ExpiryKeys |-> IF k \in K THEN "fresh" ELSE expiry[k]]
          /\ untracked' = untracked \ {k \in K : ~Purging(k)}
    /\ work' = [work EXCEPT ![w] = GoOn(w, work[w].rest)]
    /\ UNCHANGED <<store, idx, received, guild_events, ref, raced, drift>>
-----------------------------------------------------------------------------
(* The reads of `update`. *)

\* A worker has read r as the old value and goes on with ops.
ReadOld(w, r, ops) ==
    /\ work' = [work EXCEPT ![w] = [GoOn(w, ops) EXCEPT !.old = r]]
    /\ UNCHANGED <<redis, received, guild_events, aux>>

\* GET for `old`.
Get(w) ==
    /\ At(w, "get")
    /\ ReadOld(w, Found(store, work[w].cur.keys), work[w].rest)

\* MGET of the messages of a bulk deletion.
GetAll(w) ==
    /\ At(w, "get_all")
    /\ ReadOld(w, IF state_old THEN Found(store, work[w].cur.keys) ELSE {}, work[w].rest)

\* Mutant of Modify: an absent object is written as if it had been found.
ModifyAlways(w) ==
    /\ At(w, "modify")
    /\ LET found == Found(store, work[w].cur.keys) IN
          ReadOld(w,
                  IF state_old /\ work[w].ev.kind # "ChannelPinsUpdate" THEN found ELSE {},
                  work[w].rest)

\* GET of an object to be updated: nothing else is done if it is absent.
Modify(w) ==
    /\ At(w, "modify")
    /\ LET found == Found(store, work[w].cur.keys) IN
          ReadOld(w,
                  IF state_old /\ work[w].ev.kind # "ChannelPinsUpdate" THEN found ELSE {},
                  IF found = {} THEN <<>> ELSE work[w].rest)

\* clear_guild: SMEMBERS guild_keys:g, to be followed by the deletion of its members.
GetMembers(w) ==
    /\ At(w, "members")
    /\ ReadOld(w, {}, Del(idx[<<"guild", work[w].ev.guild>>]) \o work[w].rest)

\* Mutant of ClearGet: the guild is only read under state_old.
ClearGetIfOld(w) ==
    /\ At(w, "clear")
    /\ ReadOld(w, IF state_old THEN Found(store, work[w].cur.keys) ELSE {},
               Del(work[w].cur.keys) \o work[w].rest)

\* clear_guild: GET of the guild, to be followed by its deletion.
ClearGet(w) ==
    /\ At(w, "clear")
    /\ ReadOld(w, Found(store, work[w].cur.keys), Del(work[w].cur.keys) \o work[w].rest)

\* GuildEmojisUpdate: SMEMBERS guild_keys:g, of which the emoji keys are kept.
GetEmojiKeys(w) ==
    /\ At(w, "emoji_keys")
    /\ LET K == Of("emoji", idx[<<"guild", work[w].ev.guild>>]) IN
          ReadOld(w, {}, IF K = {} THEN Set(work[w].ev.keys) ELSE <<Do("emojis", K)>>)

\* GuildEmojisUpdate: MGET of the emojis, then those not in the event are deleted.
GetEmojis(w) ==
    /\ At(w, "emojis")
    /\ LET found == {k \in work[w].cur.keys : store[k] # Nil} IN
          ReadOld(w, IF state_old THEN Found(store, found) ELSE {},
                  Del(found \ work[w].ev.keys) \o Set(work[w].ev.keys))
-----------------------------------------------------------------------------
(* A command fails.  clear_guild ignores the failure of either of its reads *)
(* and skips the deletion that would follow; every other failure ends the   *)
(* update with an error, and the handler is left with no old value.  (When  *)
(* Redis executes a command and only its answer is lost, the outcome is     *)
(* that of the command followed by the failure of the next one.)            *)

\* The keys of a set_all or del_all that is cut short after its first command.
CutShort(w) == IF At(w, "sadd") \/ At(w, "srem") THEN Stored(work[w].cur.keys) ELSE {}

\* The keys that have been written and whose expiry is then never recorded.
LostExpiry(w) == IF At(w, "sadd") \/ At(w, "expire") THEN Stored(work[w].cur.keys) ELSE {}

\* Every key that the rest of the update of w might still have touched.
Unfinished(w) == Footprint(work[w].ev) \cup Stored(work[w].cur.keys)

Fail(w) ==
    /\ Faults
    /\ work[w].cur # Nop
    /\ work' = [work EXCEPT ![w] =
                    IF At(w, "members") \/ At(w, "clear") THEN GoOn(w, work[w].rest)
                    ELSE [GoOn(w, <<>>) EXCEPT !.old = {}]]
    /\ drift' = drift \cup CutShort(w)
    /\ untracked' = untracked \cup LostExpiry(w)
    /\ raced' = raced \cup Unfinished(w)
    /\ UNCHANGED <<redis, received, guild_events, ref>>

\* The process ends, on ctrl-c as well as by a crash, without waiting for its tasks, and
\* is started again.  Redis keeps the cache; the counters are lost.
Restart ==
    /\ Faults
    /\ work' = [w \in Workers |-> Idle]
    /\ guild_events' = {}
    /\ drift' = drift \cup UNION {CutShort(w) : w \in Workers}
    /\ untracked' = untracked \cup UNION {LostExpiry(w) : w \in Workers}
    /\ raced' = raced \cup UNION {Unfinished(w) : w \in Workers}
    /\ UNCHANGED <<redis, received, ref>>
-----------------------------------------------------------------------------
(* The event loop. *)

\* Mutant of Runners: Ready is spawned like every other event.
RunnersSpawned(e) == Tasks

\* Who may run the update of an event: the loop awaits that of Ready, the others are
\* spawned.
Runners(e) == IF e.kind = "Ready" THEN {Loop} ELSE Tasks

\* `outgoing` takes an event off the stream.
Receive(e) ==
    /\ received < MaxEvents
    /\ work[Loop] = Idle
    /\ \E w \in Runners(e) :
          /\ work[w] = Idle
          /\ LET ops == Script(e) IN
             work' = [work EXCEPT ![w] =
                        [ev |-> e, n |-> received + 1,
                         cur |-> IF ops = <<>> THEN Nop ELSE Head(ops),
                         rest |-> IF ops = <<>> THEN <<>> ELSE Tail(ops),
                         old |-> {}, prior |-> Holds(ref, OldOf(e))]]
    /\ received' = received + 1
    /\ ref' = Applied(ref, e, received + 1)
    /\ raced' = raced \cup
                (Footprint(e) \cap UNION {Footprint(work[v].ev) : v \in Workers})
    /\ UNCHANGED <<redis, guild_events, drift, untracked>>

\* The update is over: the rest of the handler, which counts joins and leaves.
Finish(w) ==
    /\ work[w] # Idle
    /\ work[w].cur = Nop
    /\ guild_events' = guild_events \cup
          CASE work[w].ev.kind = "GuildCreate" /\ work[w].old = {} -> {<<"Join", work[w].n>>}
            [] work[w].ev.kind = "GuildDelete" /\ ~work[w].ev.flag -> {<<"Leave", work[w].n>>}
            [] OTHER -> {}
    /\ work' = [work EXCEPT ![w] = Idle]
    /\ UNCHANGED <<redis, received, aux>>
-----------------------------------------------------------------------------
(* Expiry. *)

\* The clock passes the timestamp of an entry of expiry_keys.
Elapse(k) ==
    /\ expiry[k] = "fresh"
    /\ expiry' = [expiry EXCEPT ![k] = "expired"]
    /\ UNCHANGED <<store, idx, work, received, guild_events, aux>>

\* A mutant of Scan: the key is not removed.
ScanKeepsKeys ==
    LET K == {k \in ExpiryKeys : expiry[k] = "expired"} IN
    /\ work[Purge] = Idle
    /\ K # {}
    /\ work' = [work EXCEPT ![Purge] = [Idle EXCEPT !.cur = Do("hdel", K)]]
    /\ UNCHANGED <<redis, received, guild_events, aux>>

\* run_jobs: HGETALL expiry_keys, then del_all and hdel of the expired keys.
Scan ==
    LET K == {k \in ExpiryKeys : expiry[k] = "expired"} IN
    /\ work[Purge] = Idle
    /\ K # {}
    /\ work' = [work EXCEPT ![Purge] =
                    [Idle EXCEPT !.cur = Do("del", K), !.rest = <<Do("hdel", K)>>]]
    /\ UNCHANGED <<redis, received, guild_events, aux>>

\* HDEL expiry_keys
Hdel(w) ==
    /\ At(w, "hdel")
    /\ expiry' = [k \in ExpiryKeys |-> IF k \in work[w].cur.keys THEN "none" ELSE expiry[k]]
    /\ work' = [work EXCEPT ![w] = GoOn(w, work[w].rest)]
    /\ UNCHANGED <<store, idx, received, guild_events, aux>>
-----------------------------------------------------------------------------
Init ==
    /\ store = [s \in StoredKeys |-> Nil]
    /\ idx = [i \in Indexes |-> {}]
    /\ expiry = [k \in ExpiryKeys |-> "none"]
    /\ work = [w \in Workers |-> Idle]
    /\ received = 0
    /\ guild_events = {}
    /\ ref = [s \in StoredKeys |-> Nil]
    /\ raced = {}
    /\ drift = {}
    /\ untracked = {}

Command(w) ==
    \/ Mset(w) \/ Sadd(w) \/ Delete(w) \/ Srem(w) \/ Hset(w) \/ Hdel(w)
    \/ Get(w) \/ GetAll(w) \/ Modify(w) \/ GetMembers(w) \/ ClearGet(w)
    \/ GetEmojiKeys(w) \/ GetEmojis(w)

Next ==
    \/ \E e \in Events : Receive(e)
    \/ \E w \in Workers : Command(w) \/ Fail(w) \/ Finish(w)
    \/ Scan
    \/ Restart
    \/ \E k \in ExpiryKeys : Elapse(k)

Spec == Init /\ [][Next]_vars

\* The tasks, the loop and the purge job are tokio tasks, each polled again as long as
\* it can go on; wall-clock time passes.  The gateway owes no further event.
Fairness ==
    /\ \A w \in Workers : WF_vars(Command(w)) /\ WF_vars(Finish(w))
    /\ WF_vars(Scan)
    /\ \A k \in ExpiryKeys : WF_vars(Elapse(k))

FairSpec == Spec /\ Fairness
-----------------------------------------------------------------------------
(* Properties. *)

\* Every variable stays within its type: workers only ever hold operations on known
\* keys, and Redis only ever holds keys and values that the handlers produce.
TypeOK ==
    /\ store \in [StoredKeys -> Nat]
    /\ idx \in [Indexes -> SUBSET StoredKeys]
    /\ expiry \in [ExpiryKeys -> ExpiryStates]
    /\ work \in [Workers -> Work]
    /\ received \in Nat
    /\ guild_events \in SUBSET ({"Join", "Leave"} \X Nat)
    /\ ref \in [StoredKeys -> Nat]
    /\ raced \in SUBSET StoredKeys
    /\ drift \in SUBSET StoredKeys
    /\ untracked \in SUBSET StoredKeys

\* w has yet to add s to, or remove it from, the helper set i.
WillAdd(w, i, s) ==
    At(w, "sadd") /\ i \in work[w].cur.left /\ s \in MembersFor(work[w].cur.keys, i)
WillRemove(w, i, s) ==
    At(w, "srem") /\ i \in work[w].cur.left /\ s \in MembersFor(work[w].cur.keys, i)

\* A key that is in the cache is in every helper set it belongs to, or a worker is
\* about to add it: set_all and del_all of one key can lose it from a helper set, where
\* clear_guild would never find it again, only if they overlap or if one is cut short.
IndexCoversStore ==
    \A k \in EventKeys :
        store[StoredKey(k)] # Nil /\ StoredKey(k) \notin drift =>
            \A i \in IndexesOf(k) : \/ StoredKey(k) \in idx[i]
                                    \/ \E w \in Workers : WillAdd(w, i, StoredKey(k))

\* A helper set that can be told from the stored form of a key names no key that is
\* gone, unless a worker is about to remove it: the purge and the deletions of `update`
\* clean these sets up, so the counts get_state_stats reports do not creep upwards.
IndexHasNoGhosts ==
    \A s \in StoredKeys : \A i \in IndexesOf(s) :
        s \in idx[i] /\ s \notin drift =>
            store[s] # Nil \/ \E w \in Workers : WillRemove(w, i, s)

\* Once every event that concerns a key has been dealt with, the cache holds for it
\* what applying the events one at a time in gateway order gives, evicted keys aside;
\* this fails only for a key two overlapping handlers have touched or a failure hit.
ConvergesToReference ==
    \A s \in StoredKeys \ raced :
        (\A w \in Workers : s \notin Footprint(work[w].ev)) =>
            store[s] = ref[s] \/ (s \in ExpiryKeys /\ store[s] = Nil)

\* The old value `update` hands to the handler is the state just before the event, in
\* gateway order (evicted objects are missing from it), if no other handler interferes.
\* A GuildCreate for a guild listed by Ready is thus not counted as a join.
OldIsPrevious ==
    \A w \in Tasks :
        work[w].cur = Nop /\ Footprint(work[w].ev) \cap raced = {} =>
            /\ work[w].old \subseteq work[w].prior
            /\ \A p \in work[w].prior \ work[w].old : p[1] \in ExpiryKeys

\* Ready never replaces the record of a guild, or the bot's user, by older data: its
\* update runs in the loop, so it only ever overwrites what earlier events wrote,
\* however slow Redis is and whatever the guild's other handlers are doing.
ReadyNeverClobbers ==
    [][\A s \in StoredKeys, w \in Workers :
          work[w].ev.kind = "Ready" /\ store'[s] # store[s] /\ store'[s] = work[w].n
            => store[s] < store'[s]]_vars

\* An object that is to expire is listed in expiry_keys, or its writer is about to list
\* it: a cached member or message escapes the purge for good only if it was written
\* while the purge was between the deletion of its key and that of its expiry.
ExpiryTracked ==
    \A s \in MessageKeys \cup (IF state_member THEN MemberKeys ELSE {}) :
        store[s] # Nil /\ s \notin untracked =>
            \/ expiry[s] # "none"
            \/ \E w \in Workers : /\ At(w, "sadd") \/ At(w, "expire")
                                  /\ s \in work[w].cur.keys

\* Every cached member and message is evicted in the end if it is not written again.
EvictedEventually ==
    \A s \in MessageKeys \cup (IF state_member THEN MemberKeys ELSE {}) :
        []<>(store[s] = Nil \/ s \in untracked)
-----------------------------------------------------------------------------
(* Properties the documentation states and the code does not keep. *)

Quiescent == \A w \in Workers : work[w] = Idle

\* "`guild_keys:guild_id` | List of keys related to a guild": no cached object is
\* missing from the helper sets of its kind and of its guild once all is quiet.
StoredKeysAreListed ==
    Quiescent => \A k \in EventKeys :
        store[StoredKey(k)] # Nil => \A i \in IndexesOf(k) : StoredKey(k) \in idx[i]

\* The same line: the helper set of a guild lists no key that is not in the cache.
GuildSetListsCachedKeys ==
    Quiescent => \A g \in Guilds : \A s \in idx[<<"guild", g>>] : store[s] # Nil

\* metrics.rs, help of GUILD_EVENTS: "Discord guild join and leave events".  With one guild
\* and one event at a time, the bot is not counted as joining it twice without leaving it.
JoinsMatchLeaves ==
    \A n, m \in 1 .. received :
        n < m /\ {<<"Join", n>>, <<"Join", m>>} \subseteq guild_events =>
            \E l \in n .. m : <<"Leave", l>> \in guild_events
=============================================================================
