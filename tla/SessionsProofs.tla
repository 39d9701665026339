--------------------------- MODULE SessionsProofs ---------------------------
(***************************************************************************)
(* For any processes, shards, restarts and crashes: no position that a     *)
(* shard may resume from runs ahead of the events it received, and what is *)
(* saved does not go back; and the shards run only sessions that were      *)
(* opened for their number of shards, as long as no process has taken up   *)
(* sessions which were not written under the number that Redis holds.      *)
(***************************************************************************)
EXTENDS Sessions, TLAPS
-----------------------------------------------------------------------------
(* Types. *)

\* An idle shard is a state of a shard.
LEMMA OffKnown == Off \in Known
  BY DEF Off, Known, States

\* The position of a shard is an entry of gateway_sessions.
LEMMA EntryType == ASSUME TypeOK, NEW s \in Shards PROVE EntryOf(s) \in Entry /\ shard[s] \in Known
  BY DEF TypeOK, EntryOf, Known, Entry

\* What a stream holds before and after an event is sent into it, ...
LEMMA SentWaiting ==
    ASSUME TypeOK, NEW s \in Shards, NEW e \in Event,
           stream' = [stream EXCEPT ![s] = Append(@, e)]
    PROVE /\ stream' \in [Shards -> Seq(Event)]
          /\ \A t \in Shards : Waiting(t) \subseteq Waiting(t)'
          /\ e \in Waiting(s)'
  <1>1. stream \in [Shards -> Seq(Event)] /\ stream[s] \in Seq(Event) /\ Len(stream[s]) \in Nat
    BY DEF TypeOK
  <1>2. /\ stream'[s] = Append(stream[s], e) /\ Append(stream[s], e) \in Seq(Event)
        /\ Len(stream'[s]) = Len(stream[s]) + 1
        /\ stream'[s][Len(stream[s]) + 1] = e
        /\ \A i \in 1 .. Len(stream[s]) : stream'[s][i] = stream[s][i]
    BY <1>1
  <1>3. \A t \in Shards : t # s => stream'[t] = stream[t]
    BY <1>1
  <1>4. stream' \in [Shards -> Seq(Event)]
    BY <1>1, <1>2
  <1>5. Len(stream[s]) + 1 \in 1 .. Len(stream'[s])
    BY <1>1, <1>2
  <1>6. \A i \in 1 .. Len(stream[s]) : i \in 1 .. Len(stream'[s])
    BY <1>1, <1>2
  <1>7. Waiting(s) \subseteq Waiting(s)'
    BY <1>2, <1>6 DEF Waiting
  <1>8. \A t \in Shards : Waiting(t) \subseteq Waiting(t)'
    BY <1>3, <1>7 DEF Waiting
  <1>9. e \in Waiting(s)'
    BY <1>2, <1>5 DEF Waiting
  <1> QED BY <1>4, <1>8, <1>9

\* ... and when `outgoing` takes its first one.
LEMMA TakenWaiting ==
    ASSUME TypeOK, NEW s \in Shards, Take(s)
    PROVE /\ stream' \in [Shards -> Seq(Event)] /\ Head(stream[s]) \in Event
          /\ \A t \in Shards : Waiting(t) \subseteq {Head(stream[s])} \cup Waiting(t)'
  <1>1. /\ stream \in [Shards -> Seq(Event)] /\ stream[s] \in Seq(Event)
        /\ Len(stream[s]) \in Nat /\ stream[s] # <<>>
    BY DEF TypeOK, Take
  <1>2. /\ Head(stream[s]) = stream[s][1] /\ Head(stream[s]) \in Event
        /\ Tail(stream[s]) \in Seq(Event) /\ Len(Tail(stream[s])) = Len(stream[s]) - 1
        /\ \A j \in 1 .. Len(stream[s]) - 1 : Tail(stream[s])[j] = stream[s][j + 1]
    BY <1>1
  <1>3. stream' = [stream EXCEPT ![s] = Tail(stream[s])]
    BY DEF Take
  <1>4. stream' \in [Shards -> Seq(Event)] /\ stream'[s] = Tail(stream[s])
    BY <1>1, <1>2, <1>3
  <1>5. ASSUME NEW i \in 1 .. Len(stream[s])
        PROVE stream[s][i] \in {Head(stream[s])} \cup Waiting(s)'
    <2>1. CASE i = 1
      BY <1>2, <2>1
    <2>2. CASE i # 1
      <3>1. i - 1 \in 1 .. Len(stream[s]) - 1 /\ (i - 1) + 1 = i
        BY <1>1, <2>2
      <3>2. stream'[s][i - 1] = stream[s][i] /\ i - 1 \in 1 .. Len(stream'[s])
        BY <1>2, <1>4, <3>1
      <3> QED BY <3>2 DEF Waiting
    <2> QED BY <2>1, <2>2
  <1>6. \A t \in Shards : t # s => Waiting(t)' = Waiting(t)
    BY <1>1, <1>3 DEF Waiting
  <1>7. Waiting(s) \subseteq {Head(stream[s])} \cup Waiting(s)'
    BY <1>5 DEF Waiting
  <1> QED BY <1>2, <1>4, <1>6, <1>7

\* What a shard counts, it sends into its stream.
LEMMA SentEvent ==
    ASSUME TypeOK, NEW s \in Shards, Identify(s) \/ Receive(s)
    PROVE /\ stream' \in [Shards -> Seq(Event)]
          /\ \A t \in Shards : Waiting(t) \subseteq Waiting(t)'
          /\ <<s, shard'[s].id, shard'[s].seq>> \in Waiting(s)'
  <1>0. /\ shard \in [Shards -> Known] /\ shard[s] \in Known /\ gateway[s] \in Session
    BY DEF TypeOK
  <1>1. /\ shard'[s].id \in Nat /\ shard'[s].seq \in Nat
        /\ stream' = [stream EXCEPT ![s] = Append(@, <<s, shard'[s].id, shard'[s].seq>>)]
    <2>1. CASE Identify(s)
      BY <1>0, <2>1 DEF Identify, Session
    <2>2. CASE Receive(s)
      <3>1. shard'[s].id = shard[s].id /\ shard'[s].seq = shard[s].seq + 1
        BY <1>0, <2>2 DEF Receive
      <3>2. shard'[s].id \in Nat /\ shard'[s].seq \in Nat
        BY <1>0, <3>1 DEF Known
      <3>3. stream' = [stream EXCEPT ![s] = Append(@, <<s, shard[s].id, shard[s].seq + 1>>)]
        BY <2>2 DEF Receive
      <3> QED BY <3>1, <3>2, <3>3
    <2> QED BY <2>1, <2>2
  <1>2. <<s, shard'[s].id, shard'[s].seq>> \in Event
    BY <1>1 DEF Event
  <1> QED BY <1>1, <1>2, SentWaiting

\* The events of a process are events.
LEMMA OwnEventsType == ASSUME TypeOK, NEW p \in Processes PROVE OwnEvents(p) \subseteq Event
  <1>1. ASSUME NEW s \in Shards PROVE Waiting(s) \subseteq Event
    <2>1. stream[s] \in Seq(Event)
      BY DEF TypeOK
    <2> QED BY <2>1 DEF Waiting
  <1> QED BY <1>1 DEF OwnEvents, Own, TypeOK

\* The steps of start-up, of the job and of the shut-down keep the types.
LEMMA ProcessTypes ==
    ASSUME TypeOK, NEW p \in Processes, ProcessStep(p)
    PROVE TypeOK'
  <1> USE SessionsAssumption DEF redis, events, aux
  <1>1. CASE Start(p)
    <2>1. PICK t \in Totals :
            /\ total' = [total EXCEPT ![p] = t]
            /\ stage' = [stage EXCEPT ![p] = IF resume /\ shards_key = t THEN "load" ELSE "announce"]
      BY <1>1 DEF Start
    <2>2. stage' \in [Processes -> Stages] /\ total' \in [Processes -> Totals \cup {0}]
      BY <2>1 DEF TypeOK, Stages
    <2>3. starts' \in Nat
      BY <1>1 DEF Start, TypeOK
    <2> QED BY <1>1, <2>2, <2>3 DEF Start, TypeOK
  <1>2. CASE Load(p)
    <2>1. stage' \in [Processes -> Stages] /\ resumes' \in [Processes -> SUBSET Entry]
      BY <1>2 DEF Load, TypeOK, Stages
    <2> QED BY <1>2, <2>1 DEF Load, TypeOK
  <1>3. CASE Announce(p)
    <2>1. stage' \in [Processes -> Stages]
      BY <1>3 DEF Announce, TypeOK, Stages
    <2>2. shards_key' \in Nat /\ behind' \in BOOLEAN
      BY <1>3 DEF Announce, TypeOK
    <2> QED BY <1>3, <2>1, <2>2 DEF Announce, TypeOK
  <1>4. CASE Collect(p)
    <2>1. {EntryOf(s) : s \in {t \in Own(p) : shard[t].st # "idle"}} \in SUBSET Entry
      BY EntryType DEF Own
    <2>2. dump' \in [Processes -> SUBSET SUBSET Entry]
      BY <1>4, <2>1 DEF Collect, TypeOK
    <2> QED BY <1>4, <2>2 DEF Collect, TypeOK
  <1>5. CASE Dump(p)
    <2>1. sessions' \subseteq Entry /\ dump' \in [Processes -> SUBSET SUBSET Entry]
      BY <1>5 DEF Dump, TypeOK
    <2> QED BY <1>5, <2>1 DEF Dump, TypeOK
  <1>6. CASE DumpFails(p)
    <2>1. dump' \in [Processes -> SUBSET SUBSET Entry]
      BY <1>6 DEF DumpFails, TypeOK
    <2> QED BY <1>6, <2>1 DEF DumpFails, TypeOK
  <1>7. CASE CtrlC(p)
    <2>1. {EntryOf(s) : s \in {t \in Own(p) : shard[t].id # 0}} \in SUBSET Entry
      BY EntryType DEF Own
    <2>2. stage' \in [Processes -> Stages] /\ final' \in [Processes -> SUBSET Entry]
      BY <1>7, <2>1 DEF CtrlC, TypeOK, Stages
    <2>3. \A s \in Shards : shard[s] \in Known /\ [shard[s] EXCEPT !.st = "closed"] \in Known
      BY DEF TypeOK, Known, States
    <2>4. shard' \in [Shards -> Known]
      BY <1>7, <2>3 DEF CtrlC
    <2> QED BY <1>7, <2>2, <2>4 DEF CtrlC, TypeOK
  <1>8. CASE Save(p)
    <2>1. stage' \in [Processes -> Stages] /\ sessions' \subseteq Entry
      BY <1>8 DEF Save, TypeOK, Stages
    <2> QED BY <1>8, <2>1 DEF Save, TypeOK
  <1>9. CASE End(p)
    <2>1. /\ stage' \in [Processes -> Stages] /\ resumes' \in [Processes -> SUBSET Entry]
          /\ dump' \in [Processes -> SUBSET SUBSET Entry] /\ final' \in [Processes -> SUBSET Entry]
      BY <1>9 DEF End, TypeOK, Stages
    <2>2. shard' \in [Shards -> Known]
      BY <1>9, OffKnown DEF End, TypeOK
    <2>3. inflight' \subseteq Event /\ dropped' \subseteq Event
      BY <1>9, OwnEventsType DEF End, TypeOK
    <2>4. stream' \in [Shards -> Seq(Event)]
      <3>1. <<>> \in Seq(Event)
        OBVIOUS
      <3> QED BY <1>9, <3>1 DEF End, TypeOK
    <2> QED BY <1>9, <2>1, <2>2, <2>3, <2>4 DEF End, TypeOK
  <1> QED BY <1>1, <1>2, <1>3, <1>4, <1>5, <1>6, <1>7, <1>8, <1>9 DEF ProcessStep

\* What a step of a shard makes of it.
LEMMA ShardTypes ==
    ASSUME TypeOK, NEW s \in Shards, ShardStep(s)
    PROVE TypeOK'
  <1> USE DEF redis, events, aux
  <1>0. /\ shard \in [Shards -> Known] /\ gateway \in [Shards -> Session]
        /\ shard[s] \in Known /\ gateway[s] \in Session /\ Owner[s] \in Processes
    BY SessionsAssumption DEF TypeOK
  <1>1. CASE ShardStart(s)
    <2>1. PICK k \in Known : shard' = [shard EXCEPT ![s] = k]
      <3>1. CASE shard' = [shard EXCEPT ![s].st = "handshake"]
        BY <1>0, <3>1 DEF Known, States
      <3>2. CASE \E e \in resumes[Owner[s]] :
                   shard' = [shard EXCEPT ![s] = [st |-> "handshake", id |-> e.id, seq |-> e.seq]]
        <4>1. resumes[Owner[s]] \subseteq Entry
          BY <1>0 DEF TypeOK
        <4> QED BY <3>2, <4>1 DEF Entry, Known, States
      <3> QED BY <1>1, <3>1, <3>2 DEF ShardStart
    <2>2. shard' \in [Shards -> Known]
      BY <1>0, <2>1
    <2> QED BY <1>1, <2>2 DEF ShardStart, TypeOK
  <1>2. CASE Resume(s)
    <2>1. shard' \in [Shards -> Known]
      BY <1>0, <1>2 DEF Resume, Known, States
    <2> QED BY <1>2, <2>1 DEF Resume, TypeOK
  <1>3. CASE Invalidate(s)
    <2>1. shard' \in [Shards -> Known] /\ gateway' \in [Shards -> Session]
      BY <1>0, <1>3 DEF Invalidate, Known, Session, States
    <2> QED BY <1>3, <2>1 DEF Invalidate, TypeOK
  <1>4. CASE Identify(s)
    <2>1. total[Owner[s]] \in Nat
      <3>1. total[Owner[s]] \in Totals \cup {0}
        BY <1>0 DEF TypeOK
      <3>2. \A x \in Totals : x \in Nat
        BY SessionsAssumption
      <3> QED BY <3>1, <3>2
    <2>2. shard' \in [Shards -> Known] /\ gateway' \in [Shards -> Session]
      BY <1>0, <1>4, <2>1 DEF Identify, Known, Session, States
    <2>3. stream' \in [Shards -> Seq(Event)]
      BY <1>4, SentEvent
    <2> QED BY <1>4, <2>2, <2>3 DEF Identify, TypeOK
  <1>5. CASE Emit(s)
    <2>1. gateway' \in [Shards -> Session]
      BY <1>0, <1>5 DEF Emit, Session
    <2> QED BY <1>5, <2>1 DEF Emit, TypeOK
  <1>6. CASE Receive(s)
    <2>1. shard' \in [Shards -> Known]
      BY <1>0, <1>6 DEF Receive, Known
    <2>2. stream' \in [Shards -> Seq(Event)]
      BY <1>6, SentEvent
    <2> QED BY <1>6, <2>1, <2>2 DEF Receive, TypeOK
  <1>7. CASE Take(s)
    <2>1. stream' \in [Shards -> Seq(Event)] /\ inflight' \subseteq Event
      BY <1>7, TakenWaiting DEF Take, TypeOK
    <2> QED BY <1>7, <2>1 DEF Take, TypeOK
  <1> QED BY <1>1, <1>2, <1>3, <1>4, <1>5, <1>6, <1>7 DEF ShardStep

\* Every step keeps the types.
LEMMA TypeStep == ASSUME TypeOK, [Next]_vars PROVE TypeOK'
  <1>1. ASSUME NEW e \in inflight, Publish(e) \/ PublishFails(e) PROVE TypeOK'
    BY <1>1 DEF Publish, PublishFails, TypeOK, redis
  <1>2. CASE UNCHANGED vars
    BY <1>2 DEF vars, TypeOK
  <1> QED BY <1>1, <1>2, ProcessTypes, ShardTypes DEF Next

\* The types hold at the start.
LEMMA TypeInit == Init => TypeOK
  <1> SUFFICES ASSUME Init PROVE TypeOK
    OBVIOUS
  <1>1. shard \in [Shards -> Known]
    BY OffKnown DEF Init
  <1>2. gateway \in [Shards -> Session]
    BY DEF Init, Session
  <1>3. stage \in [Processes -> Stages]
    BY DEF Init, Stages
  <1>4. stream \in [Shards -> Seq(Event)]
    BY DEF Init
  <1> QED BY <1>1, <1>2, <1>3, <1>4 DEF Init, TypeOK

\* Processes, shards, Redis and Discord keep their types across restarts.
THEOREM SessionsTypes == Spec => []TypeOK
  <1>1. TypeOK /\ [Next]_vars => TypeOK'
    BY TypeStep
  <1> QED BY <1>1, TypeInit, PTL DEF Spec
-----------------------------------------------------------------------------
(* Positions. *)

\* The events that a shard has received, whatever became of them.
Received == published \cup Coming \cup dropped

\* A position of which Discord may be told.
Sound(e) ==
    /\ e.id <= gateway[e.shard].id
    /\ e.id = gateway[e.shard].id => \A n \in 1 .. e.seq : <<e.shard, e.id, n>> \in Received

\* NothingSkipped, position by position.
LEMMA SkippedIsSound == NothingSkipped <=> \A e \in Positions : Sound(e)
  BY DEF NothingSkipped, Sound, Received

\* Positions are entries, wherever they are kept.
LEMMA PositionTypes == ASSUME TypeOK PROVE Positions \subseteq Entry
  <1>1. {EntryOf(s) : s \in Shards} \subseteq Entry
    BY EntryType
  <1>2. \A p \in Processes : resumes[p] \cup final[p] \cup UNION dump[p] \subseteq Entry
    BY DEF TypeOK
  <1> QED BY <1>1, <1>2 DEF Positions, TypeOK

\* An event that was received stays so, in the stream, with a task, and when it is published
\* or lost.
LEMMA ReceivedGrows == ASSUME TypeOK, [Next]_vars PROVE Received \subseteq Received'
  <1> USE DEF redis, events, aux
  <1>0. UNCHANGED stream => Coming' = inflight' \cup UNION {Waiting(s) : s \in Shards}
    BY DEF Coming, Waiting
  <1>1. ASSUME NEW p \in Processes, ProcessStep(p) PROVE Received \subseteq Received'
    <2>1. CASE End(p)
      <3>1. ASSUME NEW t \in Shards PROVE Waiting(t) \subseteq OwnEvents(p) \cup Waiting(t)'
        <4>1. CASE Owner[t] = p
          BY <4>1 DEF OwnEvents, Own
        <4>2. CASE Owner[t] # p
          <5>1. stream'[t] = stream[t]
            BY <2>1, <4>2 DEF End
          <5> QED BY <5>1 DEF Waiting
        <4> QED BY <4>1, <4>2
      <3>2. /\ published' = published /\ dropped' = dropped \cup OwnEvents(p)
            /\ inflight' = inflight \ OwnEvents(p)
        BY <2>1 DEF End
      <3> QED BY <3>1, <3>2 DEF Received, Coming
    <2>2. CASE \/ Start(p) \/ Load(p) \/ Announce(p) \/ Collect(p) \/ Dump(p) \/ DumpFails(p)
               \/ CtrlC(p) \/ Save(p)
      <3>1. UNCHANGED <<published, dropped, stream, inflight>>
        BY <2>2 DEF Start, Load, Announce, Collect, Dump, DumpFails, CtrlC, Save
      <3> QED BY <1>0, <3>1 DEF Received, Coming
    <2> QED BY <1>1, <2>1, <2>2 DEF ProcessStep
  <1>2. ASSUME NEW s \in Shards, ShardStep(s) PROVE Received \subseteq Received'
    <2>1. CASE ShardStart(s) \/ Resume(s) \/ Invalidate(s) \/ Emit(s)
      <3>1. UNCHANGED <<published, dropped, stream, inflight>>
        BY <2>1 DEF ShardStart, Resume, Invalidate, Emit
      <3> QED BY <1>0, <3>1 DEF Received, Coming
    <2>2. CASE Identify(s) \/ Receive(s)
      <3>1. \A t \in Shards : Waiting(t) \subseteq Waiting(t)'
        BY <2>2, SentEvent
      <3>2. UNCHANGED <<published, dropped, inflight>>
        BY <2>2 DEF Identify, Receive
      <3> QED BY <3>1, <3>2 DEF Received, Coming
    <2>3. CASE Take(s)
      <3>1. \A t \in Shards : Waiting(t) \subseteq {Head(stream[s])} \cup Waiting(t)'
        BY <2>3, TakenWaiting
      <3>2. UNCHANGED <<published, dropped>> /\ inflight' = inflight \cup {Head(stream[s])}
        BY <2>3 DEF Take
      <3> QED BY <3>1, <3>2 DEF Received, Coming
    <2> QED BY <1>2, <2>1, <2>2, <2>3 DEF ShardStep
  <1>3. ASSUME NEW e \in inflight, Publish(e) \/ PublishFails(e) PROVE Received \subseteq Received'
    BY <1>0, <1>3 DEF Publish, PublishFails, Received, Coming
  <1>4. CASE UNCHANGED vars
    BY <1>0, <1>4 DEF vars, Received, Coming
  <1> QED BY <1>1, <1>2, <1>3, <1>4 DEF Next

\* Discord numbers sessions upwards, and only Identify opens one.
LEMMA SessionIds ==
    ASSUME TypeOK, [Next]_vars
    PROVE \A s \in Shards : gateway'[s].id = gateway[s].id \/ (Identify(s) /\ gateway'[s].id = gateway[s].id + 1)
  <1> USE DEF redis, events, aux
  <1>0. gateway \in [Shards -> Session]
    BY DEF TypeOK
  <1>1. ASSUME NEW p \in Processes, ProcessStep(p) PROVE gateway' = gateway
    BY <1>1 DEF ProcessStep, Start, Load, Announce, Collect, Dump, DumpFails, CtrlC, Save, End
  <1>2. ASSUME NEW s \in Shards, ShardStep(s), NEW t \in Shards
        PROVE gateway'[t].id = gateway[t].id \/ (Identify(t) /\ gateway'[t].id = gateway[t].id + 1)
    <2>1. CASE ShardStart(s) \/ Resume(s) \/ Receive(s) \/ Take(s)
      BY <2>1 DEF ShardStart, Resume, Receive, Take
    <2>2. CASE Invalidate(s)
      BY <1>0, <2>2 DEF Invalidate, Session
    <2>3. CASE Emit(s)
      BY <1>0, <2>3 DEF Emit, Session
    <2>4. CASE Identify(s)
      BY <1>0, <2>4 DEF Identify, Session
    <2> QED BY <1>2, <2>1, <2>2, <2>3, <2>4 DEF ShardStep
  <1>3. ASSUME NEW e \in inflight, Publish(e) \/ PublishFails(e) PROVE gateway' = gateway
    BY <1>3 DEF Publish, PublishFails
  <1>4. CASE UNCHANGED vars
    BY <1>4 DEF vars
  <1> QED BY <1>1, <1>2, <1>3, <1>4 DEF Next

\* A position that was sound stays sound.
LEMMA SoundStays ==
    ASSUME TypeOK, [Next]_vars, NEW e \in Entry, Sound(e)
    PROVE Sound(e)'
  <1>1. gateway[e.shard].id \in Nat /\ e.id \in Nat /\ e.shard \in Shards
    BY DEF TypeOK, Session, Entry
  <1>2. gateway'[e.shard].id = gateway[e.shard].id \/ gateway'[e.shard].id = gateway[e.shard].id + 1
    BY <1>1, SessionIds
  <1> QED BY <1>1, <1>2, ReceivedGrows DEF Sound

\* The position of a shard before any session.
LEMMA ZeroSound ==
    ASSUME TypeOK, NEW s \in Shards, NEW e, e.shard = s, e.id = 0, e.seq = 0
    PROVE Sound(e)
  <1>1. gateway[s].id \in Nat
    BY DEF TypeOK, Session
  <1> QED BY <1>1 DEF Sound

\* Where the positions in Redis, and on their way to and from it, come from.
LEMMA CopiesStep ==
    ASSUME TypeOK, [Next]_vars
    PROVE /\ sessions' \subseteq Positions
          /\ \A p \in Processes : /\ resumes'[p] \subseteq Positions
                                  /\ final'[p] \subseteq Positions
                                  /\ UNION dump'[p] \subseteq Positions
  <1> USE DEF redis, events, aux
  <1>0. /\ sessions \subseteq Positions
        /\ \A q \in Processes : /\ resumes[q] \subseteq Positions /\ final[q] \subseteq Positions
                                /\ UNION dump[q] \subseteq Positions
        /\ \A s \in Shards : EntryOf(s) \in Positions
    BY DEF Positions
  <1>t. /\ resumes \in [Processes -> SUBSET Entry] /\ final \in [Processes -> SUBSET Entry]
        /\ dump \in [Processes -> SUBSET SUBSET Entry]
    BY DEF TypeOK
  <1>1. CASE UNCHANGED <<sessions, resumes, final, dump>>
    BY <1>0, <1>1
  <1>2. ASSUME NEW q \in Processes, ProcessStep(q)
        PROVE /\ sessions' \subseteq Positions
              /\ \A p \in Processes : /\ resumes'[p] \subseteq Positions
                                      /\ final'[p] \subseteq Positions
                                      /\ UNION dump'[p] \subseteq Positions
    <2>1. CASE Start(q) \/ Announce(q)
      BY <1>0, <2>1 DEF Start, Announce
    <2>2. CASE Load(q)
      BY <1>0, <1>t, <2>2 DEF Load
    <2>3. CASE Collect(q)
      <3>1. {EntryOf(s) : s \in {t \in Own(q) : shard[t].st # "idle"}} \subseteq Positions
        BY <1>0 DEF Own
      <3> QED BY <1>0, <1>t, <2>3, <3>1 DEF Collect
    <2>4. CASE Dump(q) \/ DumpFails(q)
      BY <1>0, <1>t, <2>4 DEF Dump, DumpFails
    <2>5. CASE CtrlC(q)
      <3>1. {EntryOf(s) : s \in {t \in Own(q) : shard[t].id # 0}} \subseteq Positions
        BY <1>0 DEF Own
      <3> QED BY <1>0, <1>t, <2>5, <3>1 DEF CtrlC
    <2>6. CASE Save(q)
      BY <1>0, <2>6 DEF Save
    <2>7. CASE End(q)
      BY <1>0, <1>t, <2>7 DEF End
    <2> QED BY <1>2, <2>1, <2>2, <2>3, <2>4, <2>5, <2>6, <2>7 DEF ProcessStep
  <1>3. ASSUME NEW s \in Shards, ShardStep(s) PROVE UNCHANGED <<sessions, resumes, final, dump>>
    BY <1>3 DEF ShardStep, ShardStart, Resume, Invalidate, Identify, Emit, Receive, Take
  <1>4. ASSUME NEW e \in inflight, Publish(e) \/ PublishFails(e)
        PROVE UNCHANGED <<sessions, resumes, final, dump>>
    BY <1>4 DEF Publish, PublishFails
  <1>5. CASE UNCHANGED vars
    BY <1>1, <1>5 DEF vars
  <1> QED BY <1>1, <1>2, <1>3, <1>4, <1>5 DEF Next

\* What becomes of the position that a shard itself has.
LEMMA ShardSound ==
    ASSUME TypeOK, NothingSkipped, [Next]_vars, NEW t \in Shards
    PROVE Sound(EntryOf(t))'
  <1> USE DEF redis, events, aux
  <1>0. /\ shard \in [Shards -> Known] /\ gateway \in [Shards -> Session]
        /\ shard[t] \in Known /\ gateway[t] \in Session /\ Owner[t] \in Processes
    BY SessionsAssumption DEF TypeOK
  <1>s. Sound(EntryOf(t)) /\ EntryOf(t) \in Entry
    BY SkippedIsSound, EntryType DEF Positions
  <1>k. CASE shard'[t].id = shard[t].id /\ shard'[t].seq = shard[t].seq
    <2>1. EntryOf(t)' = EntryOf(t)
      BY <1>k DEF EntryOf
    <2>3. gateway'[t].id = gateway[t].id \/ gateway'[t].id = gateway[t].id + 1
      BY SessionIds
    <2>4. shard[t].id \in Nat /\ gateway[t].id \in Nat
      BY <1>0 DEF Known, Session
    <2> QED BY <1>k, <1>s, <2>3, <2>4, ReceivedGrows DEF Sound, EntryOf
  <1>z. CASE shard'[t].id = 0 /\ shard'[t].seq = 0
    <2>1. gateway'[t].id \in Nat
      BY TypeStep DEF TypeOK, Session
    <2> QED BY <1>z, <2>1 DEF Sound, EntryOf
  <1>1. CASE ShardStart(t)
    <2>1. CASE shard' = [shard EXCEPT ![t].st = "handshake"]
      BY <1>0, <1>k, <2>1 DEF Known
    <2>2. ASSUME NEW e \in resumes[Owner[t]], e.shard = t,
                 shard' = [shard EXCEPT ![t] = [st |-> "handshake", id |-> e.id, seq |-> e.seq]]
          PROVE Sound(EntryOf(t))'
      <3>1. Sound(e)
        BY <1>0, SkippedIsSound DEF Positions
      <3>2. gateway' = gateway /\ Received \subseteq Received'
        BY <1>1, ReceivedGrows DEF ShardStart
      <3>3. EntryOf(t)' = [shard |-> t, id |-> e.id, seq |-> e.seq]
        BY <1>0, <2>2 DEF EntryOf
      <3> QED BY <2>2, <3>1, <3>2, <3>3 DEF Sound
    <2> QED BY <1>1, <2>1, <2>2 DEF ShardStart
  <1>2. CASE Resume(t) \/ Emit(t) \/ Take(t)
    BY <1>0, <1>2, <1>k DEF Resume, Emit, Take, Known
  <1>3. CASE Invalidate(t)
    BY <1>0, <1>3, <1>z DEF Invalidate
  <1>4. CASE Identify(t)
    <2>1. /\ shard'[t].id = gateway[t].id + 1 /\ shard'[t].seq = 1
          /\ gateway'[t].id = gateway[t].id + 1
          /\ <<t, gateway[t].id + 1, 1>> \in Received'
      <3>1. /\ shard'[t].id = gateway[t].id + 1 /\ shard'[t].seq = 1
            /\ gateway'[t].id = gateway[t].id + 1
        BY <1>0, <1>4 DEF Identify
      <3> QED BY <1>4, <3>1, SentEvent DEF Received, Coming
    <2>2. \A n \in 1 .. 1 : n = 1
      OBVIOUS
    <2>3. gateway[t].id + 1 <= gateway[t].id + 1
      BY <1>0 DEF Session
    <2> QED BY <2>1, <2>2, <2>3 DEF Sound, EntryOf
  <1>5. CASE Receive(t)
    <2>1. /\ shard'[t].id = shard[t].id /\ shard'[t].seq = shard[t].seq + 1
          /\ gateway' = gateway /\ shard[t].id = gateway[t].id
          /\ <<t, shard[t].id, shard[t].seq + 1>> \in Received' /\ Received \subseteq Received'
      <3>1. /\ shard'[t].id = shard[t].id /\ shard'[t].seq = shard[t].seq + 1
            /\ gateway' = gateway /\ shard[t].id = gateway[t].id
        BY <1>0, <1>5 DEF Receive
      <3>2. <<t, shard[t].id, shard[t].seq + 1>> \in Received'
        BY <1>5, <3>1, SentEvent DEF Received, Coming
      <3> QED BY <3>1, <3>2, ReceivedGrows
    <2>2. \A n \in 1 .. shard[t].seq : <<t, shard[t].id, n>> \in Received
      BY <1>s, <2>1 DEF Sound, EntryOf
    <2>3. \A n \in 1 .. shard[t].seq + 1 : n \in 1 .. shard[t].seq \/ n = shard[t].seq + 1
      BY <1>0 DEF Known
    <2>4. \A n \in 1 .. shard'[t].seq : <<t, shard[t].id, n>> \in Received'
      BY <2>1, <2>2, <2>3
    <2>5. shard[t].id <= gateway[t].id
      BY <1>0, <2>1 DEF Session
    <2> QED BY <2>1, <2>4, <2>5 DEF Sound, EntryOf
  <1>6. ASSUME NEW s \in Shards, s # t, ShardStep(s) PROVE shard'[t] = shard[t]
    BY <1>0, <1>6 DEF ShardStep, ShardStart, Resume, Invalidate, Identify, Emit, Receive, Take
  <1>7. ASSUME NEW p \in Processes, ProcessStep(p) PROVE Sound(EntryOf(t))'
    <2>1. CASE CtrlC(p)
      <3>1. shard'[t].id = shard[t].id /\ shard'[t].seq = shard[t].seq
        BY <1>0, <2>1 DEF CtrlC, Known
      <3> QED BY <1>k, <3>1
    <2>2. CASE End(p)
      <3>1. shard'[t] = Off \/ shard'[t] = shard[t]
        BY <1>0, <2>2 DEF End
      <3> QED BY <1>k, <1>z, <3>1 DEF Off
    <2>3. CASE Start(p) \/ Load(p) \/ Announce(p) \/ Collect(p) \/ Dump(p) \/ DumpFails(p) \/ Save(p)
      BY <1>k, <2>3 DEF Start, Load, Announce, Collect, Dump, DumpFails, Save
    <2> QED BY <1>7, <2>1, <2>2, <2>3 DEF ProcessStep
  <1>8. ASSUME NEW e \in inflight, Publish(e) \/ PublishFails(e) PROVE shard' = shard
    BY <1>8 DEF Publish, PublishFails
  <1>9. CASE UNCHANGED vars
    BY <1>9, <1>k DEF vars
  <1> QED BY <1>k, <1>1, <1>2, <1>3, <1>4, <1>5, <1>6, <1>7, <1>8, <1>9 DEF Next, ShardStep

\* No step puts a position ahead of the events received: what is copied was sound, and a
\* shard counts an event only when the event is on its way.
LEMMA SkippedStep == ASSUME TypeOK, NothingSkipped, [Next]_vars PROVE NothingSkipped'
  <1>1. \A e \in Positions : Sound(e)'
    <2> TAKE e \in Positions
    <2>1. e \in Entry /\ Sound(e)
      BY PositionTypes, SkippedIsSound
    <2> QED BY <2>1, SoundStays
  <1>2. ASSUME NEW e, e \in Positions' PROVE Sound(e)'
    <2>1. CASE \E t \in Shards : e = EntryOf(t)'
      <3>1. PICK t \in Shards : e = EntryOf(t)'
        BY <2>1
      <3>2. Sound(EntryOf(t))'
        BY ShardSound
      <3> QED BY <3>1, <3>2 DEF Sound, EntryOf
    <2>2. CASE e \in Positions
      BY <1>1, <2>2
    <2>3. \/ \E t \in Shards : e = EntryOf(t)'
          \/ e \in sessions'
          \/ \E p \in Processes : e \in resumes'[p] \cup final'[p] \cup UNION dump'[p]
      BY <1>2 DEF Positions
    <2>4. CASE e \in sessions'
      BY <2>2, <2>4, CopiesStep
    <2>5. ASSUME NEW p \in Processes, e \in resumes'[p] \cup final'[p] \cup UNION dump'[p]
          PROVE e \in Positions
      BY <2>5, CopiesStep
    <2> QED BY <2>1, <2>2, <2>3, <2>4, <2>5
  <1> QED BY <1>2 DEF NothingSkipped, Sound, Received

\* Discord is never told to skip an event that the service has not received: whatever
\* process wrote the position, however old it is, and wherever a process ended.
THEOREM SessionsNothingSkipped == Spec => []NothingSkipped
  <1>1. Init => NothingSkipped
    <2> SUFFICES ASSUME Init PROVE NothingSkipped
      OBVIOUS
    <2>1. \A e \in Positions : e.shard \in Shards /\ e.id = 0 /\ e.seq = 0
      BY DEF Init, Positions, EntryOf, Off
    <2>2. \A e \in Positions : Sound(e)
      BY <2>1, TypeInit, ZeroSound
    <2> QED BY <2>2, SkippedIsSound
  <1>2. TypeOK /\ NothingSkipped /\ [Next]_vars => NothingSkipped'
    BY SkippedStep
  <1> QED BY <1>1, <1>2, SessionsTypes, PTL DEF Spec
-----------------------------------------------------------------------------
(* Saved positions do not go back. *)

\* In one session of a shard, e does not come after f.
Le(e, f) == e.shard = f.shard /\ e.id = f.id => e.seq <= f.seq

\* Without a session there are no events.
Zero == \A e \in Positions : e.id = 0 => e.seq = 0

\* gateway_sessions, and what is written to it, has one entry for a shard.
Single(m) == \A e, f \in m : e.shard = f.shard => e = f
Singles == Single(sessions) /\ \A p \in Processes : Single(final[p]) /\ \A m \in dump[p] : Single(m)

\* A process writes the entries of its own shards, ...
Mine ==
    \A p \in Processes :
        /\ \A f \in final[p] : Owner[f.shard] = p
        /\ \A m \in dump[p] : \A f \in m : Owner[f.shard] = p /\ shard[f.shard].st # "idle"

\* ... which are idle, and have no dump under way, before it runs.
Quiet ==
    /\ \A p \in Processes : stage[p] \in {"off", "load"} => resumes[p] = {}
    /\ \A p \in Processes : stage[p] \notin Alive => dump[p] = {}
    /\ \A s \in Shards : /\ stage[Owner[s]] \notin Alive => shard[s].st = "idle"
                         /\ shard[s].st = "idle" => shard[s].id = 0
                         /\ shard[s].st = "active" => shard[s].id # 0

\* Until a process has saved the sessions on Ctrl-C, they are not ahead of what its idle
\* shards will resume from, of its other shards, of the dump under way, ...
Behind(e, p) ==
    /\ stage[p] # "load" /\ shard[e.shard].st = "idle" => \A r \in resumes[p] : Le(e, r)
    /\ shard[e.shard].st # "idle" => Le(e, EntryOf(e.shard))
    /\ \A m \in dump[p] : \A f \in m : Le(e, f)
NotAhead ==
    \A e \in sessions : stage[Owner[e.shard]] # "stopped" => Behind(e, Owner[e.shard])

\* ... which is not ahead of the shards, and those it is about to save are theirs.
Latest ==
    \A p \in Processes :
        /\ \A m \in dump[p] : \A f \in m : Le(f, EntryOf(f.shard))
        /\ stage[p] = "stopping" =>
              \A f \in final[p] : f = EntryOf(f.shard) /\ shard[f.shard].st # "idle"

\* The inductive invariant.
OrderInv == TypeOK /\ NothingSkipped /\ Zero /\ Singles /\ Mine /\ Quiet /\ NotAhead /\ Latest

\* A position does not come after itself.
LEMMA LeRefl == ASSUME NEW e \in Entry PROVE Le(e, e)
  BY DEF Le, Entry

\* What a step of a shard does to its position.
Moves(s) ==
    /\ stage[Owner[s]] = "running" /\ shard'[s].st # "idle"
    /\ shard'[s].st = "active" => shard'[s].id # 0
    /\ \/ shard[s].st = "idle" /\ shard'[s].id = 0 /\ shard'[s].seq = 0
       \/ /\ shard[s].st = "idle"
          /\ \E r \in resumes[Owner[s]] :
                r.shard = s /\ shard'[s].id = r.id /\ shard'[s].seq = r.seq
       \/ /\ shard[s].st # "idle"
          /\ \/ shard'[s].id = shard[s].id /\ shard'[s].seq = shard[s].seq
             \/ shard'[s].id = 0 /\ shard'[s].seq = 0
             \/ shard'[s].id = gateway[s].id + 1 /\ shard'[s].seq = 1
             \/ shard'[s].id = shard[s].id /\ shard[s].id # 0 /\ shard'[s].seq = shard[s].seq + 1

\* A step of a shard touches its own position only, and never takes it back within a
\* session.
LEMMA MovesStep ==
    ASSUME OrderInv, NEW s \in Shards, ShardStep(s)
    PROVE /\ UNCHANGED <<stage, resumes, dump, final, sessions>>
          /\ \A t \in Shards : t # s => shard'[t] = shard[t]
          /\ shard'[s] = shard[s] \/ Moves(s)
  <1> USE DEF redis, events, aux, OrderInv
  <1>0. /\ shard \in [Shards -> Known] /\ shard[s] \in Known /\ Owner[s] \in Processes
        /\ gateway[s].id \in Nat /\ shard[s].seq \in Nat
    BY SessionsAssumption DEF TypeOK, Session, Known
  <1>1. CASE ShardStart(s)
    <2>0. shard[s].st = "idle" /\ shard[s].id = 0 /\ shard[s].seq = 0 /\ stage[Owner[s]] = "running"
      <3>1. shard[s].st = "idle" /\ shard[s].id = 0 /\ stage[Owner[s]] = "running"
        BY <1>1 DEF ShardStart, Quiet, Running
      <3>2. EntryOf(s) \in Positions
        BY DEF Positions
      <3> QED BY <3>1, <3>2 DEF Zero, EntryOf
    <2>1. CASE shard' = [shard EXCEPT ![s].st = "handshake"]
      BY <1>0, <1>1, <2>0, <2>1 DEF ShardStart, Known, Moves
    <2>2. ASSUME NEW e \in resumes[Owner[s]], e.shard = s,
                 shard' = [shard EXCEPT ![s] = [st |-> "handshake", id |-> e.id, seq |-> e.seq]]
          PROVE Moves(s) /\ \A t \in Shards : t # s => shard'[t] = shard[t]
      BY <1>0, <2>0, <2>2 DEF Moves
    <2> QED BY <1>1, <2>1, <2>2 DEF ShardStart
  <1>2. CASE Resume(s)
    BY <1>0, <1>2 DEF Resume, Handshaking, Running, Known, Moves
  <1>3. CASE Invalidate(s)
    BY <1>0, <1>3 DEF Invalidate, Running, Moves
  <1>4. CASE Identify(s)
    BY <1>0, <1>4 DEF Identify, Handshaking, Running, Moves
  <1>5. CASE Emit(s) \/ Take(s)
    BY <1>5 DEF Emit, Take
  <1>6. CASE Receive(s)
    BY <1>0, <1>6 DEF Receive, Running, Known, Moves, Quiet
  <1> QED BY <1>1, <1>2, <1>3, <1>4, <1>5, <1>6 DEF ShardStep

\* The tasks of `outgoing` touch no position.
LEMMA InertStep ==
    ASSUME UNCHANGED vars \/ \E e \in inflight : Publish(e) \/ PublishFails(e)
    PROVE UNCHANGED <<stage, resumes, dump, final, sessions, shard>>
  BY DEF vars, Publish, PublishFails, redis

\* Zero is kept by every step.
LEMMA ZeroStep == ASSUME OrderInv, [Next]_vars PROVE Zero'
  <1> USE DEF redis, events, aux, OrderInv
  <1>0. \A e \in Positions : e.id = 0 => e.seq = 0
    BY DEF Zero
  <1>1. ASSUME NEW t \in Shards PROVE shard'[t].id = 0 => shard'[t].seq = 0
    <2>0. /\ shard[t].id = 0 => shard[t].seq = 0
          /\ \A r \in resumes[Owner[t]] : r.id = 0 => r.seq = 0
          /\ gateway[t].id \in Nat /\ shard[t] \in Known
      <3>1. EntryOf(t) \in Positions /\ resumes[Owner[t]] \subseteq Positions
        BY SessionsAssumption DEF Positions
      <3>2. gateway[t].id \in Nat /\ shard[t] \in Known
        BY DEF TypeOK, Session
      <3> QED BY <1>0, <3>1, <3>2 DEF EntryOf
    <2>1. ASSUME NEW s \in Shards, ShardStep(s) PROVE shard'[t].id = 0 => shard'[t].seq = 0
      BY <2>0, <2>1, MovesStep DEF Moves
    <2>2. ASSUME NEW p \in Processes, ProcessStep(p) PROVE shard'[t].id = 0 => shard'[t].seq = 0
      <3>1. CASE CtrlC(p)
        BY <2>0, <3>1 DEF CtrlC, Known
      <3>2. CASE End(p)
        BY <2>0, <3>2 DEF End, Off
      <3>3. CASE Start(p) \/ Load(p) \/ Announce(p) \/ Collect(p) \/ Dump(p) \/ DumpFails(p) \/ Save(p)
        BY <2>0, <3>3 DEF Start, Load, Announce, Collect, Dump, DumpFails, Save
      <3> QED BY <2>2, <3>1, <3>2, <3>3 DEF ProcessStep
    <2> QED BY <2>0, <2>1, <2>2, InertStep DEF Next
  <1>2. ASSUME NEW e, e \in Positions' PROVE e.id = 0 => e.seq = 0
    <2>1. \/ \E t \in Shards : e = EntryOf(t)'
          \/ e \in sessions'
          \/ \E p \in Processes : e \in resumes'[p] \cup final'[p] \cup UNION dump'[p]
      BY <1>2 DEF Positions
    <2>2. CASE \E t \in Shards : e = EntryOf(t)'
      BY <1>1, <2>2 DEF EntryOf
    <2>3. CASE e \in sessions'
      BY <1>0, <2>3, CopiesStep
    <2>4. ASSUME NEW p \in Processes, e \in resumes'[p] \cup final'[p] \cup UNION dump'[p]
          PROVE e \in Positions
      BY <2>4, CopiesStep
    <2> QED BY <1>0, <2>1, <2>2, <2>3, <2>4
  <1> QED BY <1>2 DEF Zero

\* What a process collects has one entry for a shard.
LEMMA CollectedSingle == ASSUME NEW S PROVE Single({EntryOf(s) : s \in S})
  BY DEF Single, EntryOf

\* Singles is kept: an entry replaces the one of its shard.
LEMMA SinglesStep == ASSUME OrderInv, [Next]_vars PROVE Singles'
  <1> USE DEF redis, events, aux, OrderInv
  <1>0. /\ final \in [Processes -> SUBSET Entry] /\ dump \in [Processes -> SUBSET SUBSET Entry]
        /\ Single({})
    BY DEF TypeOK, Single
  <1>1. ASSUME NEW p \in Processes, ProcessStep(p) PROVE Singles'
    <2>1. CASE Start(p) \/ Load(p) \/ Announce(p)
      BY <2>1 DEF Start, Load, Announce, Singles, Single
    <2>2. CASE Collect(p)
      <3> DEFINE m == {EntryOf(s) : s \in {t \in Own(p) : shard[t].st # "idle"}}
      <3>1. Single(m)
        BY CollectedSingle
      <3>2. dump' = [dump EXCEPT ![p] = {m}] /\ UNCHANGED <<final, sessions>>
        BY <2>2 DEF Collect
      <3> HIDE DEF m
      <3> QED BY <1>0, <3>1, <3>2 DEF Singles, Single
    <2>3. CASE Dump(p)
      BY <1>0, <2>3 DEF Dump, Singles, Single
    <2>4. CASE DumpFails(p)
      BY <1>0, <2>4 DEF DumpFails, Singles, Single
    <2>5. CASE CtrlC(p)
      <3> DEFINE m == {EntryOf(s) : s \in {t \in Own(p) : shard[t].id # 0}}
      <3>1. Single(m)
        BY CollectedSingle
      <3>2. final' = [final EXCEPT ![p] = m] /\ UNCHANGED <<dump, sessions>>
        BY <2>5 DEF CtrlC
      <3> HIDE DEF m
      <3> QED BY <1>0, <3>1, <3>2 DEF Singles, Single
    <2>6. CASE Save(p)
      BY <2>6 DEF Save, Singles, Single
    <2>7. CASE End(p)
      BY <1>0, <2>7 DEF End, Singles, Single
    <2> QED BY <1>1, <2>1, <2>2, <2>3, <2>4, <2>5, <2>6, <2>7 DEF ProcessStep
  <1>2. CASE \E s \in Shards : ShardStep(s)
    <2>1. UNCHANGED <<dump, final, sessions>>
      BY <1>2, MovesStep
    <2> QED BY <2>1 DEF Singles, Single
  <1>3. CASE UNCHANGED vars \/ \E e \in inflight : Publish(e) \/ PublishFails(e)
    <2>1. UNCHANGED <<dump, final, sessions>>
      BY <1>3, InertStep
    <2> QED BY <2>1 DEF Singles, Single
  <1> QED BY <1>1, <1>2, <1>3 DEF Next

\* Mine is kept: a process makes its dumps and its final save from its own shards.
LEMMA MineStep == ASSUME OrderInv, [Next]_vars PROVE Mine'
  <1> USE DEF redis, events, aux, OrderInv
  <1>0. /\ final \in [Processes -> SUBSET Entry] /\ dump \in [Processes -> SUBSET SUBSET Entry]
        /\ shard \in [Shards -> Known] /\ \A e \in Entry : e.shard \in Shards
    BY DEF TypeOK, Entry
  <1>d. \A p \in Processes : \A m \in dump[p] : \A f \in m : f.shard \in Shards
    BY <1>0
  <1>1. ASSUME NEW p \in Processes, ProcessStep(p) PROVE Mine'
    <2>1. CASE Start(p) \/ Load(p) \/ Announce(p) \/ Save(p)
      BY <2>1 DEF Start, Load, Announce, Save, Mine
    <2>2. CASE Collect(p)
      <3> DEFINE m == {EntryOf(s) : s \in {t \in Own(p) : shard[t].st # "idle"}}
      <3>1. \A f \in m : Owner[f.shard] = p /\ shard[f.shard].st # "idle"
        BY DEF Own, EntryOf
      <3>2. dump' = [dump EXCEPT ![p] = {m}] /\ UNCHANGED <<final, shard>>
        BY <2>2 DEF Collect
      <3> HIDE DEF m
      <3> QED BY <1>0, <3>1, <3>2 DEF Mine
    <2>3. CASE Dump(p) \/ DumpFails(p)
      BY <1>0, <2>3 DEF Dump, DumpFails, Mine
    <2>4. CASE CtrlC(p)
      <3> DEFINE m == {EntryOf(s) : s \in {t \in Own(p) : shard[t].id # 0}}
      <3>1. \A f \in m : Owner[f.shard] = p
        BY DEF Own, EntryOf
      <3>2. final' = [final EXCEPT ![p] = m] /\ dump' = dump
        BY <2>4 DEF CtrlC
      <3> HIDE DEF m
      <3>3. \A t \in Shards : shard[t].st # "idle" => shard'[t].st # "idle"
        BY <1>0, <2>4 DEF CtrlC, Known
      <3> QED BY <1>0, <1>d, <3>1, <3>2, <3>3 DEF Mine
    <2>5. CASE End(p)
      <3>1. \A t \in Shards : Owner[t] # p => shard'[t] = shard[t]
        BY <2>5 DEF End
      <3>2. /\ final' = [final EXCEPT ![p] = {}] /\ dump' = [dump EXCEPT ![p] = {}]
        BY <2>5 DEF End
      <3> QED BY <1>0, <1>d, <3>1, <3>2 DEF Mine
    <2> QED BY <1>1, <2>1, <2>2, <2>3, <2>4, <2>5 DEF ProcessStep
  <1>2. CASE \E s \in Shards : ShardStep(s)
    <2>1. UNCHANGED <<dump, final>> /\ \A t \in Shards : shard[t].st # "idle" => shard'[t].st # "idle"
      BY <1>2, MovesStep DEF Moves
    <2> QED BY <1>d, <2>1 DEF Mine
  <1>3. CASE UNCHANGED vars \/ \E e \in inflight : Publish(e) \/ PublishFails(e)
    BY <1>3, InertStep DEF Mine
  <1> QED BY <1>1, <1>2, <1>3 DEF Next

\* Quiet is kept by every step.
LEMMA QuietStep == ASSUME OrderInv, [Next]_vars PROVE Quiet'
  <1> USE DEF redis, events, aux, OrderInv
  <1>0. /\ stage \in [Processes -> Stages] /\ resumes \in [Processes -> SUBSET Entry]
        /\ dump \in [Processes -> SUBSET SUBSET Entry] /\ shard \in [Shards -> Known]
        /\ \A s \in Shards : Owner[s] \in Processes
    BY SessionsAssumption DEF TypeOK
  <1>1. ASSUME NEW p \in Processes, ProcessStep(p) PROVE Quiet'
    <2>1. CASE Start(p)
      <3>1. stage[p] = "off" /\ UNCHANGED <<resumes, dump, shard>>
        BY <2>1 DEF Start
      <3>2. stage'[p] \in {"load", "announce"} /\ \A q \in Processes : q # p => stage'[q] = stage[q]
        BY <1>0, <2>1 DEF Start
      <3> QED BY <1>0, <3>1, <3>2 DEF Quiet, Alive
    <2>2. CASE Load(p)
      BY <1>0, <2>2 DEF Load, Quiet, Alive
    <2>3. CASE Announce(p)
      BY <1>0, <2>3 DEF Announce, Quiet, Alive
    <2>4. CASE Collect(p)
      BY <1>0, <2>4 DEF Collect, Quiet
    <2>5. CASE Dump(p) \/ DumpFails(p)
      BY <1>0, <2>5 DEF Dump, DumpFails, Quiet
    <2>6. CASE CtrlC(p)
      <3>1. stage[p] = "running" /\ stage' = [stage EXCEPT ![p] = "stopping"] /\ UNCHANGED <<resumes, dump>>
        BY <2>6 DEF CtrlC
      <3>2. \A t \in Shards : /\ shard'[t].id = shard[t].id
                              /\ shard'[t].st = "idle" <=> shard[t].st = "idle"
                              /\ shard'[t].st = "active" => shard[t].st = "active"
        BY <1>0, <2>6 DEF CtrlC, Known
      <3> QED BY <1>0, <3>1, <3>2 DEF Quiet, Alive
    <2>7. CASE Save(p)
      BY <1>0, <2>7 DEF Save, Quiet, Alive
    <2>8. CASE End(p)
      <3>1. \A t \in Shards : IF Owner[t] = p THEN shard'[t].st = "idle" /\ shard'[t].id = 0
                                              ELSE shard'[t] = shard[t]
        BY <2>8 DEF End, Off
      <3>2. /\ stage' = [stage EXCEPT ![p] = "off"] /\ resumes' = [resumes EXCEPT ![p] = {}]
            /\ dump' = [dump EXCEPT ![p] = {}]
        BY <2>8 DEF End
      <3> QED BY <1>0, <3>1, <3>2 DEF Quiet
    <2> QED BY <1>1, <2>1, <2>2, <2>3, <2>4, <2>5, <2>6, <2>7, <2>8 DEF ProcessStep
  <1>2. ASSUME NEW s \in Shards, ShardStep(s) PROVE Quiet'
    <2>1. /\ UNCHANGED <<stage, resumes, dump>>
          /\ \A t \in Shards : t # s => shard'[t] = shard[t]
          /\ \/ shard'[s] = shard[s]
             \/ /\ stage[Owner[s]] = "running" /\ shard'[s].st # "idle"
                /\ shard'[s].st = "active" => shard'[s].id # 0
      BY <1>2, MovesStep DEF Moves
    <2> QED BY <2>1 DEF Quiet, Alive
  <1>3. CASE UNCHANGED vars \/ \E e \in inflight : Publish(e) \/ PublishFails(e)
    BY <1>3, InertStep DEF Quiet
  <1> QED BY <1>1, <1>2, <1>3 DEF Next

\* A shard that moves stays behind no saved or collected position of its own.
LEMMA MovesAhead ==
    ASSUME OrderInv, NEW s \in Shards, Moves(s), shard[s].st # "idle",
           NEW e \in Entry, e \in Positions, e.shard = s, Le(e, EntryOf(s))
    PROVE Le(e, EntryOf(s)')
  <1>1. e.id = 0 => e.seq = 0
    BY DEF OrderInv, Zero
  <1>2. e.id <= gateway[s].id /\ gateway[s].id \in Nat /\ e.id \in Nat /\ e.seq \in Nat
    BY DEF OrderInv, NothingSkipped, TypeOK, Session, Entry
  <1>3. shard[s].seq \in Nat
    BY DEF OrderInv, TypeOK, Known
  <1> QED BY <1>1, <1>2, <1>3 DEF Moves, Le, EntryOf

\* Latest is kept: what is on its way to Redis was copied from the shards, which only go
\* on.
LEMMA LatestStep == ASSUME OrderInv, [Next]_vars PROVE Latest'
  <1> USE DEF redis, events, aux, OrderInv
  <1>0. /\ final \in [Processes -> SUBSET Entry] /\ dump \in [Processes -> SUBSET SUBSET Entry]
        /\ shard \in [Shards -> Known] /\ stage \in [Processes -> Stages]
        /\ \A e \in Entry : e.shard \in Shards
    BY DEF TypeOK, Entry
  <1>d. /\ \A p \in Processes : \A m \in dump[p] : \A f \in m : f \in Entry /\ f \in Positions
        /\ \A p \in Processes : \A f \in final[p] : f \in Entry
    BY <1>0 DEF Positions
  <1>1. ASSUME NEW p \in Processes, ProcessStep(p) PROVE Latest'
    <2>1. CASE Start(p) \/ Load(p) \/ Announce(p) \/ Save(p)
      <3>1. UNCHANGED <<dump, final, shard>> /\ \A q \in Processes : stage'[q] = "stopping" => stage[q] = "stopping"
        BY <1>0, <2>1 DEF Start, Load, Announce, Save
      <3> QED BY <3>1 DEF Latest, EntryOf
    <2>2. CASE Collect(p)
      <3> DEFINE m == {EntryOf(s) : s \in {t \in Own(p) : shard[t].st # "idle"}}
      <3>1. \A f \in m : Le(f, EntryOf(f.shard))
        <4>1. ASSUME NEW t \in Own(p) PROVE Le(EntryOf(t), EntryOf(EntryOf(t).shard))
          <5>1. EntryOf(t) \in Entry /\ EntryOf(t).shard = t
            BY EntryType DEF Own, EntryOf
          <5> QED BY <5>1, LeRefl
        <4> QED BY <4>1
      <3>2. dump' = [dump EXCEPT ![p] = {m}] /\ UNCHANGED <<final, shard, stage>>
        BY <2>2 DEF Collect
      <3> HIDE DEF m
      <3>3. \A q \in Processes : \A k \in dump'[q] : k = m \/ k \in dump[q]
        BY <1>0, <3>2
      <3>4. \A t : EntryOf(t)' = EntryOf(t)
        BY <3>2 DEF EntryOf
      <3>5. \A q \in Processes : \A k \in dump'[q] : \A f \in k : Le(f, EntryOf(f.shard)')
        BY <3>1, <3>3, <3>4 DEF Latest
      <3>6. \A f : Le(f, EntryOf(f.shard)') <=> Le(f, EntryOf(f.shard))'
        BY DEF Le, EntryOf
      <3> QED BY <3>2, <3>4, <3>5, <3>6 DEF Latest
    <2>3. CASE Dump(p) \/ DumpFails(p)
      <3>1. UNCHANGED <<final, shard, stage>> /\ \A q \in Processes : dump'[q] \subseteq dump[q]
        BY <1>0, <2>3 DEF Dump, DumpFails
      <3> QED BY <3>1 DEF Latest, EntryOf, Le
    <2>4. CASE CtrlC(p)
      <3> DEFINE m == {EntryOf(s) : s \in {t \in Own(p) : shard[t].id # 0}}
      <3>1. \A f \in m : f = EntryOf(f.shard) /\ f.shard \in Shards /\ shard[f.shard].st # "idle"
        BY DEF Own, EntryOf, Quiet
      <3>2. final' = [final EXCEPT ![p] = m] /\ dump' = dump /\ stage' = [stage EXCEPT ![p] = "stopping"]
        BY <2>4 DEF CtrlC
      <3> HIDE DEF m
      <3>3. \A t \in Shards : /\ shard'[t].id = shard[t].id /\ shard'[t].seq = shard[t].seq
                              /\ shard[t].st # "idle" => shard'[t].st # "idle"
        BY <1>0, <2>4 DEF CtrlC, Known
      <3>4. \A t \in Shards : EntryOf(t)' = EntryOf(t)
        BY <3>3 DEF EntryOf
      <3>5. \A q \in Processes : stage'[q] = "stopping" => final'[q] = m \/ (stage[q] = "stopping" /\ final'[q] = final[q])
        BY <1>0, <3>2
      <3>6. \A q \in Processes : stage'[q] = "stopping" =>
               \A f \in final'[q] : f = EntryOf(f.shard)' /\ shard'[f.shard].st # "idle"
        BY <1>0, <1>d, <3>1, <3>3, <3>4, <3>5 DEF Latest
      <3>7. \A q \in Processes : \A k \in dump'[q] : \A f \in k : Le(f, EntryOf(f.shard)')
        BY <1>0, <1>d, <3>2, <3>4 DEF Latest
      <3>8. \A f : Le(f, EntryOf(f.shard)') <=> Le(f, EntryOf(f.shard))'
        BY DEF Le, EntryOf
      <3> QED BY <3>6, <3>7, <3>8 DEF Latest
    <2>5. CASE End(p)
      <3>1. \A t \in Shards : Owner[t] # p => shard'[t] = shard[t]
        BY <2>5 DEF End
      <3>2. \A q \in Processes : q # p => /\ final'[q] = final[q] /\ dump'[q] = dump[q]
                                          /\ stage'[q] = stage[q]
        BY <2>5 DEF End
      <3>3. final'[p] = {} /\ dump'[p] = {}
        BY <1>0, <2>5 DEF End
      <3>4. \A q \in Processes : q # p => /\ \A f \in final[q] : Owner[f.shard] # p
                                          /\ \A k \in dump[q] : \A f \in k : Owner[f.shard] # p
        BY DEF Mine
      <3> QED BY <1>0, <1>d, <3>1, <3>2, <3>3, <3>4 DEF Latest, EntryOf, Le
    <2> QED BY <1>1, <2>1, <2>2, <2>3, <2>4, <2>5 DEF ProcessStep
  <1>2. ASSUME NEW s \in Shards, ShardStep(s) PROVE Latest'
    <2>1. /\ UNCHANGED <<stage, dump, final>> /\ \A t \in Shards : t # s => shard'[t] = shard[t]
          /\ shard'[s] = shard[s] \/ Moves(s)
      BY <1>2, MovesStep
    <2>2. CASE shard'[s] = shard[s]
      BY <1>0, <1>d, <2>1, <2>2 DEF Latest, EntryOf, Le
    <2>3. CASE Moves(s)
      <3>1. ASSUME NEW p \in Processes, NEW m \in dump[p], NEW f \in m PROVE Le(f, EntryOf(f.shard)')
        <4>1. CASE f.shard # s
          BY <1>0, <1>d, <2>1, <4>1 DEF Latest, EntryOf, Le
        <4>2. CASE f.shard = s
          <5>1. f \in Entry /\ f \in Positions /\ Le(f, EntryOf(s)) /\ shard[s].st # "idle"
            BY <1>d, <4>2 DEF Latest, Mine
          <5> QED BY <2>3, <4>2, <5>1, MovesAhead
        <4> QED BY <4>1, <4>2
      <3>2. ASSUME NEW p \in Processes, stage[p] = "stopping", NEW f \in final[p]
            PROVE f = EntryOf(f.shard)' /\ shard'[f.shard].st # "idle"
        <4>1. f.shard # s /\ f.shard \in Shards
          BY <1>0, <1>d, <2>3, <3>2 DEF Mine, Moves
        <4> QED BY <2>1, <3>2, <4>1 DEF Latest, EntryOf
      <3>3. \A f : Le(f, EntryOf(f.shard)') <=> Le(f, EntryOf(f.shard))'
        BY DEF Le, EntryOf
      <3> QED BY <2>1, <3>1, <3>2, <3>3 DEF Latest
    <2> QED BY <2>1, <2>2, <2>3
  <1>3. CASE UNCHANGED vars \/ \E e \in inflight : Publish(e) \/ PublishFails(e)
    BY <1>3, InertStep DEF Latest, EntryOf, Le
  <1> QED BY <1>1, <1>2, <1>3 DEF Next

\* A step that changes nothing about process p and shard s keeps an entry of s behind.
LEMMA BehindStays ==
    ASSUME NEW e, NEW p, Behind(e, p), stage'[p] # "load" => stage[p] # "load",
           resumes'[p] = resumes[p], shard'[e.shard] = shard[e.shard], dump'[p] \subseteq dump[p]
    PROVE Behind(e, p)'
  BY DEF Behind, Le, EntryOf

\* NotAhead is kept: what is written to Redis is not ahead of the shards.
LEMMA NotAheadStep == ASSUME OrderInv, [Next]_vars PROVE NotAhead'
  <1> USE DEF redis, events, aux, OrderInv
  <1>0. /\ resumes \in [Processes -> SUBSET Entry] /\ dump \in [Processes -> SUBSET SUBSET Entry]
        /\ final \in [Processes -> SUBSET Entry]
        /\ shard \in [Shards -> Known] /\ stage \in [Processes -> Stages] /\ sessions \subseteq Entry
        /\ \A e \in Entry : e.shard \in Shards /\ Owner[e.shard] \in Processes
    BY SessionsAssumption DEF TypeOK, Entry
  <1>1. ASSUME NEW p \in Processes, ProcessStep(p) PROVE NotAhead'
    <2>1. CASE Start(p)
      <3>1. stage[p] = "off" /\ UNCHANGED <<resumes, dump, shard, sessions>>
            /\ \A q \in Processes : q # p => stage'[q] = stage[q]
        BY <1>0, <2>1 DEF Start
      <3> QED BY <1>0, <3>1, BehindStays DEF NotAhead
    <2>2. CASE Load(p)
      <3>1. /\ stage[p] = "load" /\ stage'[p] = "announce" /\ resumes'[p] = sessions
            /\ UNCHANGED <<dump, shard, sessions>>
            /\ \A q \in Processes : q # p => stage'[q] = stage[q] /\ resumes'[q] = resumes[q]
        BY <1>0, <2>2 DEF Load
      <3>2. ASSUME NEW e \in sessions, Owner[e.shard] = p PROVE Behind(e, p)'
        <4>1. \A r \in sessions : Le(e, r)
          <5>1. \A r \in sessions : r.shard = e.shard => r = e
            BY DEF Singles, Single
          <5>2. Le(e, e)
            BY <1>0, LeRefl
          <5> QED BY <5>1, <5>2 DEF Le
        <4>2. Behind(e, p)
          BY <3>1, <3>2 DEF NotAhead
        <4> QED BY <3>1, <4>1, <4>2 DEF Behind, Le, EntryOf
      <3>3. ASSUME NEW e \in sessions, Owner[e.shard] # p, stage'[Owner[e.shard]] # "stopped"
            PROVE Behind(e, Owner[e.shard])'
        BY <1>0, <3>1, <3>3, BehindStays DEF NotAhead
      <3> QED BY <3>1, <3>2, <3>3 DEF NotAhead
    <2>3. CASE Announce(p) \/ DumpFails(p)
      <3>1. /\ UNCHANGED <<resumes, shard, sessions>> /\ \A q \in Processes : dump'[q] \subseteq dump[q]
            /\ stage[p] # "load" \/ stage' = stage
            /\ stage'[p] = "stopped" <=> stage[p] = "stopped"
            /\ \A q \in Processes : q # p => stage'[q] = stage[q]
        BY <1>0, <2>3 DEF Announce, DumpFails
      <3> QED BY <1>0, <3>1, BehindStays DEF NotAhead
    <2>4. CASE Collect(p)
      <3> DEFINE m == {EntryOf(s) : s \in {t \in Own(p) : shard[t].st # "idle"}}
      <3>1. dump' = [dump EXCEPT ![p] = {m}] /\ UNCHANGED <<resumes, shard, sessions, stage>>
        BY <2>4 DEF Collect
      <3>2. ASSUME NEW e \in sessions, Owner[e.shard] = p, stage[p] # "stopped" PROVE \A f \in m : Le(e, f)
        <4>1. ASSUME NEW t \in Own(p), shard[t].st # "idle" PROVE Le(e, EntryOf(t))
          <5>1. CASE e.shard = t
            BY <3>2, <4>1, <5>1 DEF NotAhead, Behind
          <5>2. CASE e.shard # t
            BY <5>2 DEF Le, EntryOf
          <5> QED BY <5>1, <5>2
        <4> QED BY <4>1
      <3> HIDE DEF m
      <3>3. dump'[p] = {m} /\ \A q \in Processes : q # p => dump'[q] = dump[q]
        BY <1>0, <3>1
      <3>4. ASSUME NEW e \in sessions, Owner[e.shard] = p, stage[p] # "stopped" PROVE Behind(e, p)'
        <4>1. Behind(e, p) /\ \A f \in m : Le(e, f)
          BY <3>2, <3>4 DEF NotAhead
        <4> QED BY <3>1, <3>3, <4>1 DEF Behind, Le, EntryOf
      <3>5. ASSUME NEW e \in sessions, Owner[e.shard] # p, stage[Owner[e.shard]] # "stopped"
            PROVE Behind(e, Owner[e.shard])'
        BY <1>0, <3>1, <3>3, <3>5, BehindStays DEF NotAhead
      <3> QED BY <3>1, <3>4, <3>5 DEF NotAhead
    <2>5. CASE Dump(p)
      <3>1. PICK m \in dump[p] : sessions' = m
        BY <2>5 DEF Dump
      <3>2. dump'[p] = {} /\ UNCHANGED <<stage, resumes, shard>>
        BY <1>0, <2>5 DEF Dump
      <3>3. ASSUME NEW f \in m PROVE Owner[f.shard] = p /\ Behind(f, p)'
        <4>1. Owner[f.shard] = p /\ shard[f.shard].st # "idle" /\ Le(f, EntryOf(f.shard))
          BY <3>1 DEF Mine, Latest
        <4> QED BY <3>2, <4>1 DEF Behind, Le, EntryOf
      <3> QED BY <3>1, <3>3 DEF NotAhead
    <2>6. CASE CtrlC(p)
      <3>1. /\ stage[p] = "running" /\ stage'[p] = "stopping"
            /\ \A q \in Processes : q # p => stage'[q] = stage[q]
            /\ UNCHANGED <<resumes, dump, sessions>>
        BY <1>0, <2>6 DEF CtrlC
      <3>2. \A t \in Shards : /\ shard'[t].id = shard[t].id /\ shard'[t].seq = shard[t].seq
                              /\ shard[t].st # "idle" <=> shard'[t].st # "idle"
        BY <1>0, <2>6 DEF CtrlC, Known
      <3>3. ASSUME NEW e \in sessions, stage'[Owner[e.shard]] # "stopped"
            PROVE Behind(e, Owner[e.shard])'
        <4>1. Behind(e, Owner[e.shard]) /\ e.shard \in Shards
          BY <1>0, <3>1, <3>3 DEF NotAhead
        <4>2. stage'[Owner[e.shard]] # "load" => stage[Owner[e.shard]] # "load"
          BY <1>0, <3>1
        <4> QED BY <3>1, <3>2, <4>1, <4>2 DEF Behind, Le, EntryOf
      <3> QED BY <3>1, <3>3 DEF NotAhead
    <2>7. CASE Save(p)
      <3>1. stage'[p] = "stopped" /\ sessions' = final[p]
        BY <1>0, <2>7 DEF Save
      <3> QED BY <3>1 DEF NotAhead, Mine
    <2>8. CASE End(p)
      <3>1. /\ sessions' = sessions /\ resumes'[p] = {} /\ dump'[p] = {}
            /\ \A t \in Shards : IF Owner[t] = p THEN shard'[t].st = "idle" ELSE shard'[t] = shard[t]
            /\ \A q \in Processes : q # p => /\ resumes'[q] = resumes[q] /\ dump'[q] = dump[q]
                                             /\ stage'[q] = stage[q]
        BY <1>0, <2>8 DEF End, Off
      <3>2. ASSUME NEW e \in sessions, Owner[e.shard] = p PROVE Behind(e, p)'
        BY <1>0, <3>1, <3>2 DEF Behind
      <3>3. ASSUME NEW e \in sessions, Owner[e.shard] # p, stage'[Owner[e.shard]] # "stopped"
            PROVE Behind(e, Owner[e.shard])'
        BY <1>0, <3>1, <3>3, BehindStays DEF NotAhead
      <3> QED BY <3>1, <3>2, <3>3 DEF NotAhead
    <2> QED BY <1>1, <2>1, <2>2, <2>3, <2>4, <2>5, <2>6, <2>7, <2>8 DEF ProcessStep
  <1>2. ASSUME NEW s \in Shards, ShardStep(s) PROVE NotAhead'
    <2>1. /\ UNCHANGED <<stage, resumes, dump, sessions>>
          /\ \A t \in Shards : t # s => shard'[t] = shard[t]
          /\ shard'[s] = shard[s] \/ Moves(s)
      BY <1>2, MovesStep
    <2>2. ASSUME NEW e \in sessions, e.shard # s \/ shard'[s] = shard[s],
                 stage[Owner[e.shard]] # "stopped"
          PROVE Behind(e, Owner[e.shard])'
      BY <1>0, <2>1, <2>2, BehindStays DEF NotAhead
    <2>3. ASSUME NEW e \in sessions, e.shard = s, Moves(s) PROVE Behind(e, Owner[s])'
      <3>1. Behind(e, Owner[s]) /\ stage[Owner[s]] = "running" /\ shard'[s].st # "idle"
        BY <2>3 DEF NotAhead, Moves
      <3>2. e \in Entry /\ e \in Positions /\ (e.id = 0 => e.seq = 0)
        BY <1>0 DEF Positions, Zero
      <3>3. Le(e, EntryOf(s)')
        <4>1. CASE shard[s].st # "idle"
          BY <2>3, <3>1, <3>2, <4>1, MovesAhead DEF Behind
        <4>2. CASE shard[s].st = "idle"
          <5>1. \A r \in resumes[Owner[s]] : Le(e, r)
            BY <2>3, <3>1, <4>2 DEF Behind
          <5> QED BY <2>3, <3>2, <4>2, <5>1 DEF Moves, Le, EntryOf, Entry
        <4> QED BY <4>1, <4>2
      <3> QED BY <2>1, <2>3, <3>1, <3>3 DEF Behind, Le, EntryOf
    <2> QED BY <2>1, <2>2, <2>3 DEF NotAhead
  <1>3. CASE UNCHANGED vars \/ \E e \in inflight : Publish(e) \/ PublishFails(e)
    <2>1. UNCHANGED <<stage, resumes, dump, sessions, shard>>
      BY <1>3, InertStep
    <2> QED BY <2>1, BehindStays DEF NotAhead
  <1> QED BY <1>1, <1>2, <1>3 DEF Next

\* Only run_jobs and real_main write gateway_sessions; neither writes an older position
\* than it finds, but for a dump that lands after the sessions saved on Ctrl-C.
LEMMA SavedStep ==
    ASSUME OrderInv, [Next]_vars, NEW e \in sessions, NEW f \in sessions',
           e.shard = f.shard, e.id = f.id, stage[Owner[e.shard]] # "stopped"
    PROVE e.seq <= f.seq
  <1> USE DEF redis, events, aux, OrderInv
  <1>0. e \in Entry /\ e.seq \in Nat /\ Behind(e, Owner[e.shard])
    BY DEF TypeOK, Entry, NotAhead
  <1>1. CASE sessions' = sessions
    BY <1>0, <1>1 DEF Singles, Single
  <1>2. ASSUME NEW p \in Processes, Dump(p) PROVE e.seq <= f.seq
    <2>1. PICK m \in dump[p] : sessions' = m
      BY <1>2 DEF Dump
    <2>2. Owner[f.shard] = p
      BY <2>1 DEF Mine
    <2> QED BY <1>0, <2>1, <2>2 DEF Behind, Le
  <1>3. ASSUME NEW p \in Processes, Save(p) PROVE e.seq <= f.seq
    <2>1. f \in final[p] /\ stage[p] = "stopping"
      BY <1>3 DEF Save
    <2>2. Owner[f.shard] = p /\ f = EntryOf(f.shard) /\ shard[f.shard].st # "idle"
      BY <2>1 DEF Mine, Latest
    <2> QED BY <1>0, <2>2 DEF Behind, Le
  <1>4. CASE UNCHANGED vars \/ \E x \in inflight : Publish(x) \/ PublishFails(x)
    BY <1>1, <1>4, InertStep
  <1>5. CASE \E s \in Shards : ShardStep(s)
    BY <1>1, <1>5, MovesStep
  <1>6. ASSUME NEW p \in Processes,
               Start(p) \/ Load(p) \/ Announce(p) \/ Collect(p) \/ DumpFails(p) \/ CtrlC(p) \/ End(p)
        PROVE sessions' = sessions
    BY <1>6 DEF Start, Load, Announce, Collect, DumpFails, CtrlC, End
  <1> QED BY <1>1, <1>2, <1>3, <1>4, <1>5, <1>6 DEF Next, ProcessStep

\* The inductive invariant holds.
LEMMA OrderHolds == Spec => []OrderInv
  <1>1. Init => Zero /\ Singles /\ Mine /\ Quiet /\ NotAhead /\ Latest
    <2> SUFFICES ASSUME Init PROVE Zero /\ Singles /\ Mine /\ Quiet /\ NotAhead /\ Latest
      OBVIOUS
    <2>1. Zero
      BY DEF Init, Zero, Positions, EntryOf, Off
    <2>2. Singles /\ Mine /\ NotAhead /\ Latest
      BY DEF Init, Singles, Single, Mine, NotAhead, Latest
    <2>3. Quiet
      BY SessionsAssumption DEF Init, Quiet, Off
    <2> QED BY <2>1, <2>2, <2>3
  <1>2. OrderInv /\ [Next]_vars => Zero' /\ Singles' /\ Mine' /\ Quiet' /\ NotAhead' /\ Latest'
    BY ZeroStep, SinglesStep, MineStep, QuietStep, NotAheadStep, LatestStep
  <1> QED BY <1>1, <1>2, SessionsTypes, SessionsNothingSkipped, PTL DEF Spec, OrderInv

\* The positions saved in Redis do not go back, across restarts, crashes and processes,
\* but for a dump that lands after the sessions saved on Ctrl-C.
THEOREM SessionsSavedNeverBack == Spec => SavedNeverBack
  <1>1. OrderInv /\ [Next]_vars =>
          [\A e \in sessions, f \in sessions' :
             e.shard = f.shard /\ e.id = f.id /\ stage[Owner[e.shard]] # "stopped" =>
                e.seq <= f.seq]_vars
    BY SavedStep
  <1> QED BY <1>1, OrderHolds, PTL DEF Spec, SavedNeverBack
-----------------------------------------------------------------------------
(* A shard runs sessions of its own number of shards. *)

\* The position e is not in a session, of those gw has, opened for other than t shards.
OpenedFor(gw, e, t) == e.id # 0 /\ e.id = gw[e.shard].id => gw[e.shard].total = t

\* Unless one is behind the other, the two keys in Redis are in step.
KeysInStep == ~behind => \A e \in sessions : OpenedFor(gateway, e, shards_key)

\* All that a process holds of its own shards, and what it is about to take from Redis,
\* is of sessions opened for its number of shards.
InStep(p) ==
    /\ stage[p] = "off" => final[p] = {}
    /\ stage[p] = "load" =>
          \A e \in sessions : Owner[e.shard] = p => OpenedFor(gateway, e, total[p])
    /\ \A e \in resumes[p] : Owner[e.shard] = p => OpenedFor(gateway, e, total[p])
    /\ \A e \in final[p] : OpenedFor(gateway, e, total[p])
    /\ \A m \in dump[p] : \A e \in m : OpenedFor(gateway, e, total[p])
    /\ \A s \in Own(p) : OpenedFor(gateway, EntryOf(s), total[p])

\* The inductive invariant, up to the moment of such a start.
ShardingInv == KeysInStep /\ \A p \in Processes : InStep(p)

\* Only Identify opens a session, for the SHARDS_TOTAL of its process.
LEMMA SessionTotals ==
    ASSUME TypeOK, [Next]_vars
    PROVE \A s \in Shards :
             \/ gateway'[s].id = gateway[s].id /\ gateway'[s].total = gateway[s].total
             \/ /\ Identify(s) /\ gateway'[s].id = gateway[s].id + 1
                /\ gateway'[s].total = total[Owner[s]] /\ shard'[s].id = gateway'[s].id
  <1> USE DEF redis, events, aux
  <1>0. gateway \in [Shards -> Session] /\ shard \in [Shards -> Known]
    BY DEF TypeOK
  <1>1. ASSUME NEW p \in Processes, ProcessStep(p) PROVE gateway' = gateway
    BY <1>1 DEF ProcessStep, Start, Load, Announce, Collect, Dump, DumpFails, CtrlC, Save, End
  <1>2. ASSUME NEW s \in Shards, ShardStep(s), NEW t \in Shards
        PROVE \/ gateway'[t].id = gateway[t].id /\ gateway'[t].total = gateway[t].total
              \/ /\ Identify(t) /\ gateway'[t].id = gateway[t].id + 1
                 /\ gateway'[t].total = total[Owner[t]] /\ shard'[t].id = gateway'[t].id
    <2>1. CASE ShardStart(s) \/ Resume(s) \/ Receive(s) \/ Take(s)
      BY <2>1 DEF ShardStart, Resume, Receive, Take
    <2>2. CASE Invalidate(s)
      BY <1>0, <2>2 DEF Invalidate, Session
    <2>3. CASE Emit(s)
      BY <1>0, <2>3 DEF Emit, Session
    <2>4. CASE Identify(s)
      BY <1>0, <2>4 DEF Identify, Session
    <2> QED BY <1>2, <2>1, <2>2, <2>3, <2>4 DEF ShardStep
  <1>3. ASSUME NEW e \in inflight, Publish(e) \/ PublishFails(e) PROVE gateway' = gateway
    BY <1>3 DEF Publish, PublishFails
  <1>4. CASE UNCHANGED vars
    BY <1>4 DEF vars
  <1> QED BY <1>1, <1>2, <1>3, <1>4 DEF Next

\* A session that is opened is none that a position is in.
LEMMA OpenedStays ==
    ASSUME TypeOK, NothingSkipped, [Next]_vars, NEW e \in Positions, NEW t,
           OpenedFor(gateway, e, t)
    PROVE OpenedFor(gateway', e, t)
  <1>1. e \in Entry /\ Sound(e)
    BY PositionTypes, SkippedIsSound
  <1>2. gateway[e.shard].id \in Nat /\ e.id \in Nat /\ e.shard \in Shards /\ e.id <= gateway[e.shard].id
    BY <1>1 DEF TypeOK, Session, Entry, Sound
  <1>3. \/ gateway'[e.shard].id = gateway[e.shard].id /\ gateway'[e.shard].total = gateway[e.shard].total
        \/ gateway'[e.shard].id = gateway[e.shard].id + 1
    BY <1>2, SessionTotals
  <1> QED BY <1>2, <1>3 DEF OpenedFor

\* The positions of InStep.
LEMMA InStepPositions ==
    ASSUME NEW p \in Processes
    PROVE /\ sessions \subseteq Positions /\ resumes[p] \subseteq Positions
          /\ final[p] \subseteq Positions /\ \A m \in dump[p] : m \subseteq Positions
          /\ \A s \in Shards : EntryOf(s) \in Positions
  BY DEF Positions

\* The sessions in Redis stay what they are when only Discord and the shards move.
LEMMA KeysKept ==
    ASSUME OrderInv, KeysInStep, [Next]_vars, UNCHANGED <<sessions, shards_key, behind>>
    PROVE  KeysInStep'
  <1>1. ~behind => \A e \in sessions : OpenedFor(gateway', e, shards_key)
    BY OpenedStays DEF KeysInStep, OrderInv, Positions
  <1> QED BY <1>1 DEF KeysInStep

\* A step that is not of process p or its shards leaves p in step.
LEMMA InStepKept ==
    ASSUME OrderInv, [Next]_vars, NEW p \in Processes, InStep(p),
           stage'[p] = stage[p], total'[p] = total[p], resumes'[p] = resumes[p],
           final'[p] = final[p], dump'[p] = dump[p],
           \A e \in sessions' : Owner[e.shard] = p => e \in sessions,
           \A s \in Own(p) : shard'[s].id = shard[s].id
    PROVE  InStep(p)'
  <1>0. TypeOK /\ NothingSkipped
    BY DEF OrderInv
  <1>1. /\ stage[p] = "load" =>
              \A e \in sessions : Owner[e.shard] = p => OpenedFor(gateway', e, total[p])
        /\ \A e \in resumes[p] : Owner[e.shard] = p => OpenedFor(gateway', e, total[p])
        /\ \A e \in final[p] : OpenedFor(gateway', e, total[p])
        /\ \A m \in dump[p] : \A e \in m : OpenedFor(gateway', e, total[p])
        /\ \A s \in Own(p) : OpenedFor(gateway', EntryOf(s), total[p])
    BY <1>0, InStepPositions, OpenedStays DEF InStep, Own
  <1>2. \A s \in Own(p) : OpenedFor(gateway', EntryOf(s)', total[p])
    BY <1>1 DEF OpenedFor, EntryOf
  <1>3. Own(p)' = Own(p)
    BY DEF Own
  <1> QED BY <1>1, <1>2, <1>3 DEF InStep

\* A step of a shard: a position it takes up is one that was saved, or of the session it
\* has just opened.
LEMMA ShardInStep ==
    ASSUME OrderInv, ShardingInv, NEW s \in Shards, ShardStep(s)
    PROVE ShardingInv'
  <1> USE DEF redis, events, aux
  <1> DEFINE p == Owner[s]
  <1>0. /\ TypeOK /\ NothingSkipped /\ [Next]_vars /\ p \in Processes
        /\ gateway[s].id \in Nat /\ s \in Own(p) /\ InStep(p)
    BY SessionsAssumption DEF OrderInv, Next, TypeOK, Session, Own, ShardingInv
  <1>1. /\ UNCHANGED <<stage, resumes, dump, final, sessions>>
        /\ \A t \in Shards : t # s => shard'[t] = shard[t]
        /\ shard'[s] = shard[s] \/ Moves(s)
    BY MovesStep
  <1>2. UNCHANGED <<total, shards_key, behind>>
    BY DEF ShardStep, ShardStart, Resume, Invalidate, Identify, Emit, Receive, Take
  <1>3. KeysInStep'
    BY <1>0, <1>1, <1>2, KeysKept DEF ShardingInv
  <1>4. ASSUME NEW q \in Processes, q # p PROVE InStep(q)'
    <2>1. \A t \in Own(q) : shard'[t].id = shard[t].id
      BY <1>1, <1>4 DEF Own
    <2> QED BY <1>0, <1>1, <1>2, <2>1, InStepKept DEF ShardingInv
  <1> HIDE DEF p
  <1>5. InStep(p)'
    <2>1. /\ stage[p] = "load" =>
                \A e \in sessions : Owner[e.shard] = p => OpenedFor(gateway', e, total[p])
          /\ \A e \in resumes[p] : Owner[e.shard] = p => OpenedFor(gateway', e, total[p])
          /\ \A e \in final[p] : OpenedFor(gateway', e, total[p])
          /\ \A m \in dump[p] : \A e \in m : OpenedFor(gateway', e, total[p])
          /\ \A t \in Own(p) : OpenedFor(gateway', EntryOf(t), total[p])
      BY <1>0, InStepPositions, OpenedStays DEF InStep, Own
    <2>2. ASSUME NEW t \in Own(p) PROVE OpenedFor(gateway', EntryOf(t)', total[p])
      <3>1. OpenedFor(gateway', EntryOf(t), total[p]) <=>
               (shard[t].id # 0 /\ shard[t].id = gateway'[t].id => gateway'[t].total = total[p])
        BY DEF OpenedFor, EntryOf
      <3>2. OpenedFor(gateway', EntryOf(t)', total[p]) <=>
               (shard'[t].id # 0 /\ shard'[t].id = gateway'[t].id => gateway'[t].total = total[p])
        BY DEF OpenedFor, EntryOf
      <3>3. CASE shard'[t].id = shard[t].id
        BY <2>1, <3>1, <3>2, <3>3
      <3>4. CASE shard'[t].id # shard[t].id
        <4>1. t = s /\ Moves(s)
          BY <1>1, <3>4 DEF Own
        <4>2. CASE \E r \in resumes[p] : r.shard = s /\ shard'[s].id = r.id
          BY <2>1, <3>2, <4>1, <4>2 DEF OpenedFor, p
        <4>3. CASE shard'[s].id = gateway[s].id + 1
          <5>1. \/ gateway'[s].id = gateway[s].id
                \/ gateway'[s].total = total[p]
            BY <1>0, SessionTotals DEF p
          <5> QED BY <1>0, <3>2, <4>1, <4>3, <5>1
        <4>4. CASE shard'[s].id = 0
          BY <3>2, <4>1, <4>4
        <4> QED BY <3>4, <4>1, <4>2, <4>3, <4>4 DEF Moves, p
      <3> QED BY <3>3, <3>4
    <2>3. Own(p)' = Own(p)
      BY DEF Own, p
    <2> QED BY <1>0, <1>1, <1>2, <2>1, <2>2, <2>3 DEF InStep, p
  <1> QED BY <1>3, <1>4, <1>5 DEF ShardingInv, p

\* What a process writes to gateway_sessions is of its own shards, in step with its own
\* number; if that is not the one in gateway_shards, it is known to be behind.
LEMMA KeysInStepStep ==
    ASSUME OrderInv, ShardingInv, NEW p \in Processes, ProcessStep(p)
    PROVE KeysInStep'
  <1> USE DEF redis, events, aux
  <1>0. InStep(p) /\ KeysInStep /\ [Next]_vars
    BY DEF ShardingInv, Next
  <1>1. gateway' = gateway
    BY DEF ProcessStep, Start, Load, Announce, Collect, Dump, DumpFails, CtrlC, Save, End
  <1>2. CASE UNCHANGED <<sessions, shards_key, behind>>
    BY <1>0, <1>2, KeysKept
  <1>3. CASE Announce(p)
    <2>1. ~behind' => ~behind /\ shards_key = total[p]
      BY <1>3 DEF Announce
    <2>2. shards_key' = total[p] /\ sessions' = sessions
      BY <1>3 DEF Announce
    <2> QED BY <1>0, <1>1, <2>1, <2>2 DEF KeysInStep
  <1>4. CASE Dump(p) \/ Save(p)
    <2>1. /\ sessions' \in dump[p] \/ sessions' = final[p]
          /\ shards_key' = shards_key
      BY <1>4 DEF Dump, Save
    <2>2. ~behind' => shards_key = total[p]
      BY <1>4 DEF Dump, Save
    <2>3. \A e \in sessions' : OpenedFor(gateway, e, total[p])
      BY <1>0, <2>1 DEF InStep
    <2> QED BY <1>1, <2>1, <2>2, <2>3 DEF KeysInStep
  <1> QED BY <1>2, <1>3, <1>4 DEF ProcessStep, Start, Load, Collect, DumpFails, CtrlC, End

\* What a process writes to gateway_sessions is of its own shards.
LEMMA OwnWrites ==
    ASSUME OrderInv, NEW p \in Processes, ProcessStep(p),
           NEW e \in sessions', Owner[e.shard] # p
    PROVE e \in sessions
  <1> USE DEF redis, events, aux
  <1>1. sessions' \in dump[p] \/ sessions' = final[p] \/ sessions' = sessions
    BY DEF ProcessStep, Start, Load, Announce, Collect, Dump, DumpFails, CtrlC, Save, End
  <1> QED BY <1>1 DEF OrderInv, Mine

\* A step of a process leaves it in step, unless it is the start that takes up sessions of
\* another number.
LEMMA ProcessInStep ==
    ASSUME OrderInv, ShardingInv, NEW p \in Processes, ProcessStep(p), ~tainted'
    PROVE ShardingInv'
  <1> USE DEF redis, events, aux
  <1>0. /\ stage \in [Processes -> Stages] /\ total \in [Processes -> Totals \cup {0}]
        /\ resumes \in [Processes -> SUBSET Entry] /\ final \in [Processes -> SUBSET Entry]
        /\ dump \in [Processes -> SUBSET SUBSET Entry] /\ shard \in [Shards -> Known]
        /\ InStep(p) /\ KeysInStep /\ [Next]_vars
    BY DEF OrderInv, TypeOK, ShardingInv, Next
  <1>1. gateway' = gateway /\ Own(p)' = Own(p)
    BY DEF ProcessStep, Start, Load, Announce, Collect, Dump, DumpFails, CtrlC, Save, End, Own
  <1>2. ASSUME NEW q \in Processes, q # p PROVE InStep(q)'
    <2>1. /\ stage'[q] = stage[q] /\ total'[q] = total[q] /\ resumes'[q] = resumes[q]
          /\ final'[q] = final[q] /\ dump'[q] = dump[q]
      BY <1>0, <1>2
      DEF ProcessStep, Start, Load, Announce, Collect, Dump, DumpFails, CtrlC, Save, End
    <2>2. \A t \in Own(q) : shard'[t].id = shard[t].id
      BY <1>0, <1>2
      DEF ProcessStep, Start, Load, Announce, Collect, Dump, DumpFails, CtrlC, Save, End, Own
    <2>3. \A e \in sessions' : Owner[e.shard] = q => e \in sessions
      BY <1>2, OwnWrites
    <2> QED BY <1>0, <1>2, <2>1, <2>2, <2>3, InStepKept DEF ShardingInv
  <1>3. InStep(p)'
    <2>1. CASE shard' = shard /\ ~CtrlC(p) /\ ~End(p)
      <3>0. \A s \in Shards : EntryOf(s)' = EntryOf(s)
        BY <2>1 DEF EntryOf
      <3>1. CASE Start(p)
        <4>1. /\ stage[p] = "off" /\ stage'[p] \in {"load", "announce"}
              /\ stage'[p] = "load" => shards_key = total'[p] /\ ~behind
              /\ UNCHANGED <<resumes, shard, dump, final, sessions>>
          BY <1>0, <3>1 DEF Start
        <4>2. resumes[p] = {} /\ dump[p] = {} /\ final[p] = {}
          BY <1>0, <4>1 DEF OrderInv, Quiet, Alive, InStep
        <4>3. \A s \in Own(p) : EntryOf(s).id = 0
          BY <4>1 DEF OrderInv, Quiet, Alive, EntryOf, Own
        <4>4. stage'[p] = "load" => \A e \in sessions : OpenedFor(gateway, e, total'[p])
          BY <1>0, <4>1 DEF KeysInStep
        <4>5. \A s \in Own(p) : OpenedFor(gateway, EntryOf(s)', total'[p])
          BY <3>0, <4>3 DEF OpenedFor, Own
        <4> QED BY <1>1, <4>1, <4>2, <4>4, <4>5 DEF InStep
      <3>2. CASE Load(p)
        <4>1. /\ stage[p] = "load" /\ stage'[p] = "announce" /\ resumes'[p] = sessions
              /\ UNCHANGED <<total, dump, final>>
          BY <1>0, <3>2 DEF Load
        <4> QED BY <1>0, <1>1, <3>0, <4>1 DEF InStep, Own
      <3>3. CASE Announce(p)
        <4>1. stage'[p] = "running" /\ UNCHANGED <<total, resumes, dump, final>>
          BY <1>0, <3>3 DEF Announce
        <4> QED BY <1>0, <1>1, <3>0, <4>1 DEF InStep, Own
      <3>4. CASE Collect(p)
        <4> DEFINE m == {EntryOf(s) : s \in {t \in Own(p) : shard[t].st # "idle"}}
        <4>1. dump'[p] = {m} /\ UNCHANGED <<stage, total, resumes, final, sessions>>
          BY <1>0, <3>4 DEF Collect
        <4>2. \A e \in m : OpenedFor(gateway, e, total[p])
          BY <1>0 DEF InStep
        <4> HIDE DEF m
        <4> QED BY <1>0, <1>1, <3>0, <4>1, <4>2 DEF InStep, Own
      <3>5. CASE Dump(p) \/ DumpFails(p)
        <4>1. dump'[p] = {} /\ dump[p] # {} /\ UNCHANGED <<stage, total, resumes, final>>
          BY <1>0, <3>5 DEF Dump, DumpFails
        <4>2. stage[p] # "load"
          BY <1>0, <4>1 DEF OrderInv, Quiet, Alive
        <4> QED BY <1>0, <1>1, <3>0, <4>1, <4>2 DEF InStep, Own
      <3>6. CASE Save(p)
        <4>1. stage'[p] = "stopped" /\ UNCHANGED <<total, resumes, dump, final>>
          BY <1>0, <3>6 DEF Save
        <4> QED BY <1>0, <1>1, <3>0, <4>1 DEF InStep, Own
      <3> QED BY <2>1, <3>1, <3>2, <3>3, <3>4, <3>5, <3>6 DEF ProcessStep
    <2>2. CASE CtrlC(p)
      <3> DEFINE m == {EntryOf(s) : s \in {t \in Own(p) : shard[t].id # 0}}
      <3>1. /\ stage[p] = "running" /\ stage'[p] = "stopping" /\ final'[p] = m
            /\ UNCHANGED <<total, resumes, dump, sessions>>
        BY <1>0, <2>2 DEF CtrlC
      <3>2. \A e \in m : OpenedFor(gateway, e, total[p])
        BY <1>0 DEF InStep
      <3>3. \A s \in Own(p) : shard'[s].id = shard[s].id
        BY <1>0, <2>2 DEF CtrlC, Known, Own
      <3>4. \A s \in Own(p) : OpenedFor(gateway, EntryOf(s)', total[p])
        BY <1>0, <3>3 DEF InStep, OpenedFor, EntryOf
      <3> HIDE DEF m
      <3> QED BY <1>0, <1>1, <3>1, <3>2, <3>4 DEF InStep
    <2>3. CASE End(p)
      <3>1. /\ stage'[p] = "off" /\ resumes'[p] = {} /\ dump'[p] = {} /\ final'[p] = {}
        BY <1>0, <2>3 DEF End
      <3>2. \A s \in Own(p) : EntryOf(s)'.id = 0
        BY <1>0, <2>3 DEF End, EntryOf, Off, Own
      <3>3. \A s \in Own(p) : OpenedFor(gateway, EntryOf(s)', total'[p])
        BY <3>2 DEF OpenedFor
      <3> QED BY <1>1, <3>1, <3>3 DEF InStep
    <2>4. CtrlC(p) \/ End(p) \/ shard' = shard
      BY DEF ProcessStep, Start, Load, Announce, Collect, Dump, DumpFails, Save
    <2> QED BY <2>1, <2>2, <2>3, <2>4
  <1> QED BY <1>2, <1>3, KeysInStepStep DEF ShardingInv

\* A shard only ever runs a session that was opened for its number of shards, however many
\* processes share the Redis, until one starts and takes up sessions that were not written
\* under the number in gateway_shards, which it takes for sessions of its own SHARDS_TOTAL.
THEOREM SessionsSameSharding == Spec => []SameSharding
  <1>1. Init => ShardingInv
    BY SessionsAssumption DEF Init, ShardingInv, KeysInStep, InStep, OpenedFor, EntryOf, Off, Own
  <1>2. OrderInv /\ (tainted \/ ShardingInv) /\ [Next]_vars => tainted' \/ ShardingInv'
    <2> SUFFICES ASSUME OrderInv, tainted \/ ShardingInv, [Next]_vars, ~tainted'
                 PROVE ShardingInv'
      OBVIOUS
    <2>1. ~tainted
      BY DEF Next, ProcessStep, Start, Load, Announce, Collect, Dump, DumpFails, CtrlC, Save, End,
             ShardStep, ShardStart, Resume, Invalidate, Identify, Emit, Receive, Take,
             Publish, PublishFails, vars, aux
    <2>2. CASE \E q \in Processes : ProcessStep(q)
      BY <2>1, <2>2, ProcessInStep
    <2>3. CASE \E s \in Shards : ShardStep(s)
      BY <2>1, <2>3, ShardInStep
    <2>4. CASE UNCHANGED vars \/ \E e \in inflight : Publish(e) \/ PublishFails(e)
      <3>1. UNCHANGED <<stage, total, resumes, shard, dump, final, sessions, shards_key, gateway,
                        behind>>
        BY <2>4 DEF vars, Publish, PublishFails, redis
      <3> QED BY <2>1, <3>1, KeysKept, InStepKept DEF ShardingInv
    <2> QED BY <2>2, <2>3, <2>4 DEF Next
  <1>3. TypeOK /\ (tainted \/ ShardingInv) => SameSharding
    <2> SUFFICES ASSUME ShardingInv,
                        NEW s \in Shards, shard[s].id # 0, shard[s].id = gateway[s].id
                 PROVE gateway[s].total = total[Owner[s]]
      BY DEF SameSharding
    <2>1. Owner[s] \in Processes /\ s \in Own(Owner[s])
      BY SessionsAssumption DEF Own
    <2>2. OpenedFor(gateway, EntryOf(s), total[Owner[s]])
      BY <2>1 DEF ShardingInv, InStep
    <2> QED BY <2>2 DEF OpenedFor, EntryOf
  <1> QED BY <1>1, <1>2, <1>3, OrderHolds, SessionsTypes, PTL DEF Spec
=============================================================================
