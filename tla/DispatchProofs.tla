--------------------------- MODULE DispatchProofs ---------------------------
(***************************************************************************)
(* For any number and kinds of messages, and in whatever order the tasks   *)
(* of `outgoing` run: each dispatch event is published at most once and    *)
(* nothing else is; none is forgotten, as EventFeed promises; the counter  *)
(* agrees; no task overtakes a Ready.                                      *)
(***************************************************************************)
EXTENDS Dispatch, FiniteSetTheorems, TLAPS

Payload(n) == [n |-> n, type |-> "payload"]
Ev(n) == [n |-> n, type |-> "event"]

\* Some item of the stream is i.
InStream(i) == \E j \in 1 .. Len(stream) : stream[j] = i

\* The items of the stream are in the order of their messages, none of them twice.
InOrder ==
    /\ \A i, j \in 1 .. Len(stream) : i <= j => stream[i].n <= stream[j].n
    /\ \A i, j \in 1 .. Len(stream) : stream[i] = stream[j] => i = j
    /\ \A i \in loop, j \in 1 .. Len(stream) : i.n <= stream[j].n

\* Nothing runs ahead of the messages that have arrived.
Arrived ==
    /\ \A i \in 1 .. Len(stream) : stream[i].n \in 1 .. Len(kind)
    /\ \A i \in loop : i.n \in 1 .. Len(kind)
    /\ \A t \in tasks : t.n \in 1 .. Len(kind)
    /\ \A i \in 1 .. Len(published) : published[i].n \in 1 .. Len(kind)
    /\ failed \subseteq 1 .. Len(kind)

\* Only events wait for an update, only payloads of dispatch events are published.
Steps ==
    \A t \in tasks : /\ t.step = "update" => t.type = "event"
                     /\ t.step = "publish" => t.type = "payload" /\ kind[t.n] \in Dispatches
LoopEvents == (\A i \in loop : i.type = "event") /\ \A i, j \in loop : i = j

Gone(n) == IsPublished(n) \/ n \in failed

\* The payload of a message is in one place: the stream, one task, or published or failed.
OnePlace ==
    /\ \A t \in tasks : t.type = "payload" => ~InStream(Payload(t.n)) /\ ~Gone(t.n)
    /\ \A t, u \in tasks : t.type = "payload" /\ u.type = "payload" /\ t.n = u.n => t = u
    /\ \A n \in Numbers : Gone(n) => ~InStream(Payload(n))
    /\ \A n \in failed : ~IsPublished(n)

\* A Ready whose update is not over is ahead of every task.
Barrier ==
    state_enabled => \A r \in 1 .. Len(kind) :
        kind[r] = "Ready" /\ r \notin updated =>
            /\ InStream(Ev(r)) \/ Ev(r) \in loop
            /\ \A t \in tasks : t.n <= r

\* The inductive invariant.
DispatchInv ==
    TypeOK /\ InOrder /\ Arrived /\ Steps /\ LoopEvents /\ OnePlace /\ Barrier /\ DispatchesOnce
-----------------------------------------------------------------------------
(* Types. *)

\* The items of a message are its own, none twice, and a Ready is among them as an event.
LEMMA ItemsType ==
    ASSUME NEW k, NEW n \in Numbers
    PROVE /\ Items(k, n) \in Seq(Item) /\ Len(Items(k, n)) \in Nat /\ Len(Items(k, n)) <= 2
          /\ \A i \in 1 .. Len(Items(k, n)) : Items(k, n)[i].n = n
          /\ \A i, j \in 1 .. Len(Items(k, n)) : Items(k, n)[i] = Items(k, n)[j] => i = j
          /\ k = "Ready" => \E i \in 1 .. Len(Items(k, n)) : Items(k, n)[i] = Ev(n)
  <1> DEFINE payload == [n |-> n, type |-> "payload"]
             event == [n |-> n, type |-> "event"]
  <1>1. payload \in Item /\ event \in Item /\ payload # event /\ payload.n = n /\ event.n = n
    BY DEF Item
  <1>2. Items(k, n) = <<event>> \/ Items(k, n) = <<payload>> \/ Items(k, n) = <<payload, event>>
    BY DEF Items
  <1>3. k = "Ready" => Items(k, n) = <<payload, event>>
    BY DEF Items, Lifecycle
  <1>4. event = Ev(n)
    BY DEF Ev
  <1> HIDE DEF payload, event
  <1>5. CASE Items(k, n) = <<event>>
    BY <1>1, <1>3, <1>4, <1>5
  <1>6. CASE Items(k, n) = <<payload>>
    BY <1>1, <1>3, <1>4, <1>6
  <1>7. CASE Items(k, n) = <<payload, event>>
    <2>1. Len(Items(k, n)) = 2 /\ Items(k, n)[1] = payload /\ Items(k, n)[2] = event
      BY <1>7
    <2>2. \A i \in 1 .. 2 : i = 1 \/ i = 2
      OBVIOUS
    <2>3. Items(k, n) \in Seq(Item)
      BY <1>1, <1>7
    <2> QED BY <1>1, <1>4, <2>1, <2>2, <2>3
  <1> QED BY <1>2, <1>5, <1>6, <1>7

\* A spawned task is for the item it was spawned for.
LEMMA SpawnedType ==
    ASSUME NEW i \in Item, NEW step \in {"update", "match", "publish"}
    PROVE /\ Spawned(i, step) \in Task /\ Spawned(i, step).n = i.n /\ Spawned(i, step).type = i.type
          /\ Spawned(i, step).step = step
  BY DEF Spawned, Task, Item

\* The stream without its first item.
LEMMA TailItem ==
    ASSUME TypeOK, stream # <<>>
    PROVE /\ Head(stream) \in Item /\ Tail(stream) \in Seq(Item)
          /\ Head(stream) = stream[1] /\ Len(stream) \in Nat /\ Len(stream) > 0
          /\ Len(Tail(stream)) = Len(stream) - 1
          /\ \A i \in 1 .. Len(stream) - 1 : Tail(stream)[i] = stream[i + 1]
  BY DEF TypeOK

\* Every step keeps the types.
LEMMA TypeStep == ASSUME TypeOK, [Next]_vars PROVE TypeOK'
  <1> USE DEF counters
  <1>1. ASSUME NEW k \in Kinds, Arrive(k) PROVE TypeOK'
    <2>1. Len(kind) + 1 \in Numbers
      BY <1>1, DispatchAssumption DEF Arrive, TypeOK, Numbers
    <2>2. kind' \in Seq(Kinds) /\ Len(kind') <= MaxMessages
      BY <1>1, DispatchAssumption DEF Arrive, TypeOK
    <2>3. Items(k, Len(kind) + 1) \in Seq(Item) /\ stream \in Seq(Item)
      BY <2>1, ItemsType DEF TypeOK
    <2>4. stream' \in Seq(Item)
      BY <1>1, <2>3 DEF Arrive
    <2> QED BY <1>1, <2>2, <2>4 DEF Arrive, TypeOK
  <1>2. CASE Take
    <2>1. Tail(stream) \in Seq(Item) /\ Head(stream) \in Item
      BY <1>2, TailItem DEF Take
    <2>2. loop' \subseteq Item /\ tasks' \subseteq Task
      BY <1>2, <2>1, SpawnedType DEF Take, TypeOK
    <2> QED BY <1>2, <2>1, <2>2 DEF Take, TypeOK
  <1>3. CASE ReadyUpdated
    <2>1. PICK i \in loop : tasks' = tasks \cup {Spawned(i, "match")} /\ updated' = updated \cup {i.n}
      BY <1>3 DEF ReadyUpdated
    <2>2. i \in Item /\ i.n \in Numbers
      BY DEF TypeOK, Item
    <2>3. tasks' \subseteq Task /\ updated' \subseteq Numbers /\ cached' \in BOOLEAN
      BY <1>3, <2>1, <2>2, SpawnedType DEF ReadyUpdated, TypeOK
    <2> QED BY <1>3, <2>3 DEF ReadyUpdated, TypeOK
  <1>4. ASSUME NEW t \in tasks, Run(t) PROVE TypeOK'
    <2>0. t \in Task /\ t.n \in Numbers
      BY DEF TypeOK, Task
    <2>1. CASE Update(t)
      <3>1. PICK old \in BOOLEAN : tasks' = (tasks \ {t}) \cup {[t EXCEPT !.step = "match", !.old = old]}
        <4>1. CASE tasks' = (tasks \ {t}) \cup {[t EXCEPT !.step = "match"]}
          <5>1. [t EXCEPT !.step = "match"] = [t EXCEPT !.step = "match", !.old = t.old] /\ t.old \in BOOLEAN
            BY <2>0 DEF Task
          <5> QED BY <4>1, <5>1
        <4>2. CASE tasks' = (tasks \ {t}) \cup {[t EXCEPT !.step = "match", !.old = state_old /\ cached]}
          BY <4>2
        <4> QED BY <2>1, <4>1, <4>2 DEF Update
      <3>2. tasks' \subseteq Task
        BY <2>0, <3>1 DEF Task, TypeOK
      <3>3. cached' \in BOOLEAN /\ olds' \subseteq Numbers /\ updated' \subseteq Numbers
        BY <2>0, <2>1 DEF Update, TypeOK
      <3> QED BY <2>1, <3>2, <3>3 DEF Update, TypeOK
    <2>2. CASE Count(t)
      <3>1. shard_events' \in [Labels -> Nat]
        BY <2>2 DEF Count, TypeOK
      <3> QED BY <2>2, <3>1 DEF Count, TypeOK
    <2>3. CASE Decode(t)
      <3>1. [t EXCEPT !.step = "publish"] \in Task
        BY <2>0 DEF Task
      <3>2. /\ tasks' = (tasks \ {t}) \cup {[t EXCEPT !.step = "publish"]} \/ tasks' = tasks \ {t}
            /\ gateway_events' = gateway_events + 1 \/ gateway_events' = gateway_events
        BY <2>3 DEF Decode
      <3>3. tasks' \subseteq Task /\ gateway_events' \in Nat
        <4>1. tasks \subseteq Task /\ gateway_events \in Nat
          BY DEF TypeOK
        <4>2. tasks' \subseteq Task
          BY <3>1, <3>2, <4>1
        <4>3. gateway_events' \in Nat
          BY <3>2, <4>1
        <4> QED BY <4>2, <4>3
      <3> QED BY <2>3, <3>3 DEF Decode, TypeOK
    <2>4. CASE Publish(t)
      <3>1. [n |-> t.n, old |-> t.old] \in [n : Numbers, old : BOOLEAN]
        BY <2>0 DEF Task
      <3>2. published' \in Seq([n : Numbers, old : BOOLEAN])
        BY <2>4, <3>1 DEF Publish, TypeOK
      <3> QED BY <2>4, <3>2 DEF Publish, TypeOK
    <2>5. CASE PublishFails(t)
      BY <2>0, <2>5 DEF PublishFails, TypeOK
    <2> QED BY <1>4, <2>1, <2>2, <2>3, <2>4, <2>5 DEF Run
  <1>5. CASE UNCHANGED vars
    BY <1>5 DEF vars, TypeOK
  <1> QED BY <1>1, <1>2, <1>3, <1>4, <1>5 DEF Next
-----------------------------------------------------------------------------
(* The invariant, action by action. *)

\* The invariant holds at the start.
LEMMA DispatchInit == Init => DispatchInv
  <1> SUFFICES ASSUME Init PROVE DispatchInv
    OBVIOUS
  <1>1. TypeOK
    BY DispatchAssumption DEF Init, TypeOK
  <1>2. InOrder /\ Arrived /\ Steps /\ LoopEvents /\ Barrier /\ DispatchesOnce
    BY DEF Init, InOrder, Arrived, Steps, LoopEvents, Barrier, DispatchesOnce
  <1>3. OnePlace
    BY DEF Init, OnePlace, Gone, IsPublished
  <1> QED BY <1>1, <1>2, <1>3 DEF DispatchInv

\* A message that arrives is the last in the stream.
LEMMA ArriveInv ==
    ASSUME DispatchInv, NEW k \in Kinds, Arrive(k)
    PROVE DispatchInv'
  <1> USE DEF DispatchInv
  <1> DEFINE N == Len(kind) + 1
             items == Items(k, N)
  <1>1. N \in Numbers /\ Len(kind) \in Nat
    BY DispatchAssumption DEF Arrive, TypeOK, Numbers
  <1>2. /\ kind' = Append(kind, k) /\ stream' = stream \o items
        /\ UNCHANGED <<loop, tasks, published, failed, updated>>
    BY DEF Arrive, counters
  <1>3. Len(kind') = N /\ kind'[N] = k /\ \A r \in 1 .. Len(kind) : kind'[r] = kind[r]
    BY <1>2 DEF TypeOK
  <1>4. /\ items \in Seq(Item) /\ Len(items) \in Nat
        /\ \A i \in 1 .. Len(items) : items[i].n = N
        /\ \A i, j \in 1 .. Len(items) : items[i] = items[j] => i = j
        /\ k = "Ready" => \E i \in 1 .. Len(items) : items[i] = Ev(N)
    BY <1>1, ItemsType
  <1> HIDE DEF items
  <1>5. /\ Len(stream') = Len(stream) + Len(items) /\ Len(stream) \in Nat
        /\ \A i \in 1 .. Len(stream) : stream'[i] = stream[i]
        /\ \A i \in 1 .. Len(items) : stream'[Len(stream) + i] = items[i]
    BY <1>2, <1>4 DEF TypeOK
  <1>6. \A i \in 1 .. Len(stream') :
          \/ i \in 1 .. Len(stream) /\ stream'[i] = stream[i] /\ stream[i].n \in 1 .. Len(kind)
          \/ /\ i - Len(stream) \in 1 .. Len(items) /\ stream'[i] = items[i - Len(stream)]
             /\ stream'[i].n = N
    <2> TAKE i \in 1 .. Len(stream')
    <2>1. CASE i <= Len(stream)
      <3>1. i \in 1 .. Len(stream)
        BY <1>5, <2>1
      <3> QED BY <1>5, <3>1 DEF Arrived
    <2>2. CASE ~(i <= Len(stream))
      <3>1. PICK j \in 1 .. Len(items) : i = Len(stream) + j /\ i - Len(stream) = j
        <4>1. i - Len(stream) \in 1 .. Len(items) /\ i = Len(stream) + (i - Len(stream))
          BY <1>4, <1>5, <2>2
        <4> QED BY <4>1
      <3>2. stream'[i] = items[j] /\ items[j].n = N
        BY <1>4, <1>5, <3>1
      <3> QED BY <3>1, <3>2
    <2> QED BY <2>1, <2>2
  <1>7. \A i \in 1 .. Len(kind) : i \in Nat /\ i < N /\ i \in 1 .. N
    BY <1>1
  <1>8. \A x : InStream(x) => InStream(x)'
    BY <1>4, <1>5, <1>6 DEF InStream
  <1>9. \A n \in 1 .. Len(kind) : InStream(Payload(n))' => InStream(Payload(n))
    <2> TAKE n \in 1 .. Len(kind)
    <2>1. Payload(n).n = n /\ n # N
      BY <1>7 DEF Payload
    <2> QED BY <1>6, <2>1 DEF InStream
  <1>10. InOrder'
    <2>1. \A i, j \in 1 .. Len(stream') : i <= j => stream'[i].n <= stream'[j].n
      <3> TAKE i, j \in 1 .. Len(stream')
      <3> HAVE i <= j
      <3>1. CASE i \in 1 .. Len(stream) /\ j \in 1 .. Len(stream)
        BY <1>5, <3>1 DEF InOrder
      <3>2. CASE stream'[j].n = N
        BY <1>1, <1>6, <1>7, <3>2
      <3>3. CASE i \notin 1 .. Len(stream) /\ j \in 1 .. Len(stream)
        BY <1>5, <3>3
      <3> QED BY <1>6, <3>1, <3>2, <3>3
    <2>2. \A i, j \in 1 .. Len(stream') : stream'[i] = stream'[j] => i = j
      <3> TAKE i, j \in 1 .. Len(stream')
      <3> HAVE stream'[i] = stream'[j]
      <3>1. CASE i \in 1 .. Len(stream) /\ j \in 1 .. Len(stream)
        BY <1>5, <3>1 DEF InOrder
      <3>2. CASE i - Len(stream) \in 1 .. Len(items) /\ j - Len(stream) \in 1 .. Len(items)
        <4>1. i - Len(stream) = j - Len(stream)
          <5>1. stream'[Len(stream) + (i - Len(stream))] = items[i - Len(stream)]
                /\ stream'[Len(stream) + (j - Len(stream))] = items[j - Len(stream)]
            BY <1>5, <3>2
          <5>2. i = Len(stream) + (i - Len(stream)) /\ j = Len(stream) + (j - Len(stream))
            BY <1>5
          <5> QED BY <1>4, <3>2, <5>1, <5>2
        <4> QED BY <1>5, <4>1
      <3>3. CASE i \in 1 .. Len(stream) /\ stream'[j].n = N
        BY <1>6, <1>7, <3>3, <1>5
      <3>4. CASE j \in 1 .. Len(stream) /\ stream'[i].n = N
        BY <1>6, <1>7, <3>4, <1>5
      <3> QED BY <1>6, <3>1, <3>2, <3>3, <3>4
    <2>3. \A i \in loop', j \in 1 .. Len(stream') : i.n <= stream'[j].n
      <3> TAKE i \in loop', j \in 1 .. Len(stream')
      <3>1. i \in loop /\ i.n \in 1 .. Len(kind)
        BY <1>2 DEF Arrived
      <3>2. CASE j \in 1 .. Len(stream) /\ stream'[j] = stream[j]
        BY <3>1, <3>2 DEF InOrder
      <3>3. CASE stream'[j].n = N
        BY <1>1, <1>7, <3>1, <3>3
      <3> QED BY <1>6, <3>2, <3>3
    <2> QED BY <2>1, <2>2, <2>3 DEF InOrder
  <1>11. Arrived'
    <2>1. \A i \in 1 .. Len(stream') : stream'[i].n \in 1 .. Len(kind')
      BY <1>1, <1>3, <1>6, <1>7
    <2> QED BY <1>2, <1>3, <1>7, <2>1 DEF Arrived
  <1>12. Steps' /\ LoopEvents' /\ DispatchesOnce'
    BY <1>2, <1>3 DEF Steps, LoopEvents, DispatchesOnce, Arrived
  <1>13. OnePlace'
    <2>1. \A n : Gone(n)' = Gone(n) /\ IsPublished(n)' = IsPublished(n)
      BY <1>2 DEF Gone, IsPublished
    <2>2. \A n \in Numbers : Gone(n) => n \in 1 .. Len(kind)
      BY DEF Gone, IsPublished, Arrived
    <2> QED BY <1>2, <1>9, <2>1, <2>2 DEF OnePlace, Arrived
  <1>14. Barrier'
    <2> SUFFICES ASSUME state_enabled, NEW r \in 1 .. N, kind'[r] = "Ready", r \notin updated
                 PROVE /\ InStream(Ev(r))' \/ Ev(r) \in loop
                       /\ \A t \in tasks : t.n <= r
      BY <1>2, <1>3 DEF Barrier, InStream, Ev
    <2>1. CASE r \in 1 .. Len(kind)
      BY <1>3, <1>8, <2>1 DEF Barrier
    <2>2. CASE r = N
      <3>1. PICK i \in 1 .. Len(items) : items[i] = Ev(N)
        BY <1>3, <1>4, <2>2
      <3>2. Len(stream) + i \in 1 .. Len(stream') /\ stream'[Len(stream) + i] = Ev(N)
        BY <1>4, <1>5, <3>1
      <3>3. InStream(Ev(r))'
        BY <2>2, <3>2 DEF InStream
      <3>4. \A t \in tasks : t.n <= r
        BY <1>1, <1>7, <2>2 DEF Arrived
      <3> QED BY <3>3, <3>4
    <2> QED BY <1>1, <2>1, <2>2
  <1>15. TypeOK'
    BY TypeStep DEF Next
  <1> QED BY <1>10, <1>11, <1>12, <1>13, <1>14, <1>15

\* The loop takes the first item and spawns its task, or updates the cache itself.
LEMMA TakeInv == ASSUME DispatchInv, Take PROVE DispatchInv'
  <1> USE DEF DispatchInv
  <1>h. PICK h : h = Head(stream)
    OBVIOUS
  <1> DEFINE ready == state_enabled /\ IsReady(h)
             step == IF state_enabled /\ h.type = "event" THEN "update" ELSE "match"
  <1>s. PICK T : T = Spawned(h, step)
    OBVIOUS
  <1>1. /\ loop = {} /\ stream # <<>> /\ stream' = Tail(stream)
        /\ UNCHANGED <<kind, published, failed, updated>>
    BY DEF Take, counters
  <1>2. /\ h \in Item /\ h = stream[1] /\ Len(stream) \in Nat /\ 1 \in 1 .. Len(stream)
        /\ Len(stream') = Len(stream) - 1
        /\ \A i \in 1 .. Len(stream') : i + 1 \in 1 .. Len(stream) /\ stream'[i] = stream[i + 1]
    BY <1>1, <1>h, TailItem
  <1>3. /\ ready => loop' = {h} /\ tasks' = tasks
        /\ ~ready => loop' = {} /\ tasks' = tasks \cup {T}
    BY <1>1, <1>h, <1>s DEF Take
  <1>4. T.n = h.n /\ T.type = h.type /\ T.step = step /\ step # "publish"
        /\ (step = "update" => h.type = "event")
    BY <1>2, <1>s, SpawnedType
  <1>5. ready => h.type = "event" /\ kind[h.n] = "Ready"
    BY DEF IsReady
  <1>6. state_enabled /\ h.type = "event" /\ kind[h.n] = "Ready" => ready
    BY DEF IsReady
  <1> HIDE DEF ready, step
  <1>7. /\ h.n \in 1 .. Len(kind) /\ ~InStream(h)'
        /\ \A i \in 1 .. Len(stream') : h.n <= stream'[i].n
    <2>1. \A i \in 1 .. Len(stream') : i + 1 # 1 /\ 1 <= i + 1
      BY <1>2
    <2> QED BY <1>2, <2>1 DEF InOrder, Arrived, InStream
  <1>8. \A x : /\ InStream(x)' => InStream(x)
               /\ InStream(x) => InStream(x)' \/ x = h
    <2>1. \A i \in 1 .. Len(stream) : i = 1 \/ (i - 1 \in 1 .. Len(stream') /\ stream'[i - 1] = stream[i])
      <3> TAKE i \in 1 .. Len(stream)
      <3>1. CASE i # 1
        <4>1. i - 1 \in 1 .. Len(stream') /\ (i - 1) + 1 = i
          BY <1>2, <3>1
        <4> QED BY <1>2, <4>1
      <3> QED BY <3>1
    <2> QED BY <1>2, <2>1 DEF InStream
  <1>9. InOrder'
    <2>1. \A i, j \in 1 .. Len(stream') : i <= j => i + 1 <= j + 1
      BY <1>2
    <2>2. \A i, j \in 1 .. Len(stream') : i + 1 = j + 1 => i = j
      BY <1>2
    <2>3. \A i, j \in 1 .. Len(stream') : i <= j => stream'[i].n <= stream'[j].n
      BY <1>2, <2>1 DEF InOrder
    <2>4. \A i, j \in 1 .. Len(stream') : stream'[i] = stream'[j] => i = j
      BY <1>2, <2>2 DEF InOrder
    <2>5. \A i \in loop' : i = h
      BY <1>3
    <2> QED BY <1>7, <2>3, <2>4, <2>5 DEF InOrder
  <1>10. Arrived'
    <2>1. \A t \in tasks' : t \in tasks \/ t.n = h.n
      BY <1>3, <1>4
    <2>2. \A i \in loop' : i = h
      BY <1>3
    <2> QED BY <1>1, <1>2, <1>7, <2>1, <2>2 DEF Arrived
  <1>11. Steps' /\ LoopEvents' /\ DispatchesOnce'
    <2>1. Steps'
      BY <1>1, <1>3, <1>4 DEF Steps
    <2>2. LoopEvents'
      BY <1>3, <1>5 DEF LoopEvents
    <2>3. DispatchesOnce'
      BY <1>1 DEF DispatchesOnce
    <2> QED BY <2>1, <2>2, <2>3
  <1>12. OnePlace'
    <2>1. \A n : Gone(n)' = Gone(n) /\ IsPublished(n)' = IsPublished(n)
      BY <1>1 DEF Gone, IsPublished
    <2>2. CASE ready
      BY <1>1, <1>3, <1>8, <2>1, <2>2 DEF OnePlace
    <2>3. CASE ~ready /\ h.type # "payload"
      BY <1>1, <1>3, <1>4, <1>8, <2>1, <2>3 DEF OnePlace
    <2>4. CASE ~ready /\ h.type = "payload"
      <3>1. h = Payload(h.n) /\ InStream(Payload(h.n)) /\ h.n \in Numbers
        BY <1>2, <2>4 DEF Payload, Item, InStream
      <3>2. ~InStream(Payload(T.n))' /\ ~Gone(T.n)
        BY <1>4, <1>7, <3>1 DEF OnePlace
      <3>3. \A t \in tasks : t.type = "payload" => t.n # T.n
        BY <1>4, <3>1 DEF OnePlace
      <3>4. tasks' = tasks \cup {T}
        BY <1>3, <2>4
      <3> QED BY <1>1, <1>8, <2>1, <3>2, <3>3, <3>4 DEF OnePlace
    <2> QED BY <2>2, <2>3, <2>4
  <1>13. Barrier'
    <2> SUFFICES ASSUME state_enabled, NEW r \in 1 .. Len(kind), kind[r] = "Ready", r \notin updated
                 PROVE /\ InStream(Ev(r))' \/ Ev(r) \in loop'
                       /\ \A t \in tasks' : t.n <= r
      BY <1>1 DEF Barrier, InStream, Ev
    <2>1. InStream(Ev(r)) /\ \A t \in tasks : t.n <= r
      BY <1>1 DEF Barrier
    <2>2. Ev(r).n = r /\ Ev(r).type = "event"
      BY DEF Ev
    <2>3. Ev(r) = h => ready
      BY <1>6, <2>2
    <2>4. InStream(Ev(r))' \/ Ev(r) \in loop'
      BY <1>3, <1>8, <2>1, <2>3
    <2>5. h.n <= r
      <3>1. CASE Ev(r) = h
        BY <1>7, <2>2, <3>1
      <3>2. CASE InStream(Ev(r))'
        BY <1>7, <2>2, <3>2 DEF InStream
      <3> QED BY <1>8, <2>1, <3>1, <3>2
    <2> QED BY <1>3, <1>4, <2>1, <2>4, <2>5
  <1>14. TypeOK'
    BY TypeStep DEF Next
  <1> QED BY <1>9, <1>10, <1>11, <1>12, <1>13, <1>14

\* The update of a Ready is over.
LEMMA ReadyInv == ASSUME DispatchInv, ReadyUpdated PROVE DispatchInv'
  <1> USE DEF DispatchInv
  <1>1. PICK i \in loop : tasks' = tasks \cup {Spawned(i, "match")} /\ updated' = updated \cup {i.n}
    BY DEF ReadyUpdated
  <1>2. loop' = {} /\ UNCHANGED <<kind, stream, published, failed>>
    BY DEF ReadyUpdated, counters
  <1> DEFINE T == Spawned(i, "match")
  <1>3. i \in Item /\ T.n = i.n /\ T.type = i.type /\ T.step = "match"
    BY SpawnedType DEF TypeOK
  <1>4. i.type = "event" /\ \A j \in loop : j = i
    BY DEF LoopEvents
  <1> HIDE DEF T
  <1>5. tasks' = tasks \cup {T}
    BY <1>1 DEF T
  <1>6. \A x : InStream(x)' = InStream(x) /\ Gone(x)' = Gone(x) /\ IsPublished(x)' = IsPublished(x)
    BY <1>2 DEF InStream, Gone, IsPublished
  <1>7. InOrder' /\ LoopEvents' /\ DispatchesOnce'
    BY <1>2 DEF InOrder, LoopEvents, DispatchesOnce
  <1>8. Arrived' /\ Steps'
    BY <1>2, <1>3, <1>5 DEF Arrived, Steps
  <1>9. OnePlace'
    BY <1>2, <1>3, <1>4, <1>5, <1>6 DEF OnePlace
  <1>10. Barrier'
    <2> SUFFICES ASSUME state_enabled, NEW r \in 1 .. Len(kind), kind[r] = "Ready", r \notin updated'
                 PROVE InStream(Ev(r)) /\ \A t \in tasks' : t.n <= r
      BY <1>2, <1>6 DEF Barrier
    <2>1. r # i.n /\ r \notin updated /\ Ev(r).n = r
      BY <1>1 DEF Ev
    <2>2. Ev(r) \notin loop
      BY <1>4, <2>1
    <2>3. InStream(Ev(r)) /\ \A t \in tasks : t.n <= r
      BY <2>1, <2>2 DEF Barrier
    <2>4. i.n <= r
      BY <2>1, <2>3 DEF InOrder, InStream
    <2> QED BY <1>3, <1>5, <2>3, <2>4
  <1>11. TypeOK'
    BY TypeStep DEF Next
  <1> QED BY <1>7, <1>8, <1>9, <1>10, <1>11

\* A task goes on to its next step.
LEMMA AdvanceInv ==
    ASSUME DispatchInv, TypeOK', NEW t \in tasks, NEW u,
           u.n = t.n, u.type = t.type,
           u.step = "match"
             \/ (u.step = "publish" /\ t.type = "payload" /\ kind[t.n] \in Dispatches),
           tasks' = (tasks \ {t}) \cup {u},
           UNCHANGED <<kind, stream, loop, published, failed>>,
           updated \subseteq updated'
    PROVE DispatchInv'
  <1> USE DEF DispatchInv
  <1>1. \A x : InStream(x)' = InStream(x) /\ Gone(x)' = Gone(x) /\ IsPublished(x)' = IsPublished(x)
    BY DEF InStream, Gone, IsPublished
  <1>2. InOrder' /\ LoopEvents' /\ DispatchesOnce'
    BY DEF InOrder, LoopEvents, DispatchesOnce
  <1>3. Arrived' /\ Steps'
    BY DEF Arrived, Steps
  <1>4. OnePlace'
    BY <1>1 DEF OnePlace
  <1>5. Barrier'
    <2> SUFFICES ASSUME state_enabled, NEW r \in 1 .. Len(kind), kind[r] = "Ready", r \notin updated'
                 PROVE (InStream(Ev(r)) \/ Ev(r) \in loop) /\ \A v \in tasks' : v.n <= r
      BY <1>1 DEF Barrier
    <2> QED BY DEF Barrier
  <1> QED BY <1>2, <1>3, <1>4, <1>5

\* A task ends, having published nothing.
LEMMA EndInv ==
    ASSUME DispatchInv, TypeOK', NEW t \in tasks,
           tasks' = tasks \ {t},
           UNCHANGED <<kind, stream, loop, published, failed, updated>>
    PROVE DispatchInv'
  <1> USE DEF DispatchInv
  <1>1. \A x : InStream(x)' = InStream(x) /\ Gone(x)' = Gone(x) /\ IsPublished(x)' = IsPublished(x)
    BY DEF InStream, Gone, IsPublished
  <1>2. InOrder' /\ LoopEvents' /\ DispatchesOnce' /\ Arrived' /\ Steps'
    BY DEF InOrder, LoopEvents, DispatchesOnce, Arrived, Steps
  <1>3. OnePlace'
    BY <1>1 DEF OnePlace
  <1>4. Barrier'
    BY <1>1 DEF Barrier
  <1> QED BY <1>2, <1>3, <1>4

\* A payload is published: its task is gone.
LEMMA PublishInv == ASSUME DispatchInv, NEW t \in tasks, Publish(t) PROVE DispatchInv'
  <1> USE DEF DispatchInv
  <1>0. TypeOK'
    BY TypeStep DEF Next, Run
  <1>1. /\ t.step = "publish" /\ tasks' = tasks \ {t}
        /\ published' = Append(published, [n |-> t.n, old |-> t.old])
        /\ UNCHANGED <<kind, stream, loop, failed, updated>>
    BY DEF Publish
  <1>2. t.type = "payload" /\ kind[t.n] \in Dispatches /\ ~Gone(t.n) /\ ~InStream(Payload(t.n))
        /\ t.n \in 1 .. Len(kind)
    BY <1>1 DEF Steps, OnePlace, Arrived
  <1>3. /\ Len(published) \in Nat /\ Len(published') = Len(published) + 1
        /\ published'[Len(published) + 1].n = t.n
        /\ \A i \in 1 .. Len(published) : published'[i] = published[i]
    BY <1>1 DEF TypeOK
  <1>4. \A i \in 1 .. Len(published') : i \in 1 .. Len(published) \/ i = Len(published) + 1
    BY <1>3
  <1>5. \A n : InStream(n)' = InStream(n) /\ (IsPublished(n)' => IsPublished(n) \/ n = t.n)
                /\ (Gone(n)' => Gone(n) \/ n = t.n)
    BY <1>1, <1>3, <1>4 DEF InStream, IsPublished, Gone
  <1>6. InOrder' /\ LoopEvents' /\ Steps'
    BY <1>1 DEF InOrder, LoopEvents, Steps
  <1>7. Arrived'
    BY <1>1, <1>2, <1>3, <1>4 DEF Arrived
  <1>8. OnePlace'
    <2>1. \A u \in tasks' : u \in tasks /\ (u.type = "payload" => u.n # t.n)
      BY <1>1, <1>2 DEF OnePlace
    <2>2. \A n \in failed : n # t.n
      BY <1>2 DEF Gone
    <2> QED BY <1>1, <1>2, <1>5, <2>1, <2>2 DEF OnePlace
  <1>9. Barrier'
    BY <1>1, <1>5 DEF Barrier
  <1>10. DispatchesOnce'
    <2>1. \A i \in 1 .. Len(published) : published[i].n # t.n
      BY <1>2 DEF Gone, IsPublished
    <2>2. \A i \in 1 .. Len(published') : kind'[published'[i].n] \in Dispatches
      BY <1>1, <1>2, <1>3, <1>4 DEF DispatchesOnce
    <2>3. \A i, j \in 1 .. Len(published') : published'[i].n = published'[j].n => i = j
      BY <1>3, <1>4, <2>1 DEF DispatchesOnce
    <2> QED BY <2>2, <2>3 DEF DispatchesOnce
  <1> QED BY <1>0, <1>6, <1>7, <1>8, <1>9, <1>10

\* A payload is given up: its task is gone.
LEMMA PublishFailsInv == ASSUME DispatchInv, NEW t \in tasks, PublishFails(t) PROVE DispatchInv'
  <1> USE DEF DispatchInv
  <1>0. TypeOK'
    BY TypeStep DEF Next, Run
  <1>1. /\ t.step = "publish" /\ tasks' = tasks \ {t} /\ failed' = failed \cup {t.n}
        /\ UNCHANGED <<kind, stream, loop, published, updated>>
    BY DEF PublishFails
  <1>2. t.type = "payload" /\ ~Gone(t.n) /\ ~InStream(Payload(t.n)) /\ t.n \in 1 .. Len(kind)
    BY <1>1 DEF Steps, OnePlace, Arrived
  <1>3. \A n : /\ InStream(n)' = InStream(n) /\ IsPublished(n)' = IsPublished(n)
               /\ (Gone(n)' => Gone(n) \/ n = t.n)
    BY <1>1 DEF InStream, IsPublished, Gone
  <1>4. InOrder' /\ LoopEvents' /\ Steps' /\ DispatchesOnce'
    BY <1>1 DEF InOrder, LoopEvents, Steps, DispatchesOnce
  <1>5. Arrived'
    BY <1>1, <1>2 DEF Arrived
  <1>6. OnePlace'
    <2>1. \A u \in tasks' : u \in tasks /\ (u.type = "payload" => u.n # t.n)
      BY <1>1, <1>2 DEF OnePlace
    <2>2. ~IsPublished(t.n)
      BY <1>2 DEF Gone
    <2> QED BY <1>1, <1>2, <1>3, <2>1, <2>2 DEF OnePlace
  <1>7. Barrier'
    BY <1>1, <1>3 DEF Barrier
  <1> QED BY <1>0, <1>4, <1>5, <1>6, <1>7

\* An update makes no other difference to its task than the step and `old`.
LEMMA UpdatedTask ==
    ASSUME TypeOK, NEW t \in tasks, Update(t)
    PROVE \E u : /\ tasks' = (tasks \ {t}) \cup {u}
                 /\ u.n = t.n /\ u.type = t.type /\ u.step = "match"
  <1>0. t \in Task
    BY DEF TypeOK
  <1>1. CASE tasks' = (tasks \ {t}) \cup {[t EXCEPT !.step = "match"]}
    <2>1. /\ [t EXCEPT !.step = "match"].n = t.n /\ [t EXCEPT !.step = "match"].type = t.type
          /\ [t EXCEPT !.step = "match"].step = "match"
      BY <1>0 DEF Task
    <2> QED BY <1>1, <2>1
  <1>2. CASE tasks' = (tasks \ {t}) \cup {[t EXCEPT !.step = "match", !.old = state_old /\ cached]}
    <2> DEFINE u == [t EXCEPT !.step = "match", !.old = state_old /\ cached]
    <2>1. u.n = t.n /\ u.type = t.type /\ u.step = "match"
      BY <1>0 DEF Task
    <2> QED BY <1>2, <2>1
  <1> QED BY <1>1, <1>2 DEF Update

\* A task runs one step.
LEMMA RunInv == ASSUME DispatchInv, NEW t \in tasks, Run(t) PROVE DispatchInv'
  <1>0. TypeOK /\ TypeOK' /\ t \in Task
    BY TypeStep DEF Next, DispatchInv, TypeOK
  <1>1. CASE Update(t)
    <2>1. PICK u : tasks' = (tasks \ {t}) \cup {u} /\ u.n = t.n /\ u.type = t.type /\ u.step = "match"
      BY <1>0, <1>1, UpdatedTask
    <2>2. UNCHANGED <<kind, stream, loop, published, failed>> /\ updated \subseteq updated'
      BY <1>1 DEF Update, counters
    <2> QED BY <1>0, <2>1, <2>2, AdvanceInv
  <1>2. CASE Count(t)
    <2>1. tasks' = tasks \ {t} /\ UNCHANGED <<kind, stream, loop, published, failed, updated>>
      BY <1>2 DEF Count
    <2> QED BY <1>0, <2>1, EndInv
  <1>3. CASE Decode(t)
    <2>1. UNCHANGED <<kind, stream, loop, published, failed, updated>> /\ t.type = "payload"
      BY <1>3 DEF Decode
    <2>2. CASE tasks' = tasks \ {t}
      BY <1>0, <2>1, <2>2, EndInv
    <2>3. CASE kind[t.n] \in Dispatches /\ tasks' = (tasks \ {t}) \cup {[t EXCEPT !.step = "publish"]}
      <3>1. PICK u : u = [t EXCEPT !.step = "publish"]
        OBVIOUS
      <3>2. u.n = t.n /\ u.type = t.type /\ u.step = "publish"
        BY <1>0, <3>1 DEF Task
      <3>3. tasks' = (tasks \ {t}) \cup {u} /\ updated \subseteq updated'
        BY <2>1, <2>3, <3>1
      <3> QED BY <1>0, <2>1, <2>3, <3>2, <3>3, AdvanceInv
    <2> QED BY <1>3, <2>2, <2>3 DEF Decode
  <1> QED BY <1>1, <1>2, <1>3, PublishInv, PublishFailsInv DEF Run

\* Every step keeps the invariant.
LEMMA DispatchStep == DispatchInv /\ [Next]_vars => DispatchInv'
  <1> SUFFICES ASSUME DispatchInv, [Next]_vars PROVE DispatchInv'
    OBVIOUS
  <1>1. CASE UNCHANGED vars
    BY <1>1 DEF vars, DispatchInv, TypeOK, InOrder, Arrived, Steps, LoopEvents, OnePlace, Barrier,
                DispatchesOnce, InStream, Gone, IsPublished
  <1> QED BY <1>1, ArriveInv, TakeInv, ReadyInv, RunInv DEF Next

\* The invariant holds in every state.
LEMMA DispatchAlways == Spec => []DispatchInv
  BY DispatchInit, DispatchStep, PTL DEF Spec

\* In every instance the variables of `outgoing` have their types.
THEOREM DispatchTypes == Spec => []TypeOK
  <1>1. DispatchInv => TypeOK
    BY DEF DispatchInv
  <1> QED BY DispatchAlways, <1>1, PTL

\* Whatever arrives and however the tasks of `outgoing` are scheduled, only dispatch events
\* are published and none of them twice.
THEOREM DispatchOnce == Spec => []DispatchesOnce
  <1>1. DispatchInv => DispatchesOnce
    BY DEF DispatchInv
  <1> QED BY DispatchAlways, <1>1, PTL

\* However the tasks are scheduled, none of them is for a message that followed a Ready
\* whose cache update is not over.
THEOREM DispatchBarrier == Spec => []ReadyIsBarrier
  <1>1. DispatchInv => ReadyIsBarrier
    <2> SUFFICES ASSUME DispatchInv, state_enabled, NEW t \in tasks, NEW r \in 1 .. Len(kind),
                        kind[r] = "Ready", r < t.n, r \notin updated
                 PROVE FALSE
      BY DEF ReadyIsBarrier
    <2>1. t.n <= r
      BY DEF DispatchInv, Barrier
    <2>2. t.n \in Nat /\ r \in Nat
      BY DEF DispatchInv, Arrived
    <2> QED BY <2>1, <2>2
  <1> QED BY DispatchAlways, <1>1, PTL
-----------------------------------------------------------------------------
(* The counter. *)

Publishing == {t \in tasks : t.step = "publish"}
CountInv == IsFiniteSet(tasks) /\ IsFiniteSet(failed) /\ CountedIsPublished

\* Nothing that the counter is compared with changes.
LEMMA CountSame ==
    ASSUME CountInv, IsFiniteSet(tasks'), Publishing' = Publishing,
           UNCHANGED <<gateway_events, published, failed>>
    PROVE CountInv'
  BY DEF CountInv, CountedIsPublished, Publishing

\* The counter goes up with the one task that is about to publish.
LEMMA CountStep == ASSUME CountInv, DispatchInv, [Next]_vars PROVE CountInv'
  <1>0. IsFiniteSet(tasks) /\ IsFiniteSet(failed) /\ TypeOK /\ IsFiniteSet(Publishing)
        /\ gateway_events = Len(published) + Cardinality(failed) + Cardinality(Publishing)
    <2>1. Publishing \subseteq tasks
      BY DEF Publishing
    <2> QED BY <2>1, FS_Subset DEF CountInv, DispatchInv, CountedIsPublished, Publishing
  <1>c. Len(published) \in Nat /\ Cardinality(failed) \in Nat /\ Cardinality(Publishing) \in Nat
    BY <1>0, FS_CardinalityType DEF TypeOK
  <1>a. \A u : IsFiniteSet(tasks \cup {u}) /\ IsFiniteSet(tasks \ {u})
                /\ IsFiniteSet((tasks \ {u}) \cup {u})
    BY <1>0, FS_AddElement, FS_RemoveElement
  <1>b. \A u, v : IsFiniteSet((tasks \ {u}) \cup {v})
    BY <1>a, FS_AddElement
  <1>1. CASE UNCHANGED vars \/ \E k \in Kinds : Arrive(k)
    <2>1. UNCHANGED <<tasks, gateway_events, published, failed>>
      BY <1>1 DEF vars, Arrive, counters
    <2> QED BY <1>0, <2>1, CountSame DEF Publishing
  <1>2. ASSUME NEW u, u.step # "publish", tasks' = tasks \cup {u},
               UNCHANGED <<gateway_events, published, failed>>
        PROVE CountInv'
    <2>1. Publishing' = Publishing /\ IsFiniteSet(tasks')
      BY <1>2, <1>a DEF Publishing
    <2> QED BY <1>2, <2>1, CountSame
  <1>3. CASE Take
    <2>1. Head(stream) \in Item
      BY <1>0, <1>3, TailItem DEF Take
    <2>2. UNCHANGED <<gateway_events, published, failed>>
      BY <1>3 DEF Take, counters
    <2>3. CASE UNCHANGED tasks
      BY <1>0, <2>2, <2>3, CountSame DEF Publishing
    <2>4. ASSUME NEW step \in {"update", "match"}, tasks' = tasks \cup {Spawned(Head(stream), step)}
          PROVE CountInv'
      <3>1. Spawned(Head(stream), step).step = step /\ step # "publish"
        BY <2>4 DEF Spawned
      <3> QED BY <1>2, <2>2, <2>4, <3>1
    <2>5. UNCHANGED tasks \/ \E step \in {"update", "match"} :
                                tasks' = tasks \cup {Spawned(Head(stream), step)}
      BY <1>3 DEF Take
    <2> QED BY <2>3, <2>4, <2>5
  <1>4. CASE ReadyUpdated
    <2>1. PICK i \in loop : tasks' = tasks \cup {Spawned(i, "match")}
      BY <1>4 DEF ReadyUpdated
    <2>2. Spawned(i, "match").step = "match"
      BY DEF Spawned
    <2>3. UNCHANGED <<gateway_events, published, failed>>
      BY <1>4 DEF ReadyUpdated, counters
    <2> QED BY <1>2, <2>1, <2>2, <2>3
  <1>5. ASSUME NEW t \in tasks, Run(t) PROVE CountInv'
    <2>0. t \in Task
      BY <1>0 DEF TypeOK
    <2>1. CASE Update(t)
      <3>1. PICK u : tasks' = (tasks \ {t}) \cup {u} /\ u.step = "match"
        BY <1>0, <2>1, UpdatedTask
      <3>2. t.step = "update" /\ UNCHANGED <<gateway_events, published, failed>>
        BY <2>1 DEF Update, counters
      <3>3. Publishing' = Publishing
        BY <3>1, <3>2 DEF Publishing
      <3> QED BY <1>b, <3>1, <3>2, <3>3, CountSame
    <2>2. CASE tasks' = tasks \ {t} /\ t.step = "match" /\ UNCHANGED <<gateway_events, published, failed>>
      <3>1. Publishing' = Publishing /\ IsFiniteSet(tasks')
        BY <1>a, <2>2 DEF Publishing
      <3> QED BY <2>2, <3>1, CountSame
    <2>3. CASE Count(t)
      BY <2>2, <2>3 DEF Count
    <2>4. CASE Decode(t)
      <3>1. UNCHANGED <<published, failed>> /\ t.type = "payload" /\ t.step = "match"
        BY <2>4 DEF Decode
      <3>2. CASE UNCHANGED gateway_events /\ tasks' = tasks \ {t}
        BY <2>2, <3>1, <3>2
      <3>3. CASE /\ gateway_events' = gateway_events + 1
                 /\ tasks' = (tasks \ {t}) \cup {[t EXCEPT !.step = "publish"]}
        <4>1. PICK u : u = [t EXCEPT !.step = "publish"]
          OBVIOUS
        <4>2. u.n = t.n /\ u.type = "payload" /\ u.step = "publish" /\ u # t
          BY <2>0, <3>1, <4>1 DEF Task
        <4>3. u \notin tasks
          BY <3>1, <4>2 DEF DispatchInv, OnePlace
        <4>4. Publishing' = Publishing \cup {u} /\ u \notin Publishing
          BY <3>1, <3>3, <4>1, <4>2, <4>3 DEF Publishing
        <4>5. Cardinality(Publishing') = Cardinality(Publishing) + 1
          BY <1>0, <4>4, FS_AddElement
        <4>6. IsFiniteSet(tasks')
          BY <1>b, <3>3
        <4>7. gateway_events' = Len(published') + Cardinality(failed') + Cardinality(Publishing')
          BY <1>0, <1>c, <3>1, <3>3, <4>5
        <4> QED BY <1>0, <3>1, <4>6, <4>7 DEF CountInv, CountedIsPublished, Publishing
      <3> QED BY <2>4, <3>2, <3>3 DEF Decode
    <2>5. ASSUME t.step = "publish", tasks' = tasks \ {t}
          PROVE /\ IsFiniteSet(tasks')
                /\ Cardinality(Publishing') = Cardinality(Publishing) - 1
      <3>1. Publishing' = Publishing \ {t} /\ t \in Publishing
        BY <2>5 DEF Publishing
      <3> QED BY <1>0, <1>a, <2>5, <3>1, FS_RemoveElement
    <2>6. CASE Publish(t)
      <3>1. /\ t.step = "publish" /\ tasks' = tasks \ {t} /\ UNCHANGED <<gateway_events, failed>>
            /\ published' = Append(published, [n |-> t.n, old |-> t.old])
        BY <2>6 DEF Publish
      <3>2. Len(published') = Len(published) + 1
        BY <1>0, <3>1 DEF TypeOK
      <3>3. gateway_events' = Len(published') + Cardinality(failed') + Cardinality(Publishing')
        BY <1>0, <1>c, <2>5, <3>1, <3>2
      <3> QED BY <1>0, <2>5, <3>1, <3>3 DEF CountInv, CountedIsPublished, Publishing
    <2>7. CASE PublishFails(t)
      <3>1. /\ t.step = "publish" /\ tasks' = tasks \ {t}
            /\ UNCHANGED <<gateway_events, published>> /\ failed' = failed \cup {t.n}
        BY <2>7 DEF PublishFails
      <3>2. t.n \notin failed
        BY <3>1 DEF DispatchInv, Steps, OnePlace, Gone
      <3>3. IsFiniteSet(failed') /\ Cardinality(failed') = Cardinality(failed) + 1
        BY <1>0, <3>1, <3>2, FS_AddElement
      <3>4. gateway_events' = Len(published') + Cardinality(failed') + Cardinality(Publishing')
        BY <1>0, <1>c, <2>5, <3>1, <3>3
      <3> QED BY <2>5, <3>1, <3>3, <3>4 DEF CountInv, CountedIsPublished, Publishing
    <2> QED BY <1>5, <2>1, <2>3, <2>4, <2>6, <2>7 DEF Run
  <1> QED BY <1>1, <1>3, <1>4, <1>5 DEF Next

\* The counter GATEWAY_EVENTS agrees at every moment with the messages published, given up
\* and about to be published.
THEOREM DispatchCounted == Spec => []CountedIsPublished
  <1>1. Init => CountInv
    <2> SUFFICES ASSUME Init PROVE CountInv
      OBVIOUS
    <2>1. IsFiniteSet({}) /\ Cardinality({}) = 0
      BY FS_EmptySet
    <2>2. Publishing = {} /\ tasks = {} /\ failed = {} /\ gateway_events = 0 /\ Len(published) = 0
      BY DEF Init, Publishing
    <2> QED BY <2>1, <2>2 DEF CountInv, CountedIsPublished, Publishing
  <1>2. CountInv /\ DispatchInv /\ [Next]_vars => CountInv'
    BY CountStep
  <1>3. CountInv => CountedIsPublished
    BY DEF CountInv
  <1> QED BY DispatchAlways, <1>1, <1>2, <1>3, PTL DEF Spec
-----------------------------------------------------------------------------
(* The promise of EventFeed. *)

\* The payload of message n is in the stream or in a task, and Due in these terms.
Carried(n) == InStream(Payload(n)) \/ \E t \in tasks : t.n = n /\ t.type = "payload"

\* The published messages, in order: `queue` of EventFeed.
Queue == [i \in 1 .. Len(published) |-> published[i].n]

\* The elements of a sequence over a set are in the set.
LEMMA SeqElements == ASSUME NEW S, NEW q \in Seq(S) PROVE \A i \in 1 .. Len(q) : q[i] \in S
  OBVIOUS

\* What Due says, now and after a step.
LEMMA DueCarried ==
    /\ \A n : n \in Due <=> n \in 1 .. Len(kind) /\ kind[n] \in Dispatches /\ Carried(n)
    /\ \A n : n \in Due' <=> n \in 1 .. Len(kind') /\ kind'[n] \in Dispatches /\ Carried(n)'
  BY DEF Due, Carried, InStream, Payload

\* A step that carries each dispatch event as before leaves the same ones due.
LEMMA DueSame ==
    ASSUME kind' = kind,
           \A n \in 1 .. Len(kind) : kind[n] \in Dispatches => (Carried(n)' <=> Carried(n))
    PROVE  Due' = Due
  BY DueCarried

\* A message that arrives is due, or nothing new is.
LEMMA ArriveDue ==
    ASSUME TypeOK, NEW k \in Kinds, Arrive(k)
    PROVE /\ Len(kind') = Len(kind) + 1
          /\ Due' \in {Due, Due \cup {Len(kind) + 1}}
  <1> DEFINE N == Len(kind) + 1
             items == Items(k, N)
  <1>1. N \in Numbers /\ Len(kind) \in Nat
    BY DispatchAssumption DEF Arrive, TypeOK, Numbers
  <1>2. kind' = Append(kind, k) /\ stream' = stream \o items /\ tasks' = tasks
    BY DEF Arrive
  <1>3. Len(kind') = N /\ \A n \in 1 .. Len(kind) : kind'[n] = kind[n] /\ n # N
    BY <1>1, <1>2 DEF TypeOK
  <1>4. /\ items \in Seq(Item) /\ Len(items) \in Nat
        /\ \A i \in 1 .. Len(items) : items[i].n = N
    BY <1>1, ItemsType
  <1> HIDE DEF items
  <1>5. /\ Len(stream') = Len(stream) + Len(items) /\ Len(stream) \in Nat
        /\ \A i \in 1 .. Len(stream) : stream'[i] = stream[i]
        /\ \A i \in 1 .. Len(items) : stream'[Len(stream) + i] = items[i]
    BY <1>2, <1>4 DEF TypeOK
  <1>6. \A i \in 1 .. Len(stream') :
            \/ i \in 1 .. Len(stream) /\ stream'[i] = stream[i]
            \/ stream'[i].n = N
    <2> TAKE i \in 1 .. Len(stream')
    <2>1. CASE i <= Len(stream)
      BY <1>5, <2>1
    <2>2. CASE ~(i <= Len(stream))
      <3>1. PICK j \in 1 .. Len(items) : i = Len(stream) + j
        <4>1. i - Len(stream) \in 1 .. Len(items) /\ i = Len(stream) + (i - Len(stream))
          BY <1>4, <1>5, <2>2
        <4> QED BY <4>1
      <3> QED BY <1>4, <1>5, <3>1
    <2> QED BY <2>1, <2>2
  <1>7. ASSUME NEW n \in 1 .. Len(kind) PROVE n \in Due' <=> n \in Due
    <2>1. Payload(n).n = n
      BY DEF Payload
    <2>2. InStream(Payload(n))' <=> InStream(Payload(n))
      <3>1. InStream(Payload(n)) => InStream(Payload(n))'
        <4> SUFFICES ASSUME NEW i \in 1 .. Len(stream), stream[i] = Payload(n)
                     PROVE  \E j \in 1 .. Len(stream') : stream'[j] = Payload(n)
          BY DEF InStream, Payload
        <4>1. i \in 1 .. Len(stream')
          BY <1>4, <1>5
        <4> QED BY <1>5, <4>1
      <3>2. InStream(Payload(n))' => InStream(Payload(n))
        <4> SUFFICES ASSUME NEW i \in 1 .. Len(stream'), stream'[i] = Payload(n)
                     PROVE  \E j \in 1 .. Len(stream) : stream[j] = Payload(n)
          BY DEF InStream, Payload
        <4> QED BY <1>3, <1>6, <2>1
      <3> QED BY <3>1, <3>2
    <2>3. Carried(n)' <=> Carried(n)
      BY <1>2, <2>2 DEF Carried
    <2>4. n \in 1 .. Len(kind')
      BY <1>1, <1>3
    <2> QED BY <1>3, <2>3, <2>4, DueCarried
  <1>8. \A n : n \in Due \/ n \in Due' => n \in 1 .. Len(kind) \/ n = N
    BY <1>1, <1>3, DueCarried
  <1>9. N \notin Due
    BY <1>1, DueCarried
  <1> HIDE DEF N
  <1>10. CASE N \in Due'
    <2>1. Due' = Due \cup {N}
      BY <1>7, <1>8, <1>10
    <2> QED BY <1>3, <2>1 DEF N
  <1>11. CASE N \notin Due'
    <2>1. Due' = Due
      BY <1>7, <1>8, <1>9, <1>11
    <2> QED BY <1>3, <2>1 DEF N
  <1> QED BY <1>10, <1>11

\* The loop carries on: the payload it takes from the stream is in a task at once.
LEMMA TakeDue == ASSUME DispatchInv, Take PROVE Due' = Due
  <1>h. PICK h : h = Head(stream)
    OBVIOUS
  <1> DEFINE step == IF state_enabled /\ h.type = "event" THEN "update" ELSE "match"
  <1>1. /\ stream # <<>> /\ stream' = Tail(stream) /\ kind' = kind
        /\ \/ h.type = "event" /\ tasks' = tasks
           \/ tasks' = tasks \cup {Spawned(h, step)}
    BY <1>h DEF Take, IsReady
  <1>2. /\ h \in Item /\ h = stream[1] /\ Len(stream) \in Nat /\ Len(stream) > 0
        /\ Len(stream') = Len(stream) - 1
        /\ \A i \in 1 .. Len(stream) - 1 : stream'[i] = stream[i + 1]
    BY <1>1, <1>h, TailItem DEF DispatchInv
  <1>3. Spawned(h, step).n = h.n /\ Spawned(h, step).type = h.type
    BY DEF Spawned
  <1> HIDE DEF step
  <1>4. ASSUME NEW n PROVE Carried(n)' <=> Carried(n)
    <2>1. InStream(Payload(n)) <=> h = Payload(n) \/ InStream(Payload(n))'
      <3>1. InStream(Payload(n))' => InStream(Payload(n))
        <4> SUFFICES ASSUME NEW i \in 1 .. Len(stream'), stream'[i] = Payload(n)
                     PROVE  \E j \in 1 .. Len(stream) : stream[j] = Payload(n)
          BY DEF InStream, Payload
        <4>1. i + 1 \in 1 .. Len(stream) /\ i \in 1 .. Len(stream) - 1
          BY <1>2
        <4>2. stream[i + 1] = Payload(n)
          BY <1>2, <4>1
        <4> QED BY <4>1, <4>2
      <3>2. h = Payload(n) => InStream(Payload(n))
        <4>1. 1 \in 1 .. Len(stream)
          BY <1>2
        <4> QED BY <1>2, <4>1 DEF InStream
      <3>3. InStream(Payload(n)) => h = Payload(n) \/ InStream(Payload(n))'
        <4> SUFFICES ASSUME NEW i \in 1 .. Len(stream), stream[i] = Payload(n), i # 1
                     PROVE  \E j \in 1 .. Len(stream') : stream'[j] = Payload(n)
          BY <1>2 DEF InStream, Payload
        <4>1. i - 1 \in 1 .. Len(stream') /\ i - 1 \in 1 .. Len(stream) - 1 /\ (i - 1) + 1 = i
          BY <1>2
        <4>2. stream'[i - 1] = stream[(i - 1) + 1]
          BY <1>2, <4>1
        <4>3. stream'[i - 1] = Payload(n)
          BY <4>1, <4>2
        <4> QED BY <4>1, <4>3
      <3> QED BY <3>1, <3>2, <3>3
    <2>2. h = Payload(n) <=> h.n = n /\ h.type = "payload"
      BY <1>2 DEF Item, Payload
    <2> QED BY <1>1, <1>3, <2>1, <2>2 DEF Carried
  <1> QED BY <1>1, <1>4, DueSame

\* A task that goes on with the same message, and one of an event that is spawned or ends,
\* leave the same dispatch events due.
LEMMA TasksDue ==
    ASSUME kind' = kind, stream' = stream,
           \A n \in 1 .. Len(kind) : kind[n] \in Dispatches =>
              ((\E t \in tasks' : t.n = n /\ t.type = "payload")
                  <=> (\E t \in tasks : t.n = n /\ t.type = "payload"))
    PROVE  Due' = Due
  <1>1. \A n \in 1 .. Len(kind) : kind[n] \in Dispatches => (Carried(n)' <=> Carried(n))
    BY DEF Carried, InStream, Payload
  <1> QED BY <1>1, DueSame

\* The task that is about to publish carries its event, and nothing else does.
LEMMA LeavesDue ==
    ASSUME DispatchInv, NEW t \in tasks, t.step = "publish",
           UNCHANGED <<kind, stream>>, tasks' = tasks \ {t}
    PROVE  t.n \in Due /\ Due' = Due \ {t.n}
  <1>1. t.type = "payload" /\ kind[t.n] \in Dispatches /\ t.n \in 1 .. Len(kind)
    BY DEF DispatchInv, Steps, Arrived
  <1>2. ~InStream(Payload(t.n)) /\ \A u \in tasks : u.type = "payload" /\ u.n = t.n => u = t
    BY <1>1 DEF DispatchInv, OnePlace
  <1>3. t.n \in Due
    BY <1>1, DueCarried DEF Carried
  <1>4. InStream(Payload(t.n))' <=> InStream(Payload(t.n))
    BY DEF InStream, Payload
  <1>5. ~Carried(t.n)'
    BY <1>2, <1>4 DEF Carried, Payload
  <1>6. \A n : n # t.n => (Carried(n)' <=> Carried(n))
    BY DEF Carried, InStream, Payload
  <1> QED BY <1>3, <1>5, <1>6, DueCarried

\* In terms of the promise, a step is one of Receive, Publish and GiveUp, or no step.
LEMMA FeedStep == ASSUME DispatchInv, [Next]_vars PROVE [Feed!Next]_(Feed!feed)
  <1>0. TypeOK
    BY DEF DispatchInv
  <1>1. ASSUME NEW k \in Kinds, Arrive(k) PROVE [Feed!Next]_(Feed!feed)
    <2>1. UNCHANGED <<published, failed>>
      BY <1>1 DEF Arrive, counters
    <2>2. Feed!Receive
      BY <1>0, <1>1, <2>1, ArriveDue DEF Feed!Receive
    <2> QED BY <2>2 DEF Feed!Next
  <1>2. ASSUME Due' = Due, UNCHANGED <<kind, published, failed>> PROVE [Feed!Next]_(Feed!feed)
    BY <1>2 DEF Feed!feed
  <1>3. CASE Take
    BY <1>2, <1>3, TakeDue DEF Take, counters
  <1>4. CASE ReadyUpdated
    <2>1. PICK i \in loop : tasks' = tasks \cup {Spawned(i, "match")}
      BY <1>4 DEF ReadyUpdated
    <2>2. Spawned(i, "match").type # "payload"
      BY DEF Spawned, DispatchInv, LoopEvents
    <2>3. UNCHANGED <<kind, stream, published, failed>>
      BY <1>4 DEF ReadyUpdated, counters
    <2> QED BY <1>2, <2>1, <2>2, <2>3, TasksDue
  <1>5. ASSUME NEW t \in tasks, Run(t) PROVE [Feed!Next]_(Feed!feed)
    <2>0. t \in Task
      BY <1>0 DEF TypeOK
    <2>1. CASE Update(t)
      <3>1. PICK u : tasks' = (tasks \ {t}) \cup {u} /\ u.n = t.n /\ u.type = t.type
        BY <1>0, <2>1, UpdatedTask
      <3>2. UNCHANGED <<kind, stream, published, failed>>
        BY <2>1 DEF Update, counters
      <3> QED BY <1>2, <3>1, <3>2, TasksDue
    <2>2. CASE Count(t)
      <3>1. tasks' = tasks \ {t} /\ t.type # "payload" /\ UNCHANGED <<kind, stream, published, failed>>
        BY <2>2 DEF Count
      <3> QED BY <1>2, <3>1, TasksDue
    <2>3. CASE Decode(t)
      <3>1. UNCHANGED <<kind, stream, published, failed>>
        BY <2>3 DEF Decode
      <3>2. CASE kind[t.n] \in Dispatches /\ tasks' = (tasks \ {t}) \cup {[t EXCEPT !.step = "publish"]}
        <4>1. PICK u : u = [t EXCEPT !.step = "publish"]
          OBVIOUS
        <4>2. u.n = t.n /\ u.type = t.type /\ tasks' = (tasks \ {t}) \cup {u}
          BY <2>0, <3>2, <4>1 DEF Task
        <4> QED BY <1>2, <3>1, <4>2, TasksDue
      <3>3. CASE kind[t.n] \notin Dispatches /\ tasks' = tasks \ {t}
        BY <1>2, <3>1, <3>3, TasksDue
      <3> QED BY <2>3, <3>2, <3>3 DEF Decode
    <2>4. CASE Publish(t)
      <3>1. /\ t.step = "publish" /\ tasks' = tasks \ {t} /\ UNCHANGED <<kind, stream, failed>>
            /\ published' = Append(published, [n |-> t.n, old |-> t.old])
        BY <2>4 DEF Publish
      <3>2. t.n \in Due /\ Due' = Due \ {t.n}
        BY <3>1, LeavesDue
      <3>3. Queue' = Append(Queue, t.n)
        <4>1. /\ Len(published) \in Nat /\ Len(published') = Len(published) + 1
              /\ \A i \in 1 .. Len(published) : published'[i] = published[i]
              /\ published'[Len(published) + 1].n = t.n
          BY <1>0, <2>0, <3>1 DEF TypeOK, Task
        <4>2. Queue \in Seq(Numbers) /\ Len(Queue) = Len(published)
          <5>1. \A i \in 1 .. Len(published) : published[i] \in [n : Numbers, old : BOOLEAN]
            BY <1>0, SeqElements DEF TypeOK
          <5>2. \A i \in 1 .. Len(published) : published[i].n \in Numbers
            BY <5>1
          <5> QED BY <4>1, <5>2 DEF Queue
        <4>3. t.n \in Numbers
          BY <2>0 DEF Task
        <4> QED BY <4>1, <4>2, <4>3 DEF Queue
      <3>4. Feed!Publish(t.n)
        BY <3>1, <3>2, <3>3 DEF Feed!Publish, Queue
      <3> QED BY <3>2, <3>4 DEF Feed!Next
    <2>5. CASE PublishFails(t)
      <3>1. /\ Faults /\ t.step = "publish" /\ tasks' = tasks \ {t}
            /\ UNCHANGED <<kind, stream, published>> /\ failed' = failed \cup {t.n}
        BY <2>5 DEF PublishFails
      <3>2. t.n \in Due /\ Due' = Due \ {t.n}
        BY <3>1, LeavesDue
      <3>3. Feed!GiveUp(t.n)
        BY <3>1, <3>2 DEF Feed!GiveUp
      <3> QED BY <3>2, <3>3 DEF Feed!Next
    <2> QED BY <1>5, <2>1, <2>2, <2>3, <2>4, <2>5 DEF Run
  <1>6. CASE UNCHANGED vars
    <2>1. UNCHANGED <<kind, stream, tasks, published, failed>>
      BY <1>6 DEF vars
    <2> QED BY <1>2, <2>1, TasksDue
  <1> QED BY <1>1, <1>3, <1>4, <1>5, <1>6 DEF Next

\* Initially nothing has been received.
LEMMA FeedInit == Init => Feed!Init
  <1> SUFFICES ASSUME Init PROVE Feed!Init
    OBVIOUS
  <1>1. kind = <<>> /\ published = <<>> /\ failed = {}
    BY DEF Init
  <1>2. Due = {}
    BY <1>1, DueCarried
  <1>3. [i \in 1 .. Len(published) |-> published[i].n] = <<>>
    BY <1>1
  <1> QED BY <1>1, <1>2, <1>3 DEF Feed!Init

\* `outgoing` keeps the promise to the clients that read the queue: a dispatch event is due
\* until it is published or given up, once, and nothing else is published.
THEOREM DispatchKeepsFeed == Spec => KeepsFeed
  <1>1. DispatchInv /\ [Next]_vars => [Feed!Next]_(Feed!feed)
    BY FeedStep
  <1> QED BY <1>1, FeedInit, DispatchAlways, PTL DEF Spec, KeepsFeed, Feed!Spec
=============================================================================
