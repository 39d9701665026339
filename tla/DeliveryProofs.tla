-------------------------- MODULE DeliveryProofs ----------------------------
(***************************************************************************)
(* `incoming` keeps the promise of CommandPromise, for any number of       *)
(* processes, shards, commands and restarts; hence a command is handled at *)
(* most once unless a connection broke, and none is lost unless a process  *)
(* ends with it in hand.  A single process handles them in order.          *)
(***************************************************************************)
EXTENDS Delivery, TLAPS

\* The elements of a sequence, and that there is none twice.
El(s) == {s[i] : i \in 1 .. Len(s)}
Distinct(s) == \A i, j \in 1 .. Len(s) : s[i] = s[j] => i = j

\* A process has messages in hand only while it consumes, ...
Fresh ==
    \A p \in Processes :
        consumer[p] \in {"off", "ready", "returned"} => buffer[p] = <<>> /\ current[p] = None

\* ... none of them twice, ...
Once ==
    \A p \in Processes : Distinct(buffer[p]) /\ current[p] \notin Held(p)

\* ... and none that has not been published.
Published ==
    /\ queue \subseteq 1 .. submitted
    /\ \A p \in Processes : Held(p) \subseteq 1 .. submitted /\ current[p] \in 0 .. submitted

\* The broker has a message in one place, ...
OnePlace ==
    /\ \A p \in Processes : queue \cap Unacked(p) = {}
    /\ \A p, q \in Processes : p # q => Unacked(p) \cap Unacked(q) = {}

\* ... and not one that a process has acknowledged over an open connection.
Gone == \A p \in Processes : consumer[p] = "open" => current[p] \notin Queued

\* The inductive invariant.
DeliveryInv == TypeOK /\ Fresh /\ Once /\ Published /\ OnePlace /\ Gone
-----------------------------------------------------------------------------
(* Sequences. *)

\* The elements after Append.
LEMMA ElAppend ==
    ASSUME NEW S, NEW s \in Seq(S), NEW x \in S
    PROVE /\ Append(s, x) \in Seq(S)
          /\ El(Append(s, x)) = El(s) \cup {x}
          /\ Distinct(s) /\ x \notin El(s) => Distinct(Append(s, x))
  <1>1. /\ Append(s, x) \in Seq(S) /\ Len(Append(s, x)) = Len(s) + 1 /\ Len(s) \in Nat
        /\ \A i \in 1 .. Len(s) : Append(s, x)[i] = s[i]
        /\ Append(s, x)[Len(s) + 1] = x
    OBVIOUS
  <1>2. \A i \in 1 .. Len(s) + 1 : i = Len(s) + 1 \/ i \in 1 .. Len(s)
    BY <1>1
  <1>3. El(Append(s, x)) = El(s) \cup {x}
    BY <1>1, <1>2 DEF El
  <1>4. Distinct(s) /\ x \notin El(s) => Distinct(Append(s, x))
    BY <1>1, <1>2 DEF El, Distinct
  <1> QED BY <1>1, <1>3, <1>4

\* The elements after Tail.
LEMMA ElTail ==
    ASSUME NEW S, NEW s \in Seq(S), s # <<>>
    PROVE /\ Tail(s) \in Seq(S) /\ Head(s) \in S
          /\ El(s) = {Head(s)} \cup El(Tail(s))
          /\ Distinct(s) => Distinct(Tail(s)) /\ Head(s) \notin El(Tail(s))
  <1>1. /\ Tail(s) \in Seq(S) /\ Head(s) = s[1] /\ Len(s) \in Nat /\ Len(s) > 0
        /\ Len(Tail(s)) = Len(s) - 1 /\ Head(s) \in S
        /\ \A i \in 1 .. Len(s) - 1 : Tail(s)[i] = s[i + 1]
    OBVIOUS
  <1>2. El(s) = {Head(s)} \cup El(Tail(s))
    <2>1. ASSUME NEW i \in 1 .. Len(s) PROVE s[i] \in {Head(s)} \cup El(Tail(s))
      <3>1. CASE i = 1
        BY <3>1, <1>1
      <3>2. CASE i # 1
        <4>1. i - 1 \in 1 .. Len(Tail(s)) /\ s[i] = Tail(s)[i - 1]
          BY <3>2, <1>1
        <4> QED BY <4>1 DEF El
      <3> QED BY <3>1, <3>2
    <2>2. ASSUME NEW i \in 1 .. Len(Tail(s)) PROVE Tail(s)[i] \in El(s)
      <3>1. i + 1 \in 1 .. Len(s) /\ Tail(s)[i] = s[i + 1]
        BY <1>1
      <3> QED BY <3>1 DEF El
    <2>3. Head(s) \in El(s)
      BY <1>1 DEF El
    <2> QED BY <2>1, <2>2, <2>3 DEF El
  <1>3. Distinct(s) => Distinct(Tail(s)) /\ Head(s) \notin El(Tail(s))
    <2> SUFFICES ASSUME Distinct(s) PROVE Distinct(Tail(s)) /\ Head(s) \notin El(Tail(s))
      OBVIOUS
    <2>1. \A i \in 1 .. Len(s) - 1 : i + 1 \in 1 .. Len(s) /\ i + 1 # 1
      BY <1>1
    <2>2. Distinct(Tail(s))
      BY <1>1, <2>1 DEF Distinct
    <2>3. Head(s) \notin El(Tail(s))
      BY <1>1, <2>1 DEF Distinct, El
    <2> QED BY <2>2, <2>3
  <1> QED BY <1>1, <1>2, <1>3

\* An empty buffer holds nothing.
LEMMA ElEmpty == El(<<>>) = {} /\ Distinct(<<>>)
  BY DEF El, Distinct
-----------------------------------------------------------------------------
(* The state: types, and what each action does to what is held. *)

\* What is in the stream of a process, as the elements of its buffer.
LEMMA HeldIsEl == \A p \in Processes : Held(p) = El(buffer[p])
  BY DEF Held, El

\* What incoming does with a command is one of the outcomes.
LEMMA ResultType == ASSUME TypeOK, NEW p, NEW n \in Ids PROVE Result(p, commands[n]) \in Outcomes
  <1>1. commands[n].op \in {"Send", "Reconnect", "Malformed"}
    BY DeliveryAssumption DEF TypeOK, Command
  <1> QED BY <1>1 DEF Result, Outcomes

\* All constants and variables keep their types.
LEMMA TypeStep == ASSUME TypeOK, [Next]_vars PROVE TypeOK'
  <1> USE DeliveryAssumption
  <1>1. CASE Submit
    <2>1. submitted + 1 \in Ids /\ submitted' \in 0 .. MaxCommands
      BY <1>1 DEF Submit, TypeOK, Ids
    <2> QED BY <1>1, <2>1 DEF Submit, TypeOK
  <1>2. ASSUME NEW p \in Processes, Step(p) PROVE TypeOK'
    <2>1. CASE ProcessStart(p) \/ Consume(p) \/ ConsumeFails(p) \/ Return(p)
      <3>1. PICK c \in Consumers : consumer' = [consumer EXCEPT ![p] = c]
        BY <2>1 DEF ProcessStart, Consume, ConsumeFails, Return, Consumers
      <3>2. consumer' \in [Processes -> Consumers] /\ starts' \in Nat
        BY <2>1, <3>1 DEF ProcessStart, Consume, ConsumeFails, Return, TypeOK
      <3>3. UNCHANGED <<commands, submitted, queue, buffer, current, shard, times, outcome, again, cut>>
        BY <2>1 DEF ProcessStart, Consume, ConsumeFails, Return
      <3> QED BY <3>2, <3>3 DEF TypeOK
    <2>2. CASE Deliver(p)
      <3>1. PICK n \in queue : /\ queue' = queue \ {n}
                               /\ buffer' = [buffer EXCEPT ![p] = Append(@, n)]
        BY <2>2 DEF Deliver
      <3>2. n \in Ids /\ Append(buffer[p], n) \in Seq(Ids)
        BY <3>1 DEF TypeOK
      <3> QED BY <2>2, <3>1, <3>2 DEF Deliver, TypeOK
    <2>3. CASE Take(p)
      <3>1. Tail(buffer[p]) \in Seq(Ids) /\ Head(buffer[p]) \in Ids
        <4>1. buffer[p] \in Seq(Ids) /\ buffer[p] # <<>>
          BY <2>3 DEF Take, TypeOK
        <4> QED BY <4>1, ElTail
      <3> QED BY <2>3, <3>1 DEF Take, TypeOK
    <2>4. CASE Handle(p)
      <3> DEFINE n == current[p]
                 r == Result(p, commands[n])
      <3>1. n \in Ids /\ r \in Outcomes /\ commands[n].shard \in Shards /\ times[n] + 1 \in Nat
        <4>1. n \in Ids
          BY <2>4 DEF Handle, TypeOK
        <4>2. commands[n] \in Commands /\ times[n] \in Nat
          BY <4>1 DEF TypeOK
        <4>3. commands[n].shard \in Shards
          BY <4>2 DEF Command
        <4>4. r \in Outcomes
          BY <4>1, ResultType
        <4> QED BY <4>1, <4>2, <4>3, <4>4
      <3>2. /\ outcome' = [outcome EXCEPT ![n] = @ \cup {r}]
            /\ times' = [times EXCEPT ![n] = @ + 1]
            /\ shard' = IF r = "shut" THEN [shard EXCEPT ![commands[n].shard] = "shut"] ELSE shard
            /\ current' = [current EXCEPT ![p] = None]
            /\ UNCHANGED <<commands, submitted, queue, consumer, buffer, starts, again, cut>>
        BY <2>4 DEF Handle
      <3> HIDE DEF n, r
      <3>3. outcome' \in [Ids -> SUBSET Outcomes] /\ times' \in [Ids -> Nat]
        BY <3>1, <3>2 DEF TypeOK
      <3>4. shard' \in [Shards -> {"down", "up", "shut"}]
        BY <3>1, <3>2 DEF TypeOK
      <3>5. current' \in [Processes -> Ids \cup {None}]
        BY <3>2 DEF TypeOK
      <3> QED BY <3>2, <3>3, <3>4, <3>5 DEF TypeOK
    <2>5. CASE Break(p)
      <3>1. Held(p) \subseteq Ids
        BY DEF Held, TypeOK
      <3> QED BY <2>5, <3>1 DEF Break, TypeOK, Consumers
    <2>6. CASE ProcessEnd(p)
      <3>1. Unacked(p) \subseteq Ids /\ <<>> \in Seq(Ids) /\ {current[p]} \ {None} \subseteq Ids
        BY DEF Unacked, Held, TypeOK
      <3> QED BY <2>6, <3>1 DEF ProcessEnd, TypeOK, Consumers
    <2> QED BY <1>2, <2>1, <2>2, <2>3, <2>4, <2>5, <2>6 DEF Step
  <1>3. ASSUME NEW s \in Shards, Connect(s) \/ Disconnect(s) PROVE TypeOK'
    BY <1>3 DEF Connect, Disconnect, TypeOK
  <1>4. CASE UNCHANGED vars
    BY <1>4 DEF vars, TypeOK
  <1> QED BY <1>1, <1>2, <1>3, <1>4 DEF Next

\* All that a process which does nothing holds, and answers for, stays.
LEMMA Frame ==
    ASSUME NEW q \in Processes,
           buffer'[q] = buffer[q], consumer'[q] = consumer[q], current'[q] = current[q]
    PROVE Held(q)' = Held(q) /\ Unacked(q)' = Unacked(q) /\ Owed(q)' = Owed(q)
  <1>1. Held(q)' = Held(q)
    BY DEF Held
  <1>2. Unacked(q)' = Unacked(q)
    BY <1>1 DEF Unacked
  <1> QED BY <1>1, <1>2 DEF Owed

\* Every message in a stream is a command; None is not.
LEMMA HeldIds == ASSUME TypeOK PROVE Queued \subseteq Ids /\ None \notin Ids
                                     /\ \A p \in Processes : Held(p) \subseteq Ids /\ Owed(p) \subseteq Ids
  <1>1. None \notin Ids
    BY DeliveryAssumption DEF Ids, None
  <1>2. \A p \in Processes : Held(p) \subseteq Ids
    BY DEF TypeOK, Held
  <1>3. \A p \in Processes : Owed(p) \subseteq Ids
    BY <1>2 DEF TypeOK, Owed
  <1>4. Queued \subseteq Ids
    BY <1>2 DEF TypeOK, Queued, Unacked
  <1> QED BY <1>1, <1>2, <1>3, <1>4

\* What the other processes hold when p takes a step: nothing changes.
Others(p) ==
    \A q \in Processes \ {p} :
        /\ Held(q)' = Held(q) /\ Unacked(q)' = Unacked(q) /\ Owed(q)' = Owed(q)
        /\ current'[q] = current[q] /\ consumer'[q] = consumer[q] /\ buffer'[q] = buffer[q]

\* A step of a process leaves the others alone.
LEMMA OthersStep == ASSUME TypeOK, NEW p \in Processes, Step(p) PROVE Others(p)
  <1>1. ASSUME NEW q \in Processes \ {p}
        PROVE buffer'[q] = buffer[q] /\ consumer'[q] = consumer[q] /\ current'[q] = current[q]
    <2>1. CASE ProcessStart(p) \/ Consume(p) \/ ConsumeFails(p) \/ Return(p)
      BY <1>1, <2>1 DEF ProcessStart, Consume, ConsumeFails, Return, TypeOK
    <2>2. CASE Deliver(p)
      BY <1>1, <2>2 DEF Deliver, TypeOK
    <2>3. CASE Take(p) \/ Break(p)
      BY <1>1, <2>3 DEF Take, Break, TypeOK
    <2>4. CASE Handle(p)
      BY <1>1, <2>4 DEF Handle, TypeOK
    <2>5. CASE ProcessEnd(p)
      BY <1>1, <2>5 DEF ProcessEnd, TypeOK
    <2> QED BY <2>1, <2>2, <2>3, <2>4, <2>5 DEF Step
  <1> QED BY <1>1, Frame DEF Others

\* A process that starts, subscribes or returns has nothing in hand.
LEMMA ConsumerEffect ==
    ASSUME DeliveryInv, NEW p \in Processes,
           ProcessStart(p) \/ Consume(p) \/ ConsumeFails(p) \/ Return(p)
    PROVE /\ buffer[p] = <<>> /\ current[p] = None
          /\ Held(p)' = {} /\ Unacked(p)' = {} /\ Owed(p)' = {}
          /\ Held(p) = {} /\ Unacked(p) = {} /\ Owed(p) = {}
          /\ UNCHANGED <<queue, buffer, current, submitted, times, again, cut>>
          /\ Queued' = Queued
  <1>1. /\ buffer[p] = <<>> /\ current[p] = None
        /\ UNCHANGED <<queue, buffer, current, submitted, times, again, cut>>
    BY DEF DeliveryInv, Fresh, ProcessStart, Consume, ConsumeFails, Return
  <1>2. Held(p) = {} /\ Held(p)' = {}
    BY <1>1 DEF Held
  <1>3. Unacked(p) = {} /\ Unacked(p)' = {} /\ Owed(p) = {} /\ Owed(p)' = {}
    BY <1>1, <1>2 DEF Unacked, Owed
  <1>4. \A q \in Processes : Unacked(q)' = Unacked(q)
    BY <1>3, OthersStep DEF Others, DeliveryInv, Step
  <1>5. Queued' = Queued
    BY <1>1, <1>4 DEF Queued
  <1> QED BY <1>1, <1>2, <1>3, <1>5

\* The broker answers for a message that it has pushed as it did before.
LEMMA DeliverEffect ==
    ASSUME DeliveryInv, NEW p \in Processes, Deliver(p)
    PROVE \E n \in queue :
          /\ queue' = queue \ {n} /\ consumer[p] = "open"
          /\ Held(p)' = Held(p) \cup {n} /\ Distinct(buffer[p])' /\ current[p] # n
          /\ Unacked(p)' = Held(p)' /\ Owed(p)' = Owed(p)
          /\ UNCHANGED <<consumer, current, submitted, times, again, cut>>
          /\ Queued' = Queued
  <1>1. PICK n \in queue : /\ queue' = queue \ {n}
                           /\ buffer' = [buffer EXCEPT ![p] = Append(@, n)]
    BY DEF Deliver
  <1>2. consumer[p] = "open" /\ UNCHANGED <<consumer, current, submitted, times, again, cut>>
    BY DEF Deliver
  <1>3. n \in Ids /\ buffer[p] \in Seq(Ids) /\ buffer'[p] = Append(buffer[p], n)
    BY <1>1 DEF DeliveryInv, TypeOK
  <1>4. Unacked(p) = Held(p) /\ n \notin Held(p) /\ current[p] # n
    BY <1>2 DEF DeliveryInv, OnePlace, Gone, Unacked, Queued
  <1>5. Held(p)' = Held(p) \cup {n} /\ Distinct(buffer[p])'
    <2>1. Distinct(buffer[p]) /\ n \notin El(buffer[p])
      BY <1>4, HeldIsEl DEF DeliveryInv, Once
    <2>2. El(Append(buffer[p], n)) = El(buffer[p]) \cup {n} /\ Distinct(Append(buffer[p], n))
      BY <1>3, <2>1, ElAppend
    <2>3. Held(p) = El(buffer[p]) /\ Held(p)' = El(buffer'[p])
      BY DEF Held, El
    <2> QED BY <1>3, <2>2, <2>3 DEF Distinct
  <1>6. Unacked(p)' = Held(p)'
    BY <1>2 DEF Unacked
  <1>7. Owed(p)' = Owed(p)
    BY <1>2, <1>4, <1>6 DEF Owed
  <1>8. Queued' = Queued
    <2>1. \A q \in Processes : q # p => Unacked(q)' = Unacked(q)
      BY OthersStep DEF Others, DeliveryInv, Step
    <2> QED BY <1>1, <1>4, <1>5, <1>6, <2>1 DEF Queued
  <1> QED BY <1>1, <1>2, <1>4, <1>5, <1>6, <1>7, <1>8

\* An acknowledgement hands a message over from the broker to the process; over a broken
\* connection, it changes nothing.
LEMMA TakeEffect ==
    ASSUME DeliveryInv, NEW p \in Processes, Take(p)
    PROVE \E h \in Held(p) :
          /\ current'[p] = h /\ h \in Ids /\ current[p] = None
          /\ Held(p)' = Held(p) \ {h} /\ Distinct(buffer[p])'
          /\ UNCHANGED <<consumer, queue, submitted, times, again, cut>>
          /\ consumer[p] = "open" => /\ h \in Queued /\ Queued' = Queued \ {h}
                                     /\ Owed(p)' = Owed(p) \cup {h}
                                     /\ Unacked(p) = Held(p) /\ Unacked(p)' = Held(p)'
          /\ consumer[p] # "open" => /\ Queued' = Queued /\ Owed(p)' = Owed(p)
                                     /\ Unacked(p)' = {} /\ Unacked(p) = {}
  <1> DEFINE h == Head(buffer[p])
  <1>1. /\ buffer[p] # <<>> /\ current[p] = None /\ current'[p] = h
        /\ buffer'[p] = Tail(buffer[p]) /\ UNCHANGED <<consumer, queue, submitted, times, again, cut>>
    BY DEF Take, DeliveryInv, TypeOK
  <1>2. buffer[p] \in Seq(Ids)
    BY DEF DeliveryInv, TypeOK
  <1>3. /\ h \in Ids /\ El(buffer[p]) = {h} \cup El(Tail(buffer[p]))
        /\ Distinct(Tail(buffer[p])) /\ h \notin El(Tail(buffer[p]))
    BY <1>1, <1>2, ElTail DEF DeliveryInv, Once
  <1>4. Held(p) = El(buffer[p]) /\ Held(p)' = El(Tail(buffer[p]))
    BY <1>1 DEF Held, El
  <1>5. h \in Held(p) /\ Held(p)' = Held(p) \ {h} /\ Distinct(buffer[p])'
    BY <1>1, <1>3, <1>4 DEF Distinct
  <1>6. \A q \in Processes : q # p => Unacked(q)' = Unacked(q)
    BY OthersStep DEF Others, DeliveryInv, Step
  <1> HIDE DEF h
  <1>7. None \notin Held(p) /\ h # None
    BY <1>3, HeldIds DEF DeliveryInv
  <1>8. CASE consumer[p] = "open"
    <2>1. Unacked(p) = Held(p) /\ Unacked(p)' = Held(p)'
      BY <1>1, <1>8 DEF Unacked
    <2>2. h \in Queued /\ h \notin queue /\ \A q \in Processes : q # p => h \notin Unacked(q)
      BY <1>5, <2>1 DEF Queued, DeliveryInv, OnePlace
    <2>3. Queued' = Queued \ {h}
      BY <1>1, <1>5, <1>6, <2>1, <2>2 DEF Queued
    <2>4. Owed(p)' = Owed(p) \cup {h}
      BY <1>1, <1>7, <2>1 DEF Owed
    <2> QED BY <1>1, <1>3, <1>5, <1>8, <2>1, <2>2, <2>3, <2>4
  <1>9. CASE consumer[p] # "open"
    <2>1. Unacked(p)' = {} /\ Unacked(p) = {}
      BY <1>1, <1>9 DEF Unacked
    <2>2. Queued' = Queued
      BY <1>1, <1>6, <2>1 DEF Queued
    <2>3. Owed(p)' = Owed(p)
      BY <1>1, <1>5, <1>7, <2>1 DEF Owed
    <2> QED BY <1>1, <1>3, <1>5, <1>9, <2>1, <2>2, <2>3
  <1> QED BY <1>8, <1>9

\* Handling a command ends what the process answers for.
LEMMA HandleEffect ==
    ASSUME DeliveryInv, NEW p \in Processes, Handle(p)
    PROVE /\ current[p] \in Ids /\ current[p] \in Owed(p) /\ current'[p] = None
          /\ times' = [times EXCEPT ![current[p]] = @ + 1]
          /\ Held(p)' = Held(p) /\ Unacked(p)' = Unacked(p)
          /\ Owed(p)' = Owed(p) \ {current[p]}
          /\ UNCHANGED <<consumer, queue, buffer, submitted, again, cut>>
          /\ Queued' = Queued
  <1>1. /\ current[p] \in Ids /\ current[p] # None /\ current'[p] = None
        /\ times' = [times EXCEPT ![current[p]] = @ + 1]
        /\ UNCHANGED <<consumer, queue, buffer, submitted, again, cut>>
    BY DEF Handle, DeliveryInv, TypeOK
  <1>2. Held(p)' = Held(p)
    BY <1>1 DEF Held
  <1>3. Unacked(p)' = Unacked(p)
    BY <1>1, <1>2 DEF Unacked
  <1>4. current[p] \in Owed(p) /\ Owed(p)' = Owed(p) \ {current[p]}
    BY <1>1, <1>2, <1>3 DEF Owed, DeliveryInv, Once
  <1>5. \A q \in Processes : Unacked(q)' = Unacked(q)
    BY <1>3, OthersStep DEF Others, DeliveryInv, Step
  <1> QED BY <1>1, <1>2, <1>3, <1>4, <1>5 DEF Queued

\* When a connection breaks, both answer for what was unacknowledged.
LEMMA BreakEffect ==
    ASSUME DeliveryInv, NEW p \in Processes, Break(p)
    PROVE /\ consumer[p] = "open" /\ consumer'[p] = "broken" /\ Unacked(p) = Held(p)
          /\ Held(p)' = Held(p) /\ Unacked(p)' = {} /\ Held(p) \subseteq Queued
          /\ Owed(p)' = Owed(p) \cup Held(p)
          /\ queue' = queue \cup Held(p) /\ again' = again \cup Held(p)
          /\ UNCHANGED <<buffer, current, submitted, times, cut>>
          /\ Queued' = Queued
  <1>1. /\ consumer[p] = "open" /\ consumer'[p] = "broken"
        /\ queue' = queue \cup Held(p) /\ again' = again \cup Held(p)
        /\ UNCHANGED <<buffer, current, submitted, times, cut>>
    BY DEF Break, DeliveryInv, TypeOK
  <1>2. Held(p)' = Held(p)
    BY <1>1 DEF Held
  <1>3. Unacked(p) = Held(p) /\ Unacked(p)' = {}
    BY <1>1 DEF Unacked
  <1>4. Owed(p)' = Owed(p) \cup Held(p)
    BY <1>1, <1>2, <1>3 DEF Owed
  <1>5. \A q \in Processes : q # p => Unacked(q)' = Unacked(q)
    BY OthersStep DEF Others, DeliveryInv, Step
  <1>6. Queued' = Queued /\ Held(p) \subseteq Queued
    BY <1>1, <1>3, <1>5 DEF Queued
  <1> QED BY <1>1, <1>2, <1>3, <1>4, <1>6

\* A process that ends forgets what it answers for, and the broker answers for the rest.
LEMMA EndEffect ==
    ASSUME DeliveryInv, NEW p \in Processes, ProcessEnd(p)
    PROVE /\ consumer'[p] = "off" /\ buffer'[p] = <<>> /\ current'[p] = None
          /\ Held(p)' = {} /\ Unacked(p)' = {} /\ Owed(p)' = {}
          /\ queue' = queue \cup Unacked(p) /\ cut' = cut \cup ({current[p]} \ {None})
          /\ UNCHANGED <<submitted, times, again>>
          /\ Queued' = Queued
  <1>1. /\ consumer'[p] = "off" /\ buffer'[p] = <<>> /\ current'[p] = None
        /\ queue' = queue \cup Unacked(p) /\ cut' = cut \cup ({current[p]} \ {None})
        /\ UNCHANGED <<submitted, times, again>>
    BY DEF ProcessEnd, DeliveryInv, TypeOK
  <1>2. Held(p)' = {}
    BY <1>1 DEF Held
  <1>3. Unacked(p)' = {} /\ Owed(p)' = {}
    BY <1>1, <1>2 DEF Unacked, Owed
  <1>4. \A q \in Processes : q # p => Unacked(q)' = Unacked(q)
    BY OthersStep DEF Others, DeliveryInv, Step
  <1>5. Queued' = Queued
    BY <1>1, <1>3, <1>4 DEF Queued
  <1> QED BY <1>1, <1>2, <1>3, <1>5

\* A command that is published is new to everyone.
LEMMA SubmitEffect ==
    ASSUME DeliveryInv, Submit
    PROVE /\ submitted' = submitted + 1 /\ submitted + 1 \in Ids
          /\ queue' = queue \cup {submitted + 1} /\ Queued' = Queued \cup {submitted + 1}
          /\ UNCHANGED <<consumer, buffer, current, times, again, cut>>
          /\ \A p \in Processes : /\ Held(p)' = Held(p) /\ Unacked(p)' = Unacked(p)
                                  /\ Owed(p)' = Owed(p)
  <1>1. /\ submitted' = submitted + 1 /\ submitted + 1 \in Ids
        /\ queue' = queue \cup {submitted + 1}
        /\ UNCHANGED <<consumer, buffer, current, times, again, cut>>
    BY DeliveryAssumption DEF Submit, DeliveryInv, TypeOK, Ids
  <1>2. \A p \in Processes : Held(p)' = Held(p) /\ Unacked(p)' = Unacked(p) /\ Owed(p)' = Owed(p)
    BY <1>1, Frame
  <1> QED BY <1>1, <1>2 DEF Queued

\* A shard that comes or goes moves no message.
LEMMA ShardEffect ==
    ASSUME UNCHANGED vars \/ \E s \in Shards : Connect(s) \/ Disconnect(s)
    PROVE /\ UNCHANGED <<queue, consumer, buffer, current, submitted, times, again, cut>>
          /\ Queued' = Queued
          /\ \A p \in Processes : /\ Held(p)' = Held(p) /\ Unacked(p)' = Unacked(p)
                                  /\ Owed(p)' = Owed(p)
  <1>1. UNCHANGED <<queue, consumer, buffer, current, submitted, times, again, cut>>
    BY DEF vars, Connect, Disconnect
  <1>2. \A p \in Processes : Held(p)' = Held(p) /\ Unacked(p)' = Unacked(p) /\ Owed(p)' = Owed(p)
    BY <1>1, Frame
  <1> QED BY <1>1, <1>2 DEF Queued
-----------------------------------------------------------------------------
(* The inductive invariant. *)

\* The invariant holds at the start.
LEMMA DeliveryInit == Init => DeliveryInv
  <1> SUFFICES ASSUME Init PROVE DeliveryInv
    OBVIOUS
  <1>1. \A p \in Processes : Held(p) = {} /\ Unacked(p) = {}
    <2>1. \A p \in Processes : buffer[p] = <<>>
      BY DEF Init
    <2>2. \A p \in Processes : Held(p) = {}
      BY <2>1, HeldIsEl, ElEmpty
    <2> QED BY <2>2 DEF Unacked
  <1>2. TypeOK
    BY DeliveryAssumption DEF Init, TypeOK, Consumers
  <1>3. Fresh /\ Published /\ OnePlace /\ Gone
    BY <1>1 DEF Init, Fresh, Published, OnePlace, Gone, None
  <1>4. Once
    BY <1>1, ElEmpty DEF Init, Once
  <1> QED BY <1>2, <1>3, <1>4 DEF DeliveryInv

\* Fresh is kept by every step.
LEMMA FreshStep == ASSUME DeliveryInv, [Next]_vars PROVE Fresh'
  <1>1. CASE Submit \/ UNCHANGED vars \/ \E s \in Shards : Connect(s) \/ Disconnect(s)
    BY <1>1, SubmitEffect, ShardEffect DEF Fresh, DeliveryInv
  <1>2. ASSUME NEW p \in Processes, Step(p) PROVE Fresh'
    <2>1. Others(p)
      BY <1>2, OthersStep DEF DeliveryInv
    <2>2. consumer'[p] \in {"off", "ready", "returned"} => buffer'[p] = <<>> /\ current'[p] = None
      <3>1. CASE ProcessStart(p) \/ Consume(p) \/ ConsumeFails(p) \/ Return(p)
        BY <3>1, ConsumerEffect
      <3>2. CASE Deliver(p)
        BY <3>2 DEF Deliver
      <3>3. CASE Take(p)
        BY <3>3 DEF Take, DeliveryInv, Fresh
      <3>4. CASE Handle(p)
        BY <3>4, HandleEffect DEF DeliveryInv, Fresh
      <3>5. CASE Break(p)
        BY <3>5, BreakEffect
      <3>6. CASE ProcessEnd(p)
        BY <3>6, EndEffect
      <3> QED BY <1>2, <3>1, <3>2, <3>3, <3>4, <3>5, <3>6 DEF Step
    <2> QED BY <2>1, <2>2 DEF Fresh, Others, DeliveryInv
  <1> QED BY <1>1, <1>2 DEF Next

\* Once is kept: what is pushed was ready, hence not in a stream of an open connection.
LEMMA OnceStep == ASSUME DeliveryInv, [Next]_vars PROVE Once'
  <1>1. CASE Submit \/ UNCHANGED vars \/ \E s \in Shards : Connect(s) \/ Disconnect(s)
    <2>1. buffer' = buffer /\ current' = current /\ \A p \in Processes : Held(p)' = Held(p)
      BY <1>1, SubmitEffect, ShardEffect
    <2> QED BY <2>1 DEF Once, DeliveryInv
  <1>2. ASSUME NEW p \in Processes, Step(p) PROVE Once'
    <2>1. Others(p)
      BY <1>2, OthersStep DEF DeliveryInv
    <2>2. Distinct(buffer'[p]) /\ current'[p] \notin Held(p)'
      <3>1. CASE ProcessStart(p) \/ Consume(p) \/ ConsumeFails(p) \/ Return(p)
        BY <3>1, ConsumerEffect, ElEmpty
      <3>2. CASE Deliver(p)
        BY <3>2, DeliverEffect DEF DeliveryInv, Once, Distinct
      <3>3. CASE Take(p)
        BY <3>3, TakeEffect DEF Distinct
      <3>4. CASE Handle(p)
        BY <3>4, HandleEffect, HeldIds DEF DeliveryInv, Once
      <3>5. CASE Break(p)
        BY <3>5, BreakEffect DEF DeliveryInv, Once
      <3>6. CASE ProcessEnd(p)
        BY <3>6, EndEffect, ElEmpty
      <3> QED BY <1>2, <3>1, <3>2, <3>3, <3>4, <3>5, <3>6 DEF Step
    <2> QED BY <2>1, <2>2 DEF Once, Others, DeliveryInv
  <1> QED BY <1>1, <1>2 DEF Next

\* Published is kept by every step.
LEMMA PublishedStep == ASSUME DeliveryInv, [Next]_vars PROVE Published'
  <1>1. CASE Submit
    <2>1. 1 .. submitted \subseteq 1 .. submitted' /\ 0 .. submitted \subseteq 0 .. submitted'
          /\ submitted + 1 \in 1 .. submitted'
      BY <1>1, SubmitEffect DEF DeliveryInv, TypeOK
    <2> QED BY <1>1, <2>1, SubmitEffect DEF Published, DeliveryInv
  <1>2. CASE UNCHANGED vars \/ \E s \in Shards : Connect(s) \/ Disconnect(s)
    BY <1>2, ShardEffect DEF Published, DeliveryInv
  <1>3. ASSUME NEW p \in Processes, Step(p) PROVE Published'
    <2>1. Others(p)
      BY <1>3, OthersStep DEF DeliveryInv
    <2>2. submitted \in Nat /\ None \in 0 .. submitted /\ 1 .. submitted \subseteq 0 .. submitted
      BY DEF DeliveryInv, TypeOK, None
    <2>3. Unacked(p) \subseteq Held(p) /\ Held(p) \subseteq 1 .. submitted
          /\ current[p] \in 0 .. submitted /\ queue \subseteq 1 .. submitted
      BY DEF Unacked, DeliveryInv, Published
    <2>4. /\ submitted' = submitted /\ queue' \subseteq 1 .. submitted
          /\ Held(p)' \subseteq 1 .. submitted /\ current'[p] \in 0 .. submitted
      <3>1. CASE ProcessStart(p) \/ Consume(p) \/ ConsumeFails(p) \/ Return(p)
        BY <2>2, <2>3, <3>1, ConsumerEffect
      <3>2. CASE Deliver(p)
        BY <2>2, <2>3, <3>2, DeliverEffect
      <3>3. CASE Take(p)
        BY <2>2, <2>3, <3>3, TakeEffect
      <3>4. CASE Handle(p)
        BY <2>2, <2>3, <3>4, HandleEffect
      <3>5. CASE Break(p)
        BY <2>2, <2>3, <3>5, BreakEffect
      <3>6. CASE ProcessEnd(p)
        BY <2>2, <2>3, <3>6, EndEffect
      <3> QED BY <1>3, <3>1, <3>2, <3>3, <3>4, <3>5, <3>6 DEF Step
    <2> QED BY <2>1, <2>4 DEF Published, Others, DeliveryInv
  <1> QED BY <1>1, <1>2, <1>3 DEF Next

\* OnePlace is kept: a message moves from the queue to one stream, or back.
LEMMA OnePlaceStep == ASSUME DeliveryInv, [Next]_vars PROVE OnePlace'
  <1>0. OnePlace /\ Published /\ \A q \in Processes : Unacked(q) \subseteq Held(q)
    BY DEF DeliveryInv, Unacked
  <1>1. CASE Submit
    <2>1. submitted + 1 \notin 1 .. submitted
      BY DEF DeliveryInv, TypeOK
    <2>2. \A q \in Processes : submitted + 1 \notin Unacked(q)
      BY <1>0, <2>1 DEF Published
    <2> QED BY <1>0, <1>1, <2>2, SubmitEffect DEF OnePlace
  <1>2. CASE UNCHANGED vars \/ \E s \in Shards : Connect(s) \/ Disconnect(s)
    BY <1>0, <1>2, ShardEffect DEF OnePlace
  <1>3. ASSUME NEW p \in Processes, Step(p) PROVE OnePlace'
    <2>1. Others(p)
      BY <1>3, OthersStep DEF DeliveryInv
    <2>2. \A q \in Processes : q # p => Unacked(q)' = Unacked(q)
      BY <2>1 DEF Others
    <2>3. CASE ProcessStart(p) \/ Consume(p) \/ ConsumeFails(p) \/ Return(p)
      BY <1>0, <2>2, <2>3, ConsumerEffect DEF OnePlace
    <2>4. CASE Deliver(p)
      <3>1. PICK n \in queue : queue' = queue \ {n} /\ Unacked(p)' = Unacked(p) \cup {n}
        BY <2>4, DeliverEffect DEF Unacked
      <3> QED BY <1>0, <2>2, <3>1 DEF OnePlace
    <2>5. CASE Take(p)
      <3>1. queue' = queue /\ Unacked(p)' \subseteq Unacked(p)
        BY <2>5, TakeEffect
      <3> QED BY <1>0, <2>2, <3>1 DEF OnePlace
    <2>6. CASE Handle(p)
      BY <1>0, <2>2, <2>6, HandleEffect DEF OnePlace
    <2>7. CASE Break(p)
      <3>1. queue' = queue \cup Unacked(p) /\ Unacked(p)' = {}
        BY <2>7, BreakEffect
      <3> QED BY <1>0, <2>2, <3>1 DEF OnePlace
    <2>8. CASE ProcessEnd(p)
      BY <1>0, <2>2, <2>8, EndEffect DEF OnePlace
    <2> QED BY <1>3, <2>3, <2>4, <2>5, <2>6, <2>7, <2>8 DEF Step
  <1> QED BY <1>1, <1>2, <1>3 DEF Next

\* Gone is kept: the broker forgets what is acknowledged over an open connection.
LEMMA GoneStep == ASSUME DeliveryInv, [Next]_vars PROVE Gone'
  <1>0. Gone /\ None \notin Queued
    BY HeldIds DEF DeliveryInv
  <1>1. CASE Submit
    <2>1. \A q \in Processes : current[q] # submitted + 1
      BY DEF DeliveryInv, Published, TypeOK
    <2> QED BY <1>0, <1>1, <2>1, SubmitEffect DEF Gone
  <1>2. CASE UNCHANGED vars \/ \E s \in Shards : Connect(s) \/ Disconnect(s)
    BY <1>0, <1>2, ShardEffect DEF Gone
  <1>3. ASSUME NEW p \in Processes, Step(p) PROVE Gone'
    <2>1. Others(p)
      BY <1>3, OthersStep DEF DeliveryInv
    <2>2. Queued' \subseteq Queued /\ (consumer'[p] = "open" => current'[p] \notin Queued')
      <3>1. CASE ProcessStart(p) \/ Consume(p) \/ ConsumeFails(p) \/ Return(p)
        BY <1>0, <3>1, ConsumerEffect
      <3>2. CASE Deliver(p)
        BY <1>0, <3>2, DeliverEffect DEF Gone
      <3>3. CASE Take(p)
        BY <3>3, TakeEffect
      <3>4. CASE Handle(p)
        BY <1>0, <3>4, HandleEffect
      <3>5. CASE Break(p)
        BY <3>5, BreakEffect
      <3>6. CASE ProcessEnd(p)
        BY <1>0, <3>6, EndEffect
      <3> QED BY <1>3, <3>1, <3>2, <3>3, <3>4, <3>5, <3>6 DEF Step
    <2> QED BY <1>0, <2>1, <2>2 DEF Gone, Others
  <1> QED BY <1>1, <1>2, <1>3 DEF Next

\* The invariant holds in every state.
LEMMA DeliveryAlways == Spec => []DeliveryInv
  <1>1. DeliveryInv /\ [Next]_vars => DeliveryInv'
    BY TypeStep, FreshStep, OnceStep, PublishedStep, OnePlaceStep, GoneStep DEF DeliveryInv
  <1> QED BY <1>1, DeliveryInit, PTL DEF Spec

\* Commands, messages and shards keep their types in `incoming`.
THEOREM DeliveryTypes == Spec => []TypeOK
  <1>1. DeliveryInv => TypeOK
    BY DEF DeliveryInv
  <1> QED BY <1>1, DeliveryAlways, PTL
-----------------------------------------------------------------------------
(* The promise. *)

\* What the processes answer for, as a function: `owed` of CommandPromise.
OwedAll == [p \in Processes |-> Owed(p)]

\* In terms of the promise, a step is one of Submit, Acknowledge, GiveBack, Handle and
\* Forget, or no step.
LEMMA PromiseStep ==
    ASSUME DeliveryInv, [Next]_vars
    PROVE [Promise!Next]_(Promise!promise)
  <1>1. CASE Submit
    <2>1. OwedAll' = OwedAll
      BY <1>1, SubmitEffect DEF OwedAll
    <2>2. Promise!Submit
      BY <1>1, <2>1, SubmitEffect DEF Promise!Submit, OwedAll
    <2> QED BY <2>2 DEF Promise!Next
  <1>2. CASE UNCHANGED vars \/ \E s \in Shards : Connect(s) \/ Disconnect(s)
    BY <1>2, ShardEffect DEF Promise!promise
  <1>3. ASSUME NEW p \in Processes, Step(p) PROVE [Promise!Next]_(Promise!promise)
    <2>0. \A q \in Processes : q # p => Owed(q)' = Owed(q)
      BY <1>3, OthersStep DEF DeliveryInv, Others
    <2>1. CASE ProcessStart(p) \/ Consume(p) \/ ConsumeFails(p) \/ Return(p)
      <3>1. \A q \in Processes : Owed(q)' = Owed(q)
        BY <2>0, <2>1, ConsumerEffect
      <3> QED BY <2>1, <3>1, ConsumerEffect DEF Promise!promise
    <2>2. CASE Deliver(p)
      <3>1. \A q \in Processes : Owed(q)' = Owed(q)
        BY <2>0, <2>2, DeliverEffect
      <3> QED BY <2>2, <3>1, DeliverEffect DEF Promise!promise
    <2>3. CASE Take(p)
      <3>1. PICK h \in Ids :
              /\ UNCHANGED <<submitted, times, again>>
              /\ consumer[p] = "open" => /\ h \in Queued /\ Queued' = Queued \ {h}
                                         /\ Owed(p)' = Owed(p) \cup {h}
              /\ consumer[p] # "open" => Queued' = Queued /\ Owed(p)' = Owed(p)
        BY <2>3, TakeEffect
      <3>2. CASE consumer[p] = "open"
        <4>1. OwedAll' = [OwedAll EXCEPT ![p] = @ \cup {h}]
          BY <2>0, <3>1, <3>2 DEF OwedAll
        <4>2. Promise!Acknowledge(p, h)
          BY <3>1, <3>2, <4>1 DEF Promise!Acknowledge, OwedAll
        <4> QED BY <4>2 DEF Promise!Next
      <3>3. CASE consumer[p] # "open"
        <4>1. \A q \in Processes : Owed(q)' = Owed(q)
          BY <2>0, <3>1, <3>3
        <4> QED BY <3>1, <3>3, <4>1 DEF Promise!promise
      <3> QED BY <3>2, <3>3
    <2>4. CASE Handle(p)
      <3>1. OwedAll' = [OwedAll EXCEPT ![p] = @ \ {current[p]}] /\ current[p] \in OwedAll[p]
        BY <2>0, <2>4, HandleEffect DEF OwedAll
      <3>2. Promise!Handle(p, current[p]) /\ current[p] \in Ids
        BY <2>4, <3>1, HandleEffect DEF Promise!Handle, OwedAll
      <3> QED BY <3>2 DEF Promise!Next
    <2>5. CASE Break(p)
      <3>1. OwedAll' = [OwedAll EXCEPT ![p] = @ \cup Held(p)]
        BY <2>0, <2>5, BreakEffect DEF OwedAll
      <3>2. Promise!GiveBack(p, Held(p)) /\ Held(p) \in SUBSET Queued
        BY <2>5, <3>1, BreakEffect DEF Promise!GiveBack, OwedAll
      <3> QED BY <3>2 DEF Promise!Next
    <2>6. CASE ProcessEnd(p)
      <3>1. OwedAll' = [OwedAll EXCEPT ![p] = {}]
        BY <2>0, <2>6, EndEffect DEF OwedAll
      <3>2. Promise!Forget(p)
        BY <2>6, <3>1, EndEffect DEF Promise!Forget, OwedAll
      <3> QED BY <3>2 DEF Promise!Next
    <2> QED BY <1>3, <2>1, <2>2, <2>3, <2>4, <2>5, <2>6 DEF Step
  <1> QED BY <1>1, <1>2, <1>3 DEF Next

\* Initially nobody answers for anything.
LEMMA PromiseInit == Init => Promise!Init
  <1> SUFFICES ASSUME Init PROVE Promise!Init
    OBVIOUS
  <1>1. \A p \in Processes : buffer[p] = <<>> /\ current[p] = None
    BY DEF Init
  <1>2. \A p \in Processes : Held(p) = {}
    BY <1>1, HeldIsEl, ElEmpty
  <1>3. Queued = {} /\ \A p \in Processes : Owed(p) = {}
    BY <1>1, <1>2 DEF Init, Queued, Unacked, Owed
  <1> QED BY <1>3 DEF Init, Promise!Init

\* `incoming` keeps the promise to the clients of gateway.send.
THEOREM DeliveryKeepsPromise == Spec => KeepsPromise
  <1>1. DeliveryInv /\ [Next]_vars => [Promise!Next]_(Promise!promise)
    BY PromiseStep
  <1> QED BY <1>1, PromiseInit, DeliveryAlways, PTL DEF Spec, KeepsPromise, Promise!Spec
-----------------------------------------------------------------------------
(* What follows from it. *)

\* Every command the broker answers for has not been handled, nor is anyone about to;
\* and at most one process answers for a command, unless a connection gave it back.
Single ==
    /\ \A n \in Ids : n > submitted => times[n] = 0 /\ n \notin Queued
                                       /\ \A p \in Processes : n \notin OwedAll[p]
    /\ \A n \in Ids \ again :
          /\ times[n] <= 1
          /\ n \in Queued => times[n] = 0 /\ \A p \in Processes : n \notin OwedAll[p]
          /\ \A p \in Processes :
                n \in OwedAll[p] => times[n] = 0 /\ \A q \in Processes \ {p} : n \notin OwedAll[q]

\* Every step of the promise keeps Single.
LEMMA SingleStep ==
    ASSUME Single, TypeOK, [Promise!Next]_(Promise!promise)
    PROVE Single'
  <1>0. /\ OwedAll \in [Processes -> SUBSET Ids] /\ times \in [Ids -> Nat] /\ submitted \in Nat
        /\ Ids \subseteq Nat /\ Queued \subseteq Ids
    BY HeldIds, DeliveryAssumption DEF TypeOK, OwedAll, Ids
  <1>1. CASE Promise!Submit
    <2>1. /\ submitted' = submitted + 1 /\ submitted + 1 \in Ids /\ times' = times
          /\ again' = again /\ Queued' = Queued \cup {submitted + 1} /\ OwedAll' = OwedAll
      BY <1>1 DEF Promise!Submit, OwedAll
    <2> QED BY <1>0, <2>1 DEF Single
  <1>2. ASSUME NEW p \in Processes, NEW n \in Ids, Promise!Acknowledge(p, n) PROVE Single'
    <2>1. /\ n \in Queued /\ Queued' = Queued \ {n} /\ OwedAll' = [OwedAll EXCEPT ![p] = @ \cup {n}]
          /\ UNCHANGED <<submitted, times, again>>
      BY <1>2 DEF Promise!Acknowledge, OwedAll
    <2> QED BY <1>0, <2>1 DEF Single
  <1>3. ASSUME NEW p \in Processes, NEW n \in Ids, Promise!Handle(p, n) PROVE Single'
    <2>1. /\ n \in OwedAll[p] /\ OwedAll' = [OwedAll EXCEPT ![p] = @ \ {n}]
          /\ times' = [times EXCEPT ![n] = @ + 1]
          /\ submitted' = submitted /\ again' = again /\ Queued' = Queued
      BY <1>3 DEF Promise!Handle, OwedAll
    <2> QED BY <1>0, <2>1 DEF Single
  <1>4. ASSUME NEW p \in Processes, NEW held \in SUBSET Queued, Promise!GiveBack(p, held) PROVE Single'
    <2>1. /\ OwedAll' = [OwedAll EXCEPT ![p] = @ \cup held] /\ again' = again \cup held
          /\ submitted' = submitted /\ times' = times /\ Queued' = Queued
      BY <1>4 DEF Promise!GiveBack, OwedAll
    <2> QED BY <1>0, <2>1 DEF Single
  <1>5. ASSUME NEW p \in Processes, Promise!Forget(p) PROVE Single'
    <2>1. /\ OwedAll' = [OwedAll EXCEPT ![p] = {}] /\ again' = again
          /\ submitted' = submitted /\ times' = times /\ Queued' = Queued
      BY <1>5 DEF Promise!Forget, OwedAll
    <2> QED BY <1>0, <2>1 DEF Single
  <1>6. CASE UNCHANGED Promise!promise
    <2>1. /\ OwedAll' = OwedAll /\ again' = again
          /\ submitted' = submitted /\ times' = times /\ Queued' = Queued
      BY <1>6 DEF Promise!promise, OwedAll
    <2> QED BY <1>0, <2>1 DEF Single
  <1> QED BY <1>1, <1>2, <1>3, <1>4, <1>5, <1>6 DEF Promise!Next

\* A command is handled at most once unless a connection broke with it unacknowledged: it
\* follows from the promise alone.
THEOREM DeliveryAtMostOnce == Spec => []AtMostOnce
  <1>1. Init => Single
    <2> SUFFICES ASSUME Init PROVE Single
      OBVIOUS
    <2>1. Promise!Init
      BY PromiseInit
    <2>2. OwedAll = [p \in Processes |-> {}] /\ Queued = {} /\ times = [n \in Ids |-> 0]
      BY <2>1 DEF Promise!Init, OwedAll
    <2> QED BY <2>2 DEF Single
  <1>2. Single /\ DeliveryInv /\ [Next]_vars => Single'
    BY PromiseStep, SingleStep DEF DeliveryInv
  <1>3. Single => AtMostOnce
    BY DEF Single, AtMostOnce
  <1> QED BY <1>1, <1>2, <1>3, DeliveryAlways, PTL DEF Spec

\* Every published command is with the broker, in hand, handled or cut short; that it is
\* in the stream of a broken connection does not count.
Traced ==
    \A n \in 1 .. submitted :
        n \in Queued \/ times[n] > 0 \/ n \in cut \/ \E p \in Processes : current[p] = n

\* Every step keeps Traced: a command leaves the broker only into the hands of a process.
LEMMA TracedStep == ASSUME DeliveryInv, Traced, [Next]_vars PROVE Traced'
  <1>0. /\ 1 .. submitted \subseteq Ids /\ None \notin 1 .. submitted
        /\ submitted \in Nat /\ times \in [Ids -> Nat]
    BY DeliveryAssumption DEF DeliveryInv, TypeOK, Ids, None
  <1>1. CASE Submit
    <2>1. \A n \in 1 .. submitted' : n \in 1 .. submitted \/ n = submitted + 1
      BY <1>0, <1>1, SubmitEffect
    <2> QED BY <1>1, <2>1, SubmitEffect DEF Traced
  <1>2. CASE UNCHANGED vars \/ \E s \in Shards : Connect(s) \/ Disconnect(s)
    BY <1>2, ShardEffect DEF Traced
  <1>3. ASSUME NEW p \in Processes, Step(p) PROVE Traced'
    <2>0. \A q \in Processes : q # p => current'[q] = current[q]
      BY <1>3, OthersStep DEF DeliveryInv, Others
    <2>1. CASE ProcessStart(p) \/ Consume(p) \/ ConsumeFails(p) \/ Return(p)
      BY <2>1, ConsumerEffect DEF Traced
    <2>2. CASE Deliver(p)
      BY <2>2, DeliverEffect DEF Traced
    <2>3. CASE Take(p)
      <3>1. /\ UNCHANGED <<submitted, times, cut>> /\ current[p] = None
            /\ Queued' = Queued \ {current'[p]} \/ Queued' = Queued
        BY <2>3, TakeEffect
      <3> QED BY <1>0, <2>0, <3>1 DEF Traced
    <2>4. CASE Handle(p)
      <3>1. times' = [times EXCEPT ![current[p]] = @ + 1] /\ current[p] \in Ids
            /\ Queued' = Queued /\ submitted' = submitted /\ cut' = cut
        BY <2>4, HandleEffect
      <3> QED BY <1>0, <2>0, <3>1 DEF Traced
    <2>5. CASE Break(p)
      BY <2>5, BreakEffect DEF Traced
    <2>6. CASE ProcessEnd(p)
      <3>1. /\ cut' = cut \cup ({current[p]} \ {None})
            /\ Queued' = Queued /\ submitted' = submitted /\ times' = times
        BY <2>6, EndEffect
      <3> QED BY <1>0, <2>0, <3>1 DEF Traced
    <2> QED BY <1>3, <2>1, <2>2, <2>3, <2>4, <2>5, <2>6 DEF Step
  <1> QED BY <1>1, <1>2, <1>3 DEF Next

\* No command vanishes, except in the hands of a process that ends: although `incoming`
\* acknowledges before it handles, and goes on with a stream whose connection is broken.
THEOREM DeliveryAccounted == Spec => []Accounted
  <1>1. Init => Traced
    BY DEF Init, Traced
  <1>2. DeliveryInv /\ Traced /\ [Next]_vars => Traced'
    BY TracedStep
  <1>3. DeliveryInv /\ Traced => Accounted
    <2> SUFFICES ASSUME DeliveryInv, Traced PROVE Accounted
      OBVIOUS
    <2>1. \A n \in 1 .. submitted : n # None
      BY DEF None
    <2> QED BY <2>1 DEF Traced, Accounted, Owed
  <1> QED BY <1>1, <1>2, <1>3, DeliveryAlways, PTL DEF Spec
-----------------------------------------------------------------------------
(* The order of the commands. *)

\* Process p works through the queue in order: every command published before the one in
\* its hands has been handled, or was in hand when the process ended; and every one published
\* before a message of its stream has been too, is in its hands, or is ahead in the stream.
Sequenced(p) ==
    /\ \A m \in 1 .. current[p] - 1 : Handled(m)
    /\ \A i \in 1 .. Len(buffer[p]) : \A m \in 1 .. buffer[p][i] - 1 :
          Handled(m) \/ m = current[p] \/ \E j \in 1 .. i - 1 : buffer[p][j] = m

\* What has been handled, or was cut short, remains so.
LEMMA HandledStays ==
    ASSUME DeliveryInv, [Next]_vars
    PROVE \A m \in Ids : Handled(m) => Handled(m)'
  <1>0. times \in [Ids -> Nat]
    BY DEF DeliveryInv, TypeOK
  <1>1. CASE Submit
    BY <1>1, SubmitEffect DEF Handled
  <1>2. CASE UNCHANGED vars \/ \E s \in Shards : Connect(s) \/ Disconnect(s)
    BY <1>2, ShardEffect DEF Handled
  <1>3. ASSUME NEW p \in Processes, Step(p) PROVE \A m \in Ids : Handled(m) => Handled(m)'
    <2>1. CASE ProcessStart(p) \/ Consume(p) \/ ConsumeFails(p) \/ Return(p)
      BY <2>1, ConsumerEffect DEF Handled
    <2>2. CASE Deliver(p)
      BY <2>2, DeliverEffect DEF Handled
    <2>3. CASE Take(p)
      BY <2>3, TakeEffect DEF Handled
    <2>4. CASE Handle(p)
      BY <1>0, <2>4, HandleEffect DEF Handled
    <2>5. CASE Break(p)
      BY <2>5, BreakEffect DEF Handled
    <2>6. CASE ProcessEnd(p)
      BY <2>6, EndEffect DEF Handled
    <2> QED BY <1>3, <2>1, <2>2, <2>3, <2>4, <2>5, <2>6 DEF Step
  <1> QED BY <1>1, <1>2, <1>3 DEF Next

\* What was published before a message in hand is a command.
LEMMA EarlierIds ==
    ASSUME TypeOK, NEW p \in Processes
    PROVE /\ \A m \in 1 .. current[p] - 1 : m \in Ids
          /\ \A i \in 1 .. Len(buffer[p]) : \A m \in 1 .. buffer[p][i] - 1 : m \in Ids
  <1>1. ASSUME NEW n \in Ids \cup {None}, NEW m \in 1 .. n - 1 PROVE m \in Ids
    BY DeliveryAssumption DEF Ids, None
  <1>2. current[p] \in Ids \cup {None} /\ buffer[p] \in Seq(Ids)
    BY DEF TypeOK
  <1>3. \A i \in 1 .. Len(buffer[p]) : buffer[p][i] \in Ids
    BY <1>2
  <1> QED BY <1>1, <1>2, <1>3

\* As long as a process takes no message and gets none, it is as far as it was.
LEMMA SequencedFrame ==
    ASSUME DeliveryInv, [Next]_vars, NEW p \in Processes, Sequenced(p),
           buffer'[p] = buffer[p], current'[p] = current[p]
    PROVE Sequenced(p)'
  BY EarlierIds, HandledStays DEF Sequenced, DeliveryInv

\* The broker pushes the first message that is ready.  If nobody else consumes the queue, all
\* that were published before it have gone the same way.
LEMMA DeliverSequenced ==
    ASSUME DeliveryInv, Traced, [Next]_vars, NEW p, Processes = {p}, Deliver(p), Sequenced(p)
    PROVE Sequenced(p)'
  <1>1. PICK n \in queue : /\ \A m \in queue : n <= m
                           /\ buffer'[p] = Append(buffer[p], n)
    BY DEF Deliver, DeliveryInv, TypeOK
  <1>2. /\ consumer[p] = "open" /\ current'[p] = current[p]
        /\ UNCHANGED <<times, cut>>
    BY DEF Deliver
  <1>3. /\ buffer[p] \in Seq(Ids) /\ n \in Ids /\ Len(buffer[p]) \in Nat
        /\ Len(buffer'[p]) = Len(buffer[p]) + 1
        /\ \A i \in 1 .. Len(buffer[p]) : buffer'[p][i] = buffer[p][i]
        /\ buffer'[p][Len(buffer[p]) + 1] = n
    BY <1>1 DEF DeliveryInv, TypeOK
  <1>4. n \in 1 .. submitted /\ submitted \in Nat
    BY DEF DeliveryInv, TypeOK, Published
  <1>5. Queued = queue \cup Held(p)
    BY <1>2 DEF Queued, Unacked
  <1>6. ASSUME NEW m \in 1 .. n - 1
        PROVE Handled(m) \/ m = current[p] \/ \E j \in 1 .. Len(buffer[p]) : buffer[p][j] = m
    <2>1. m \in 1 .. submitted /\ ~(n <= m)
      BY <1>4
    <2>2. m \notin queue
      BY <1>1, <2>1
    <2>3. m \in Held(p) \/ Handled(m) \/ m = current[p]
      BY <1>5, <2>1, <2>2 DEF Traced, Handled
    <2> QED BY <2>3 DEF Held
  <1>7. \A m : Handled(m)' <=> Handled(m)
    BY <1>2 DEF Handled
  <1>8. ASSUME NEW i \in 1 .. Len(buffer'[p]), NEW m \in 1 .. buffer'[p][i] - 1
        PROVE Handled(m) \/ m = current[p] \/ \E j \in 1 .. i - 1 : buffer'[p][j] = m
    <2>1. CASE i = Len(buffer[p]) + 1
      BY <1>3, <1>6, <2>1
    <2>2. CASE i \in 1 .. Len(buffer[p])
      <3>1. \A j \in 1 .. i - 1 : buffer'[p][j] = buffer[p][j]
        BY <1>3, <2>2
      <3>2. m \in 1 .. buffer[p][i] - 1
        BY <1>3, <2>2
      <3>3. Handled(m) \/ m = current[p] \/ \E j \in 1 .. i - 1 : buffer[p][j] = m
        BY <2>2, <3>2 DEF Sequenced
      <3> QED BY <3>1, <3>3
    <2> QED BY <1>3, <2>1, <2>2
  <1> QED BY <1>2, <1>7, <1>8 DEF Sequenced

\* `incoming` takes the first message of its stream when it has none in hand.
LEMMA TakeSequenced ==
    ASSUME DeliveryInv, NEW p \in Processes, Take(p), Sequenced(p)
    PROVE Sequenced(p)'
  <1>1. /\ buffer[p] # <<>> /\ current[p] = None /\ current'[p] = Head(buffer[p])
        /\ buffer'[p] = Tail(buffer[p]) /\ UNCHANGED <<times, cut>>
    BY DEF Take, DeliveryInv, TypeOK
  <1>2. buffer[p] \in Seq(Ids)
    BY DEF DeliveryInv, TypeOK
  <1>3. /\ Len(buffer[p]) \in Nat /\ Len(buffer[p]) > 0 /\ current'[p] = buffer[p][1]
        /\ Len(buffer'[p]) = Len(buffer[p]) - 1
        /\ \A i \in 1 .. Len(buffer[p]) - 1 : buffer'[p][i] = buffer[p][i + 1]
    BY <1>1, <1>2
  <1>4. \A m : Handled(m)' <=> Handled(m)
    BY <1>1 DEF Handled
  <1>5. \A m \in 1 .. current'[p] - 1 : Handled(m)
    <2>1. 1 \in 1 .. Len(buffer[p]) /\ \A m \in 1 .. current'[p] - 1 : m # current[p]
      BY <1>1, <1>3 DEF None
    <2>2. \A j \in 1 .. 1 - 1 : FALSE
      OBVIOUS
    <2> QED BY <1>3, <2>1, <2>2 DEF Sequenced
  <1>6. ASSUME NEW i \in 1 .. Len(buffer'[p]), NEW m \in 1 .. buffer'[p][i] - 1
        PROVE Handled(m) \/ m = current'[p] \/ \E j \in 1 .. i - 1 : buffer'[p][j] = m
    <2>1. i + 1 \in 1 .. Len(buffer[p]) /\ m \in 1 .. buffer[p][i + 1] - 1 /\ m # current[p]
      BY <1>1, <1>3 DEF None
    <2>2. Handled(m) \/ \E j \in 1 .. (i + 1) - 1 : buffer[p][j] = m
      BY <2>1 DEF Sequenced
    <2>3. ASSUME NEW j \in 1 .. (i + 1) - 1, buffer[p][j] = m
          PROVE m = current'[p] \/ \E k \in 1 .. i - 1 : buffer'[p][k] = m
      <3>1. CASE j = 1
        BY <1>3, <2>3, <3>1
      <3>2. CASE j # 1
        <4>1. j - 1 \in 1 .. i - 1 /\ buffer'[p][j - 1] = buffer[p][j]
          BY <1>3, <3>2
        <4> QED BY <2>3, <4>1
      <3> QED BY <3>1, <3>2
    <2> QED BY <2>2, <2>3
  <1> QED BY <1>4, <1>5, <1>6 DEF Sequenced

\* What was in hand is handled before the next message is taken.
LEMMA HandleSequenced ==
    ASSUME DeliveryInv, [Next]_vars, NEW p \in Processes, Handle(p), Sequenced(p)
    PROVE Sequenced(p)'
  <1>1. PICK n \in Ids : /\ n = current[p] /\ current'[p] = None /\ buffer'[p] = buffer[p]
                         /\ times' = [times EXCEPT ![n] = @ + 1]
    BY HandleEffect
  <1>2. Handled(n)'
    BY <1>1 DEF Handled, DeliveryInv, TypeOK
  <1>3. \A m \in 1 .. None - 1 : FALSE
    BY DEF None
  <1>4. \A i \in 1 .. Len(buffer[p]) : \A m \in 1 .. buffer[p][i] - 1 : m \in Ids
    BY EarlierIds DEF DeliveryInv
  <1>5. \A m \in Ids : Handled(m) => Handled(m)'
    BY HandledStays
  <1> QED BY <1>1, <1>2, <1>3, <1>4, <1>5 DEF Sequenced

\* If one process consumes the queue, it works through it in order.
LEMMA SequencedStep ==
    ASSUME DeliveryInv, Traced, [Next]_vars, NEW p, Processes = {p}, Sequenced(p)
    PROVE Sequenced(p)'
  <1>1. CASE Submit
    BY <1>1, SequencedFrame DEF Submit
  <1>2. CASE UNCHANGED vars \/ \E s \in Shards : Connect(s) \/ Disconnect(s)
    BY <1>2, SequencedFrame DEF Connect, Disconnect, vars
  <1>3. CASE ProcessStart(p) \/ Consume(p) \/ ConsumeFails(p) \/ Return(p) \/ Break(p)
    BY <1>3, SequencedFrame DEF ProcessStart, Consume, ConsumeFails, Return, Break
  <1>4. CASE ProcessEnd(p)
    <2>1. buffer'[p] = <<>> /\ current'[p] = None
      BY <1>4 DEF ProcessEnd, DeliveryInv, TypeOK
    <2>2. (\A m \in 1 .. None - 1 : FALSE) /\ \A i \in 1 .. Len(<<>>) : FALSE
      BY DEF None
    <2> QED BY <2>1, <2>2 DEF Sequenced
  <1> QED BY <1>1, <1>2, <1>3, <1>4, DeliverSequenced, TakeSequenced, HandleSequenced
          DEF Next, Step

\* If one process consumes gateway.send, it handles the commands in the order of their
\* publication, for the first time at least, however often the connection to the broker
\* breaks and the process is started again.
THEOREM DeliveryInOrder ==
    ASSUME NEW CONSTANT p, Processes = {p}
    PROVE Spec => InOrder
  <1>1. Init => Traced /\ Sequenced(p)
    <2> SUFFICES ASSUME Init PROVE Traced /\ Sequenced(p)
      OBVIOUS
    <2>1. Traced
      BY DEF Init, Traced
    <2>2. buffer[p] = <<>> /\ current[p] = None
      BY DEF Init
    <2>3. (\A m \in 1 .. None - 1 : FALSE) /\ \A i \in 1 .. Len(<<>>) : FALSE
      BY DEF None
    <2> QED BY <2>1, <2>2, <2>3 DEF Sequenced
  <1>2. DeliveryInv /\ Traced /\ Sequenced(p) /\ [Next]_vars => Traced' /\ Sequenced(p)'
    BY TracedStep, SequencedStep
  <1>3. DeliveryInv /\ Sequenced(p) /\ [Next]_vars =>
          [\A n \in Ids : times[n] = 0 /\ times'[n] = 1 =>
              \A m \in 1 .. n - 1 : times[m] > 0 \/ m \in cut]_vars
    <2> SUFFICES ASSUME DeliveryInv, Sequenced(p), [Next]_vars,
                        NEW n \in Ids, times[n] = 0, times'[n] = 1
                 PROVE \A m \in 1 .. n - 1 : times[m] > 0 \/ m \in cut
      OBVIOUS
    <2>1. CASE Handle(p)
      <3>1. times' = [times EXCEPT ![current[p]] = @ + 1] /\ times \in [Ids -> Nat]
        BY <2>1 DEF Handle, DeliveryInv, TypeOK
      <3>2. n = current[p]
        BY <3>1
      <3> QED BY <3>2 DEF Sequenced, Handled
    <2>2. CASE ~Handle(p)
      <3>1. times' = times
        BY <2>2 DEF Next, Step, vars, Submit, ProcessStart, Consume, ConsumeFails, Deliver, Take,
                    Break, Return, ProcessEnd, Connect, Disconnect
      <3> QED BY <3>1
    <2> QED BY <2>1, <2>2
  <1> QED BY <1>1, <1>2, <1>3, DeliveryAlways, PTL DEF Spec, InOrder
=============================================================================
