------------------------- MODULE ConvergenceProofs --------------------------
(***************************************************************************)
(* The cache converges to the reference, what expires is tracked and the   *)
(* old values are the previous ones: proved for every key space, number of *)
(* tasks and events, and with failing commands or without.                 *)
(***************************************************************************)
EXTENDS StateCacheProofs

(* The operations of every worker are in order. *)

\* The purge deletes keys that expire and then their expiry.
PurgeOK(r) ==
    /\ r.ev = NoEvent
    /\ r.cur.op \in {"nop", "del", "srem", "hdel"}
    /\ r.cur.keys \subseteq ExpiryKeys
    /\ r.rest = IF r.cur.op \in {"del", "srem"} THEN <<Do("hdel", r.cur.keys)>> ELSE <<>>

\* A task and the loop have an event of the gateway, or none, and operations in order.
TaskOK(r) == (r.ev = NoEvent \/ r.ev \in Events) /\ InOrder(r.ev, r.cur, r.rest)

Steady == \A w \in Workers : IF w = Purge THEN PurgeOK(work[w]) ELSE TaskOK(work[w])

\* The helper set of a guild names objects of that guild.
GuildSetsSound == \A g \in Guilds : idx[<<"guild", g>>] \subseteq Stored(GuildItems(g))

\* What a worker has yet to write, to remove and to read.
ToWrite(r) == Writes(r.ev, r.cur) \cup AllWrites(r.ev, r.rest)
ToRemove(r) == Removes(r.ev, r.cur) \cup AllRemoves(r.ev, r.rest)
ToRead(r) == r.cur.op \in ReadOps \/ Reading(r.rest)

\* x is r with the operations ops to go on with.
Follows(r, x, ops) ==
    /\ x.ev = r.ev /\ x.n = r.n /\ x.prior = r.prior
    /\ InOrder(x.ev, x.cur, x.rest)
    /\ ToWrite(x) = AllWrites(r.ev, ops)
    /\ ToRemove(x) = AllRemoves(r.ev, ops)
    /\ ToRead(x) <=> Reading(ops)

\* The operations that never come after another one.
OnlyFirst == {"get", "get_all", "modify", "members", "emoji_keys", "emojis"}
-----------------------------------------------------------------------------
\* A worker that is done is in order.
LEMMA NopInOrder ==
    ASSUME NEW e
    PROVE  /\ InOrder(e, Nop, <<>>)
           /\ Writes(e, Nop) = {} /\ Removes(e, Nop) = {}
           /\ Nop.op = "nop" /\ Nop \in Op
<1>1. Nop.op = "nop" /\ Nop \in Op
  BY NopPlanned DEF Plan
<1>2. Writes(e, Nop) = {} /\ Removes(e, Nop) = {} /\ Puts(Nop) = {} /\ Fits(e, Nop)
  BY <1>1 DEF Writes, Removes, Puts, Fits
<1>3. QED
  BY <1>1, <1>2, NoneProper DEF InOrder, First

\* Nothing comes after an operation that has nothing to do or reads the emojis.
LEMMA LastInOrder ==
    ASSUME NEW e, NEW c, NEW t \in Seq(Op), InOrder(e, c, t),
           c.op \in {"nop", "emoji_keys", "emojis"}
    PROVE  t = <<>>
<1>1. Len(t) \in Nat /\ (t # <<>> => Len(t) > 0)
  BY EmptySeq, LenProperties
<1>2. \A i \in 1 .. Len(t) : FALSE
  BY DEF InOrder, First, Before
<1>3. QED
  BY <1>1, <1>2

\* A sequence of operations in order is its first one followed by the others.
LEMMA OrderlyJoined ==
    ASSUME NEW e, NEW ops \in Seq(Op), Orderly(e, ops), ops # <<>>
    PROVE  /\ Head(ops) \in Op /\ Tail(ops) \in Seq(Op)
           /\ InOrder(e, Head(ops), Tail(ops))
           /\ Joined(e, Head(ops), Tail(ops), ops)
<1> DEFINE h == Head(ops)
           t == Tail(ops)
<1>1. h \in Op /\ t \in Seq(Op) /\ ops = <<h>> \o t
  OBVIOUS
<1>2. InOrder(e, h, t)
  BY DEF Orderly
<1> HIDE DEF h, t
<1>3. Joined(e, h, t, <<h>> \o t)
  BY <1>1, <1>2, ConsProper
<1>4. QED
  BY <1>1, <1>2, <1>3 DEF h, t

\* Going on with operations in order.
LEMMA GoOnFollows ==
    ASSUME NEW w, work[w] \in Work, NEW ops \in Seq(Op), Orderly(work[w].ev, ops)
    PROVE  /\ Follows(work[w], GoOn(w, ops), ops)
           /\ GoOn(w, ops).old = work[w].old
           /\ GoOn(w, ops) \in Work
           /\ GoOn(w, ops).cur = IF ops = <<>> THEN Nop ELSE Head(ops)
           /\ GoOn(w, ops).rest = IF ops = <<>> THEN <<>> ELSE Tail(ops)
<1> DEFINE e == work[w].ev
           g == GoOn(w, ops)
           c == IF ops = <<>> THEN Nop ELSE Head(ops)
           t == IF ops = <<>> THEN <<>> ELSE Tail(ops)
<1>1. c \in Op /\ t \in Seq(Op) /\ InOrder(e, c, t)
  BY NopInOrder, OrderlyJoined
<1>2. /\ Writes(e, c) \cup AllWrites(e, t) = AllWrites(e, ops)
      /\ Removes(e, c) \cup AllRemoves(e, t) = AllRemoves(e, ops)
      /\ (c.op \in ReadOps \/ Reading(t)) <=> Reading(ops)
  <2>1. CASE ops = <<>>
    <3>1. c = Nop /\ t = <<>>
      BY <2>1
    <3>2. "nop" \notin ReadOps
      BY DEF ReadOps
    <3> HIDE DEF c, t
    <3>3. QED
      BY <2>1, <3>1, <3>2, NopInOrder, NoneProper
  <2>2. CASE ops # <<>>
    <3>1. Joined(e, c, t, ops)
      BY <2>2, OrderlyJoined
    <3> HIDE DEF c, t
    <3>2. QED
      BY <3>1 DEF Joined
  <2>3. QED
    BY <2>1, <2>2
<1>3. g = [work[w] EXCEPT !.cur = c, !.rest = t]
  BY DEF GoOn
<1> HIDE DEF c, t, g
<1>4. /\ g.cur = c /\ g.rest = t /\ g.ev = e /\ g.n = work[w].n
      /\ g.old = work[w].old /\ g.prior = work[w].prior /\ g \in Work
  BY <1>1, <1>3 DEF Work
<1>5. Follows(work[w], g, ops)
  BY <1>1, <1>2, <1>4 DEF Follows, ToWrite, ToRemove, ToRead
<1>6. QED
  BY <1>4, <1>5 DEF g, c, t

\* Nothing that must come first comes second.
LEMMA NotFirst ==
    ASSUME NEW e, NEW c \in Op, NEW t \in Seq(Op), InOrder(e, c, t), t # <<>>
    PROVE  Head(t).op \notin OnlyFirst
<1>1. Len(t) \in Nat /\ Len(t) > 0 /\ Head(t) = t[1]
  BY EmptySeq, LenProperties, HeadTailProperties
<1>2. Before(e, c, t[1])
  BY <1>1 DEF InOrder, First
<1>3. QED
  BY <1>1, <1>2 DEF Before, OnlyFirst

\* Going on with the rest.
LEMMA RestFollows ==
    ASSUME NEW w, work[w] \in Work, InOrder(work[w].ev, work[w].cur, work[w].rest)
    PROVE  /\ Follows(work[w], GoOn(w, work[w].rest), work[w].rest)
           /\ GoOn(w, work[w].rest) \in Work
           /\ GoOn(w, work[w].rest).old = work[w].old
           /\ GoOn(w, work[w].rest).cur.op \notin OnlyFirst
<1> DEFINE e == work[w].ev
           c == work[w].cur
           t == work[w].rest
           g == GoOn(w, t)
<1>1. c \in Op /\ t \in Seq(Op)
  BY DEF Work
<1>2. Orderly(e, t)
  BY <1>1, RestProper
<1>3. /\ Follows(work[w], g, t)
      /\ g.old = work[w].old
      /\ g \in Work
      /\ g.cur = IF t = <<>> THEN Nop ELSE Head(t)
  BY <1>1, <1>2, GoOnFollows
<1>4. g.cur.op \notin OnlyFirst
  <2> HIDE DEF g
  <2>1. CASE t = <<>>
    BY <1>3, <2>1, NopPlanned DEF OnlyFirst
  <2>2. CASE t # <<>>
    <3>1. Head(t).op \notin OnlyFirst
      BY <1>1, <2>2, NotFirst
    <3>2. QED
      BY <1>3, <2>2, <3>1
  <2>3. QED
    BY <2>1, <2>2
<1>5. QED
  BY <1>3, <1>4

\* The helper sets that a set_all or del_all has yet to update change nothing in that.
LEMMA RemainingFollows ==
    ASSUME NEW w, work[w] \in Work, InOrder(work[w].ev, work[w].cur, work[w].rest),
           NEW op, NEW left \in SUBSET Indexes,
           \/ op = "sadd" /\ work[w].cur.op \in {"set", "sadd"}
           \/ op = "srem" /\ work[w].cur.op \in {"del", "srem"}
    PROVE  /\ Follows(work[w], Remaining(w, op, left), work[w].rest)
           /\ Remaining(w, op, left) \in Work
           /\ Remaining(w, op, left).old = work[w].old
           /\ Remaining(w, op, left).cur.op \notin OnlyFirst
<1>1. CASE left = {}
  BY <1>1, RestFollows DEF Remaining
<1>2. CASE left # {}
  <2> DEFINE e == work[w].ev
             a == work[w].cur
             t == work[w].rest
             c == [op |-> op, keys |-> a.keys, left |-> left]
             x == [work[w] EXCEPT !.cur = c]
  <2>1. Remaining(w, op, left) = x
    BY <1>2 DEF Remaining
  <2>2. a \in Op /\ t \in Seq(Op) /\ c \in Op /\ c.op = op /\ c.keys = a.keys
    BY DEF Work, Op, OpNames
  <2> HIDE DEF c
  <2>3. /\ x.cur = c /\ x.rest = t /\ x.ev = e /\ x.n = work[w].n
        /\ x.old = work[w].old /\ x.prior = work[w].prior /\ x \in Work
    BY <2>2 DEF Work
  <2> HIDE DEF x, e, a, t
  <2>4. /\ Writes(e, c) = {} /\ Removes(e, c) = {} /\ c.op \notin ReadOps
        /\ c.op \notin OnlyFirst
    BY <2>2 DEF Writes, Removes, ReadOps, OnlyFirst
  <2>5. Puts(c) = Puts(a)
    BY <2>2 DEF Puts, a
  <2>6. InOrder(e, c, t)
    <3>1. InOrder(e, a, t)
      BY DEF a, e, t
    <3>2. Fits(e, c)
      BY <2>2, <3>1 DEF InOrder, Fits, a
    <3>3. \A i \in 1 .. Len(t) : Before(e, c, t[i])
      <4> SUFFICES ASSUME NEW i \in 1 .. Len(t) PROVE Before(e, c, t[i])
        OBVIOUS
      <4>1. Before(e, a, t[i])
        BY <3>1 DEF InOrder, First
      <4>2. a.op \in {"set", "sadd", "del", "srem"} /\ op \in {"sadd", "srem"}
        BY DEF a
      <4>3. t[i].op = "clear" => a.op \in {"del", "srem"}
        BY <4>1, <4>2 DEF Before
      <4>4. t[i].op = "clear" => op = "srem"
        BY <4>3 DEF a
      <4>5. QED
        BY <2>2, <2>4, <2>5, <4>1, <4>2, <4>4 DEF Before
    <3>4. First(e, c, t)
      BY <2>2, <2>5, <3>1, <3>3 DEF InOrder, First, a
    <3>5. QED
      BY <3>1, <3>2, <3>4 DEF InOrder
  <2>7. Follows(work[w], x, t)
    <3>1. ToWrite(x) = AllWrites(e, t) /\ ToRemove(x) = AllRemoves(e, t)
      BY <2>3, <2>4 DEF ToWrite, ToRemove
    <3>2. ToRead(x) <=> Reading(t)
      BY <2>3, <2>4 DEF ToRead
    <3>3. QED
      BY <2>3, <2>6, <3>1, <3>2 DEF Follows, e
  <2>8. QED
    BY <2>1, <2>3, <2>4, <2>7 DEF t
<1>3. QED
  BY <1>1, <1>2
-----------------------------------------------------------------------------
(* What a read makes a worker do next. *)

\* ops are in order, write W, remove R, and read if d.
Does(e, ops, W, R, d) ==
    /\ ops \in Seq(Op)
    /\ Orderly(e, ops)
    /\ AllWrites(e, ops) = W
    /\ AllRemoves(e, ops) = R
    /\ Reading(ops) <=> d

\* clear_guild goes on with the deletion of what it has read.
LEMMA DelThen ==
    ASSUME NEW e, NEW c \in Op, NEW t \in Seq(Op), InOrder(e, c, t),
           c.op \in {"members", "clear"}, NEW K \in SUBSET AnyKeys,
           Stored(K) \subseteq Removes(e, c), Stored(K) \subseteq Stored(Erased(e))
    PROVE  Does(e, Del(K) \o t, AllWrites(e, t), Stored(K) \cup AllRemoves(e, t), Reading(t))
<1> DEFINE d == Do("del", K)
           u == Then("del", K, t)
<1>0. Del(K) \o t = u
  BY DEF Del, Then
<1>1. CASE K = {}
  <2>1. u = t
    BY <1>1, ConcatEmptySeq DEF Some, Then
  <2>2. Orderly(e, t) /\ Stored(K) = {}
    BY <1>1, RestProper DEF Stored
  <2> HIDE DEF u
  <2>3. QED
    BY <1>0, <2>1, <2>2 DEF Does
<1>2. CASE K # {}
  <2>1. "del" \in OpNames /\ d.op = "del" /\ d.keys = K
    BY DoType DEF OpNames
  <2> HIDE DEF d
  <2>2. /\ Writes(e, d) = {} /\ Removes(e, d) = Stored(K) /\ Puts(d) = {}
        /\ d.op \notin ReadOps /\ Fits(e, d)
    BY <2>1 DEF Writes, Removes, Puts, ReadOps, Fits
  <2>3. \A i \in 1 .. Len(t) : Before(e, d, t[i])
    <3> SUFFICES ASSUME NEW i \in 1 .. Len(t) PROVE Before(e, d, t[i])
      OBVIOUS
    <3>1. Before(e, c, t[i])
      BY DEF InOrder, First
    <3>2. t[i].op = "clear" => Removes(e, d) \cap Stored(t[i].keys) = {}
      BY <2>2, <3>1 DEF Before
    <3>3. QED
      BY <2>1, <2>2, <3>1, <3>2 DEF Before
  <2>4. First(e, d, t)
    BY <2>1, <2>2, <2>3 DEF First
  <2>5. Proper(e, t)
    BY DEF InOrder
  <2>6. /\ Orderly(e, u)
        /\ u \in Seq(Op)
        /\ Joined(e, d, t, u)
    BY <1>2, <2>1, <2>2, <2>4, <2>5, SomeEffect DEF d
  <2> HIDE DEF u
  <2>7. QED
    BY <1>0, <2>2, <2>6 DEF Does, Joined
<1>3. QED
  BY <1>1, <1>2

\* What one operation does.
LEMMA OneDoes ==
    ASSUME NEW e, NEW c \in Op, Fits(e, c), Puts(c) = {}, c.op \notin {"modify", "members"}
    PROVE  Does(e, <<c>>, Writes(e, c), Removes(e, c), c.op \in ReadOps)
<1>1. InOrder(e, c, <<>>)
  BY NoneProper DEF InOrder, First
<1>2. Orderly(e, <<c>>)
  BY <1>1 DEF Orderly
<1>3. QED
  BY <1>2 DEF Does, AllWrites, AllRemoves, Reading

\* GuildEmojisUpdate ends with the deletion of the emojis found, and not in the event, and
\* a set_all of the emojis of the event.
LEMMA EmojisDone ==
    ASSUME NEW e \in Event, WellFormed(e), Handled(e), e.kind = "GuildEmojisUpdate",
           NEW D \in SUBSET GuildKeysOf("emoji", e.guild)
    PROVE  /\ Does(e, Del(D \ e.keys) \o Set(e.keys), Stored(e.keys), D \ e.keys, FALSE)
           /\ Does(e, Set(e.keys), Stored(e.keys), {}, FALSE)
<1> DEFINE t == Set(e.keys)
           K == D \ e.keys
           d == Do("del", K)
           c == Do("set", e.keys)
           u == Then("del", K, t)
<1>1. /\ e.keys \in SUBSET AnyKeys /\ e.keys \cap Expiring = {}
      /\ Written(e) = e.keys /\ Erased(e) = GuildKeysOf("emoji", e.guild)
  BY EventKeysOf DEF Written, Erased
<1>2. K \in SUBSET AnyKeys /\ Stored(K) = K /\ Stored(Erased(e)) = Erased(e)
      /\ e.keys \subseteq GuildKeysOf("emoji", e.guild) /\ Stored(e.keys) = e.keys
  <2>1. GuildKeysOf("emoji", e.guild) \subseteq AnyKeys
    BY EmojisArePlain DEF AnyKeys
  <2>2. e.keys \subseteq GuildKeysOf("emoji", e.guild)
    BY DEF WellFormed
  <2>3. QED
    BY <1>1, <2>1, <2>2, EmojisArePlain
<1>3. Tidy(e, t)
  BY <1>1, SetTidy
<1>4. Does(e, t, Stored(e.keys), {}, FALSE)
  <2>1. CASE e.keys = {}
    BY <2>1, NoneProper DEF Does, Set, Some, Stored
  <2>2. CASE e.keys # {}
    <3>1. c \in Op /\ c.op = "set" /\ c.keys = e.keys
      BY <1>1, DoType DEF OpNames
    <3>2. t = <<c>>
      BY <2>2 DEF Set, Some
    <3> HIDE DEF c, t
    <3>3. /\ Fits(e, c) /\ Puts(c) = {} /\ Writes(e, c) = Stored(e.keys)
          /\ Removes(e, c) = {} /\ c.op \notin ReadOps
      BY <1>1, <3>1 DEF Fits, Puts, Writes, Removes, ReadOps
    <3>4. Does(e, t, Writes(e, c), Removes(e, c), c.op \in ReadOps)
      BY <3>1, <3>2, <3>3, OneDoes
    <3>5. QED
      BY <3>3, <3>4 DEF Does
  <2>3. QED
    BY <2>1, <2>2
<1>5. Does(e, u, Stored(e.keys), K, FALSE)
  <2>1. CASE K = {}
    <3>1. u = t
      BY <1>3, <2>1, ConcatEmptySeq DEF Some, Then, Tidy
    <3> HIDE DEF u, t
    <3>2. QED
      BY <1>4, <2>1, <3>1
  <2>2. CASE K # {}
    <3> HIDE DEF t
    <3>1. /\ "del" \in OpNames /\ d.op = "del" /\ d.keys = K /\ d \in Op
          /\ t \in Seq(Op) /\ Proper(e, t) /\ Plain(t)
      BY <1>2, <1>3, DoType DEF OpNames, Tidy
    <3> HIDE DEF d
    <3>2. /\ Writes(e, d) = {} /\ Removes(e, d) = K /\ Puts(d) = {}
          /\ d.op \notin ReadOps
      BY <1>2, <3>1 DEF Writes, Removes, Puts, ReadOps
    <3>3. Fits(e, d)
      BY <1>1, <1>2, <3>1 DEF Fits
    <3>4. First(e, d, t)
      <4>1. \A i \in 1 .. Len(t) : Before(e, d, t[i])
        BY <3>1, <3>2 DEF Before, Plain, PlainOps
      <4>2. QED
        BY <3>1, <3>2, <4>1 DEF First
    <3> HIDE DEF K
    <3>5. /\ Orderly(e, u)
          /\ u \in Seq(Op)
          /\ Joined(e, d, t, u)
      BY <1>2, <2>2, <3>1, <3>3, <3>4, SomeEffect DEF d
    <3> HIDE DEF u
    <3>6. QED
      BY <1>4, <3>2, <3>5 DEF Does, Joined
  <2>3. QED
    BY <2>1, <2>2
<1>6. QED
  BY <1>4, <1>5 DEF Del, Then
-----------------------------------------------------------------------------
(* The steps of a task. *)

\* Only worker w makes a step; it keeps its event, has operations in order, and is left
\* to write W, to remove R, and to read if d.
Stepped(w, W, R, d) ==
    /\ \A v \in Workers \ {w} : work'[v] = work[v]
    /\ work'[w].ev = work[w].ev
    /\ work'[w].n = work[w].n
    /\ work'[w].prior = work[w].prior
    /\ InOrder(work'[w].ev, work'[w].cur, work'[w].rest)
    /\ ToWrite(work'[w]) = W
    /\ ToRemove(work'[w]) = R
    /\ ToRead(work'[w]) <=> d

\* w goes on with its next operation, or is in the middle of the one it has begun.
MovesOn(w) ==
    LET r == work[w] IN
    /\ Stepped(w, AllWrites(r.ev, r.rest), AllRemoves(r.ev, r.rest), Reading(r.rest))
    /\ work'[w].cur.op \notin OnlyFirst

\* The commands that change Redis.
Changes(w) == Mset(w) \/ Sadd(w) \/ Delete(w) \/ Srem(w) \/ Hset(w) \/ Hdel(w)

\* A worker that follows the operations ops has made a step.
LEMMA FollowsStepped ==
    ASSUME work \in [Workers -> Work], NEW w \in Workers, NEW x, NEW ops,
           Follows(work[w], x, ops), work' = [work EXCEPT ![w] = x]
    PROVE  /\ Stepped(w, AllWrites(work[w].ev, ops), AllRemoves(work[w].ev, ops), Reading(ops))
           /\ work'[w] = x
<1>1. work'[w] = x /\ \A v \in Workers \ {w} : work'[v] = work[v]
  OBVIOUS
<1>2. QED
  BY <1>1 DEF Follows, Stepped

\* A task that changes Redis moves on.
LEMMA ChangesMovesOn ==
    ASSUME TypeInv, NEW w \in Workers, TaskOK(work[w]), Changes(w)
    PROVE  MovesOn(w) /\ work'[w].old = work[w].old /\ ~Hdel(w)
<1> DEFINE r == work[w]
           K == work[w].cur.keys
<1>1. /\ work \in [Workers -> Work] /\ work[w] \in Work
      /\ K \in SUBSET AnyKeys /\ work[w].cur.left \in SUBSET Indexes
      /\ InOrder(work[w].ev, work[w].cur, work[w].rest)
  BY CurKeys DEF TypeInv, TypeOK, TaskOK
<1>2. ASSUME NEW x, Follows(r, x, r.rest), x.old = r.old, x.cur.op \notin OnlyFirst,
             work' = [work EXCEPT ![w] = x]
      PROVE  MovesOn(w) /\ work'[w].old = work[w].old
  BY <1>1, <1>2, FollowsStepped DEF MovesOn
<1>3. ASSUME NEW op, NEW left \in SUBSET Indexes,
             \/ op = "sadd" /\ work[w].cur.op \in {"set", "sadd"}
             \/ op = "srem" /\ work[w].cur.op \in {"del", "srem"},
             work' = [work EXCEPT ![w] = Remaining(w, op, left)]
      PROVE  MovesOn(w) /\ work'[w].old = work[w].old
  BY <1>1, <1>2, <1>3, RemainingFollows
<1>4. ~Hdel(w)
  BY <1>1 DEF Hdel, At, InOrder, Fits
<1>5. CASE Mset(w)
  BY <1>1, <1>3, <1>4, <1>5, MemberIndexesType DEF Mset, At
<1>6. CASE Delete(w)
  BY <1>1, <1>3, <1>4, <1>6, MemberIndexesType DEF Delete, At
<1>7. CASE Sadd(w)
  <2>1. PICK i \in work[w].cur.left :
          work' = [work EXCEPT ![w] = Remaining(w, "sadd", work[w].cur.left \ {i})]
    BY <1>7 DEF Sadd
  <2>2. work[w].cur.left \ {i} \in SUBSET Indexes /\ work[w].cur.op = "sadd"
    BY <1>1, <1>7 DEF Sadd, At
  <2>3. QED
    BY <1>3, <1>4, <2>1, <2>2
<1>8. CASE Srem(w)
  <2>1. PICK i \in work[w].cur.left :
          work' = [work EXCEPT ![w] = Remaining(w, "srem", work[w].cur.left \ {i})]
    BY <1>8 DEF Srem
  <2>2. work[w].cur.left \ {i} \in SUBSET Indexes /\ work[w].cur.op = "srem"
    BY <1>1, <1>8 DEF Srem, At
  <2>3. QED
    BY <1>3, <1>4, <2>1, <2>2
<1>9. CASE Hset(w)
  <2>1. work' = [work EXCEPT ![w] = GoOn(w, work[w].rest)]
    BY <1>9 DEF Hset
  <2>2. QED
    BY <1>1, <1>2, <1>4, <2>1, RestFollows
<1>10. QED
  BY <1>4, <1>5, <1>6, <1>7, <1>8, <1>9 DEF Changes

\* A task that has read goes on with what the read makes it do.
LEMMA ReadStepped ==
    ASSUME TypeInv, NEW w \in Workers, NEW r, NEW ops, NEW W, NEW R, NEW d,
           ReadOld(w, r, ops), Does(work[w].ev, ops, W, R, d)
    PROVE  /\ Stepped(w, W, R, d)
           /\ work'[w].old = r
           /\ work'[w].cur = IF ops = <<>> THEN Nop ELSE Head(ops)
           /\ UNCHANGED <<redis, received, guild_events, aux>>
<1> DEFINE g == GoOn(w, ops)
           x == [g EXCEPT !.old = r]
<1>1. work \in [Workers -> Work] /\ work[w] \in Work
  BY DEF TypeInv, TypeOK
<1>2. /\ Follows(work[w], g, ops) /\ g \in Work
      /\ g.cur = IF ops = <<>> THEN Nop ELSE Head(ops)
  BY <1>1, GoOnFollows DEF Does
<1>3. work' = [work EXCEPT ![w] = x] /\ UNCHANGED <<redis, received, guild_events, aux>>
  BY DEF ReadOld
<1> HIDE DEF g
<1>4. /\ x.ev = g.ev /\ x.n = g.n /\ x.prior = g.prior /\ x.cur = g.cur /\ x.rest = g.rest
      /\ x.old = r
  BY <1>2 DEF Work
<1> HIDE DEF x
<1>5. Follows(work[w], x, ops)
  BY <1>2, <1>4 DEF Follows, ToWrite, ToRemove, ToRead
<1>6. Stepped(w, AllWrites(work[w].ev, ops), AllRemoves(work[w].ev, ops), Reading(ops))
      /\ work'[w] = x
  BY <1>1, <1>3, <1>5, FollowsStepped
<1>7. Stepped(w, W, R, d)
  BY <1>6 DEF Does, Stepped
<1>8. QED
  BY <1>2, <1>3, <1>4, <1>6, <1>7

\* The event of a task that clears a guild, or updates its emojis.
LEMMA TaskEvent ==
    ASSUME TypeInv, NEW w \in Workers, TaskOK(work[w])
    PROVE  /\ work[w] \in Work /\ work[w].cur \in Op /\ work[w].rest \in Seq(Op)
           /\ InOrder(work[w].ev, work[w].cur, work[w].rest) /\ Fits(work[w].ev, work[w].cur)
           /\ work[w].ev.kind # "none" =>
                 /\ work[w].ev \in Events /\ work[w].ev \in Event
                 /\ WellFormed(work[w].ev) /\ EventOK(work[w].ev)
           /\ Does(work[w].ev, work[w].rest, AllWrites(work[w].ev, work[w].rest),
                   AllRemoves(work[w].ev, work[w].rest), Reading(work[w].rest))
<1>1. work[w] \in Work /\ work[w].cur \in Op /\ work[w].rest \in Seq(Op)
  BY DEF TypeInv, TypeOK, Work
<1>2. InOrder(work[w].ev, work[w].cur, work[w].rest) /\ Fits(work[w].ev, work[w].cur)
  BY DEF TaskOK, InOrder
<1>3. work[w].ev.kind # "none" => /\ work[w].ev \in Events /\ work[w].ev \in Event
                                  /\ WellFormed(work[w].ev)
  BY NoEventOK DEF TaskOK, Events
<1>4. Orderly(work[w].ev, work[w].rest)
  BY <1>1, <1>2, RestProper
<1>5. QED
  BY <1>1, <1>2, <1>3, <1>4, WellFormedOK DEF Does

\* The reads of an old value move on.
LEMMA GetMovesOn ==
    ASSUME TypeInv, NEW w \in Workers, TaskOK(work[w]), Get(w) \/ GetAll(w)
    PROVE  /\ MovesOn(w)
           /\ UNCHANGED <<redis, received, guild_events, aux>>
           /\ work'[w].old = IF At(w, "get") \/ state_old
                             THEN Found(store, work[w].cur.keys) ELSE {}
<1> DEFINE e == work[w].ev
           t == work[w].rest
           r == IF At(w, "get") \/ state_old THEN Found(store, work[w].cur.keys) ELSE {}
<1>1. ReadOld(w, r, t)
  BY DEF Get, GetAll, At
<1>2. Does(e, t, AllWrites(e, t), AllRemoves(e, t), Reading(t))
  BY TaskEvent
<1> HIDE DEF r
<1>3. /\ Stepped(w, AllWrites(e, t), AllRemoves(e, t), Reading(t))
      /\ work'[w].old = r
      /\ work'[w].cur = IF t = <<>> THEN Nop ELSE Head(t)
      /\ UNCHANGED <<redis, received, guild_events, aux>>
  BY <1>1, <1>2, ReadStepped
<1>4. work'[w].cur.op \notin OnlyFirst
  BY <1>3, TaskEvent, NotFirst, NopPlanned DEF OnlyFirst
<1>5. QED
  BY <1>3, <1>4 DEF MovesOn, r

\* An object that is to be modified and is absent ends the update.
LEMMA ModifyStepped ==
    ASSUME TypeInv, NEW w \in Workers, TaskOK(work[w]), Modify(w)
    PROVE  /\ Found(store, work[w].cur.keys) = {} => Stepped(w, {}, {}, FALSE) /\ work'[w].cur = Nop
           /\ Found(store, work[w].cur.keys) # {} => MovesOn(w)
           /\ UNCHANGED <<redis, received, guild_events, aux>>
           /\ work'[w].old = IF state_old /\ work[w].ev.kind # "ChannelPinsUpdate"
                             THEN Found(store, work[w].cur.keys) ELSE {}
<1> DEFINE e == work[w].ev
           t == work[w].rest
           f == Found(store, work[w].cur.keys)
           r == IF state_old /\ e.kind # "ChannelPinsUpdate" THEN f ELSE {}
<1>1. ReadOld(w, r, IF f = {} THEN <<>> ELSE t)
  BY DEF Modify
<1>2. Does(e, t, AllWrites(e, t), AllRemoves(e, t), Reading(t))
  BY TaskEvent
<1>3. Does(e, <<>>, {}, {}, FALSE)
  BY NoneProper DEF Does
<1> HIDE DEF r, f
<1>4. CASE f = {}
  <2>1. ReadOld(w, r, <<>>)
    BY <1>1, <1>4
  <2>2. /\ Stepped(w, {}, {}, FALSE)
        /\ work'[w].old = r
        /\ work'[w].cur = Nop
        /\ UNCHANGED <<redis, received, guild_events, aux>>
    BY <1>3, <2>1, ReadStepped
  <2>3. QED
    BY <1>4, <2>2 DEF r, f
<1>5. CASE f # {}
  <2>1. ReadOld(w, r, t)
    BY <1>1, <1>5
  <2>2. /\ Stepped(w, AllWrites(e, t), AllRemoves(e, t), Reading(t))
        /\ work'[w].old = r
        /\ work'[w].cur = IF t = <<>> THEN Nop ELSE Head(t)
        /\ UNCHANGED <<redis, received, guild_events, aux>>
    BY <1>2, <2>1, ReadStepped
  <2>3. work'[w].cur.op \notin OnlyFirst
    BY <2>2, TaskEvent, NotFirst, NopPlanned DEF OnlyFirst
  <2>4. QED
    BY <1>5, <2>2, <2>3 DEF MovesOn, r, f
<1>6. QED
  BY <1>4, <1>5

\* A guild's helper set names stored keys of the guild, and of the emojis only emojis.
LEMMA GuildSet ==
    ASSUME TypeInv, GuildSetsSound, NEW g \in Guilds, NEW M, M = idx[<<"guild", g>>]
    PROVE  /\ M \in SUBSET StoredKeys /\ M \in SUBSET AnyKeys /\ Stored(M) = M
           /\ M \subseteq Stored(GuildItems(g))
           /\ Of("emoji", M) \subseteq GuildKeysOf("emoji", g)
           /\ <<"guild", g>> \in Indexes
<1>1. M \in SUBSET StoredKeys /\ M \subseteq Stored(GuildItems(g)) /\ <<"guild", g>> \in Indexes
  BY DEF TypeInv, TypeOK, Indexes, GuildSetsSound
<1>2. \A s \in StoredKeys : StoredKey(s) = s
  BY StoredKeyIdempotent DEF StoredKeys, Stored
<1>3. Stored(M) = M
  BY <1>1, <1>2 DEF Stored
<1>4. ASSUME NEW s \in Of("emoji", M) PROVE s \in GuildKeysOf("emoji", g)
  <2>1. PICK k \in GuildItems(g) : s = StoredKey(k) /\ s[1] = "emoji"
    BY <1>1 DEF Of, Stored
  <2>2. k \in EventKeys
    BY DEF GuildItems
  <2>3. k \notin ChannelKeys
    <3>1. k \in ChannelKeys => StoredKey(k)[1] = "channel"
      BY KeyKinds DEF StoredKey
    <3>2. QED
      BY <2>1, <3>1
  <2>4. s = k
    BY <2>1, <2>2, <2>3, PlainKey
  <2>5. QED
    BY <2>1, <2>4 DEF GuildKeysOf
<1>5. QED
  BY <1>1, <1>3, <1>4 DEF AnyKeys

\* clear_guild has read the helper set of the guild.
LEMMA MembersStepped ==
    ASSUME TypeInv, NEW w \in Workers, TaskOK(work[w]), GuildSetsSound, GetMembers(w),
           NEW M, M = idx[<<"guild", work[w].ev.guild>>]
    PROVE  /\ work[w].ev.guild \in Guilds /\ work[w].ev.kind \in ClearKinds
           /\ Handled(work[w].ev) /\ work[w].ev \in Events
           /\ Stepped(w, AllWrites(work[w].ev, work[w].rest),
                      M \cup AllRemoves(work[w].ev, work[w].rest), Reading(work[w].rest))
           /\ work'[w].old = {}
           /\ UNCHANGED <<redis, received, guild_events, aux>>
<1> DEFINE e == work[w].ev
           t == work[w].rest
           c == work[w].cur
<1>1. /\ c.op = "members" /\ c \in Op /\ t \in Seq(Op) /\ InOrder(e, c, t) /\ Fits(e, c)
  BY TaskEvent DEF GetMembers, At
<1>2. Handled(e) /\ e.kind \in ClearKinds /\ e \in Events /\ EventOK(e)
  BY <1>1, TaskEvent DEF Fits, ClearKinds
<1>3. e.guild \in Guilds
  BY <1>2 DEF EventOK, ClearKinds, GuildWide
<1>4. /\ M \in SUBSET AnyKeys /\ Stored(M) = M /\ M \subseteq Stored(GuildItems(e.guild))
  BY <1>3, GuildSet
<1>5. Removes(e, c) = Stored(GuildItems(e.guild))
  BY <1>1 DEF Removes
<1>6. Stored(GuildItems(e.guild)) \subseteq Stored(Erased(e))
  BY <1>2 DEF Erased, Stored, ClearKinds
<1>7. Does(e, Del(M) \o t, AllWrites(e, t), Stored(M) \cup AllRemoves(e, t), Reading(t))
  BY <1>1, <1>4, <1>5, <1>6, DelThen
<1>8. ReadOld(w, {}, Del(M) \o t)
  BY DEF GetMembers
<1> DEFINE u == Del(M) \o t
<1> HIDE DEF u
<1>9. /\ Stepped(w, AllWrites(e, t), M \cup AllRemoves(e, t), Reading(t))
      /\ work'[w].old = {}
      /\ UNCHANGED <<redis, received, guild_events, aux>>
  BY <1>4, <1>7, <1>8, ReadStepped DEF u
<1>10. QED
  BY <1>2, <1>3, <1>9

\* clear_guild has read the record of the guild.
LEMMA ClearStepped ==
    ASSUME TypeInv, NEW w \in Workers, TaskOK(work[w]), ClearGet(w)
    PROVE  /\ work[w].ev.kind \in ClearKinds /\ Handled(work[w].ev) /\ work[w].ev \in Events
           /\ work[w].cur.keys = {guild_key(work[w].ev.guild)}
           /\ Stepped(w, AllWrites(work[w].ev, work[w].rest),
                      Stored(work[w].cur.keys) \cup AllRemoves(work[w].ev, work[w].rest),
                      Reading(work[w].rest))
           /\ work'[w].old = Found(store, work[w].cur.keys)
           /\ UNCHANGED <<redis, received, guild_events, aux>>
<1> DEFINE e == work[w].ev
           t == work[w].rest
           c == work[w].cur
           K == work[w].cur.keys
<1>1. /\ c.op = "clear" /\ c \in Op /\ t \in Seq(Op) /\ InOrder(e, c, t) /\ Fits(e, c)
      /\ K \in SUBSET AnyKeys
  BY TaskEvent, CurKeys DEF ClearGet, At
<1>2. Handled(e) /\ e.kind \in ClearKinds /\ e \in Events /\ EventOK(e)
      /\ K = {guild_key(e.guild)}
  BY <1>1, TaskEvent DEF Fits, ClearKinds
<1>3. Removes(e, c) = Stored(K)
  BY <1>1 DEF Removes
<1>4. Stored(K) \subseteq Stored(Erased(e))
  BY <1>2 DEF Erased, Stored, ClearKinds
<1>5. Does(e, Del(K) \o t, AllWrites(e, t), Stored(K) \cup AllRemoves(e, t), Reading(t))
  BY <1>1, <1>3, <1>4, DelThen
<1>6. ReadOld(w, Found(store, K), Del(K) \o t)
  BY DEF ClearGet
<1> DEFINE u == Del(K) \o t
           f == Found(store, K)
<1> HIDE DEF u, f
<1>7. /\ Stepped(w, AllWrites(e, t), Stored(K) \cup AllRemoves(e, t), Reading(t))
      /\ work'[w].old = f
      /\ UNCHANGED <<redis, received, guild_events, aux>>
  BY <1>5, <1>6, ReadStepped DEF u, f
<1>8. QED
  BY <1>2, <1>7 DEF f

\* GuildEmojisUpdate has read the helper set of the guild.
LEMMA EmojiKeysStepped ==
    ASSUME TypeInv, NEW w \in Workers, TaskOK(work[w]), GuildSetsSound, GetEmojiKeys(w),
           NEW K, K = Of("emoji", idx[<<"guild", work[w].ev.guild>>])
    PROVE  /\ work[w].ev.guild \in Guilds /\ work[w].ev.kind = "GuildEmojisUpdate"
           /\ Handled(work[w].ev) /\ work[w].ev \in Events /\ work[w].rest = <<>>
           /\ Stepped(w, Stored(work[w].ev.keys), K \ work[w].ev.keys, K # {})
           /\ work'[w].old = {}
           /\ K # {} => work'[w].cur = Do("emojis", K) /\ work'[w].cur.op = "emojis"
                        /\ work'[w].cur.keys = K
           /\ K = {} => work'[w].cur.op # "emojis"
           /\ UNCHANGED <<redis, received, guild_events, aux>>
<1> DEFINE e == work[w].ev
           t == work[w].rest
           c == work[w].cur
           d == Do("emojis", K)
<1>1. /\ c.op = "emoji_keys" /\ c \in Op /\ t \in Seq(Op) /\ InOrder(e, c, t) /\ Fits(e, c)
  BY TaskEvent DEF GetEmojiKeys, At
<1>2. /\ Handled(e) /\ e.kind = "GuildEmojisUpdate" /\ e \in Events /\ EventOK(e)
      /\ e \in Event /\ WellFormed(e)
  BY <1>1, TaskEvent DEF Fits
<1>3. e.guild \in Guilds /\ t = <<>>
  BY <1>1, <1>2, LastInOrder DEF EventOK, GuildWide
<1>4. K \subseteq GuildKeysOf("emoji", e.guild) /\ K \in SUBSET AnyKeys
  BY <1>3, GuildSet DEF Of
<1>5. ReadOld(w, {}, IF K = {} THEN Set(e.keys) ELSE <<d>>)
  BY DEF GetEmojiKeys
<1>6. CASE K = {}
  <2> DEFINE u == Set(e.keys)
  <2>1. Does(e, u, Stored(e.keys), {}, FALSE)
    BY <1>2, EmojisDone
  <2>2. u = <<>> \/ (u # <<>> /\ Head(u).op = "set")
    BY DEF Set, Some, Do
  <2> HIDE DEF u
  <2>3. ReadOld(w, {}, u)
    BY <1>5, <1>6 DEF u
  <2>4. /\ Stepped(w, Stored(e.keys), {}, FALSE)
        /\ work'[w].old = {}
        /\ work'[w].cur = IF u = <<>> THEN Nop ELSE Head(u)
        /\ UNCHANGED <<redis, received, guild_events, aux>>
    BY <2>1, <2>3, ReadStepped
  <2>5. work'[w].cur.op # "emojis"
    BY <2>2, <2>4, NopPlanned
  <2>6. Stepped(w, Stored(e.keys), K \ e.keys, K # {})
    BY <1>6, <2>4
  <2>7. QED
    BY <1>2, <1>3, <1>6, <2>4, <2>5, <2>6
<1>7. CASE K # {}
  <2>1. d \in Op /\ d.op = "emojis" /\ d.keys = K
    BY <1>4, DoType DEF OpNames
  <2> HIDE DEF d
  <2>2. /\ Fits(e, d) /\ Puts(d) = {} /\ d.op \notin {"modify", "members"}
        /\ Writes(e, d) = Stored(e.keys) /\ Removes(e, d) = K \ e.keys /\ d.op \in ReadOps
    BY <1>2, <1>4, <2>1 DEF Fits, Puts, Writes, Removes, ReadOps
  <2>3. Does(e, <<d>>, Stored(e.keys), K \ e.keys, TRUE)
    BY <2>1, <2>2, OneDoes DEF Does
  <2>4. ReadOld(w, {}, <<d>>)
    BY <1>5, <1>7
  <2> DEFINE u == <<d>>
  <2>5. u # <<>> /\ Head(u) = d
    OBVIOUS
  <2> HIDE DEF u
  <2>6. /\ Stepped(w, Stored(e.keys), K \ e.keys, TRUE)
        /\ work'[w].old = {}
        /\ work'[w].cur = IF u = <<>> THEN Nop ELSE Head(u)
        /\ UNCHANGED <<redis, received, guild_events, aux>>
    BY <2>3, <2>4, ReadStepped DEF u
  <2>7. Stepped(w, Stored(e.keys), K \ e.keys, K # {})
    BY <1>7, <2>6
  <2>8. QED
    BY <1>2, <1>3, <1>7, <2>1, <2>5, <2>6, <2>7 DEF d
<1>8. QED
  BY <1>6, <1>7

\* GuildEmojisUpdate has read the emojis of the guild.
LEMMA EmojisStepped ==
    ASSUME TypeInv, NEW w \in Workers, TaskOK(work[w]), GetEmojis(w),
           NEW F, F = {k \in work[w].cur.keys : store[k] # Nil}
    PROVE  /\ work[w].ev.kind = "GuildEmojisUpdate"
           /\ Handled(work[w].ev) /\ work[w].ev \in Events /\ work[w].rest = <<>>
           /\ work[w].cur.keys \subseteq GuildKeysOf("emoji", work[w].ev.guild)
           /\ Stepped(w, Stored(work[w].ev.keys), F \ work[w].ev.keys, FALSE)
           /\ work'[w].old = IF state_old THEN Found(store, F) ELSE {}
           /\ UNCHANGED <<redis, received, guild_events, aux>>
<1> DEFINE e == work[w].ev
           t == work[w].rest
           c == work[w].cur
           u == Del(F \ e.keys) \o Set(e.keys)
           r == IF state_old THEN Found(store, F) ELSE {}
<1>1. /\ c.op = "emojis" /\ c \in Op /\ t \in Seq(Op) /\ InOrder(e, c, t) /\ Fits(e, c)
  BY TaskEvent DEF GetEmojis, At
<1>2. /\ Handled(e) /\ e.kind = "GuildEmojisUpdate" /\ e \in Events
      /\ e \in Event /\ WellFormed(e) /\ t = <<>>
      /\ c.keys \subseteq GuildKeysOf("emoji", e.guild)
  BY <1>1, TaskEvent, LastInOrder DEF Fits
<1>3. F \in SUBSET GuildKeysOf("emoji", e.guild)
  BY <1>2
<1>4. Does(e, u, Stored(e.keys), F \ e.keys, FALSE)
  BY <1>2, <1>3, EmojisDone
<1>5. ReadOld(w, r, u)
  BY DEF GetEmojis
<1> HIDE DEF u, r
<1>6. /\ Stepped(w, Stored(e.keys), F \ e.keys, FALSE)
      /\ work'[w].old = r
      /\ UNCHANGED <<redis, received, guild_events, aux>>
  BY <1>4, <1>5, ReadStepped
<1>7. QED
  BY <1>2, <1>6 DEF r
-----------------------------------------------------------------------------
(* Steady and GuildSetsSound are invariants. *)

\* A task that makes a step keeps its operations in order.
LEMMA SteppedSteady ==
    ASSUME Steady, NEW w \in Workers \ {Purge}, NEW W, NEW R, NEW d, Stepped(w, W, R, d)
    PROVE  Steady'
<1>1. TaskOK(work'[w])
  BY DEF Steady, TaskOK, Stepped
<1>2. \A v \in Workers \ {w} : work'[v] = work[v]
  BY DEF Stepped
<1>3. QED
  BY <1>1, <1>2 DEF Steady

\* A task's reads keep its operations in order.
LEMMA ReadsSteady ==
    ASSUME TypeInv, Steady, GuildSetsSound, NEW w \in Workers \ {Purge}, Reads(w)
    PROVE  Steady' /\ UNCHANGED <<redis, received, guild_events, aux>>
<1>1. TaskOK(work[w])
  BY DEF Steady
<1>2. CASE Get(w) \/ GetAll(w)
  BY <1>1, <1>2, GetMovesOn, SteppedSteady DEF MovesOn
<1>3. CASE Modify(w)
  BY <1>1, <1>3, ModifyStepped, SteppedSteady DEF MovesOn
<1>4. CASE GetMembers(w)
  BY <1>1, <1>4, MembersStepped, SteppedSteady
<1>5. CASE ClearGet(w)
  BY <1>1, <1>5, ClearStepped, SteppedSteady
<1>6. CASE GetEmojiKeys(w)
  BY <1>1, <1>6, EmojiKeysStepped, SteppedSteady
<1>7. CASE GetEmojis(w)
  BY <1>1, <1>7, EmojisStepped, SteppedSteady
<1>8. QED
  BY <1>2, <1>3, <1>4, <1>5, <1>6, <1>7 DEF Reads

\* The purge makes no read and writes nothing: it deletes, and it deletes expiries.
LEMMA PurgeStep ==
    ASSUME TypeInv, Steady, Command(Purge)
    PROVE  /\ Delete(Purge) \/ Srem(Purge) \/ Hdel(Purge)
           /\ PurgeOK(work'[Purge])
           /\ \A v \in Workers \ {Purge} : work'[v] = work[v]
           /\ Steady'
           /\ Delete(Purge) \/ Srem(Purge) =>
                 /\ work'[Purge].cur.op \in {"srem", "hdel"}
                 /\ work'[Purge].cur.keys = work[Purge].cur.keys
           /\ Hdel(Purge) => work'[Purge].cur.op = "nop"
<1> DEFINE r == work[Purge]
           K == r.cur.keys
           h == Do("hdel", K)
<1>1. Purge \in Workers /\ work \in [Workers -> Work] /\ r \in Work /\ PurgeOK(r)
      /\ K \in SUBSET AnyKeys /\ r.cur.left \in SUBSET Indexes
  BY CurKeys DEF Workers, TypeInv, TypeOK, Steady
<1>2. Delete(Purge) \/ Srem(Purge) \/ Hdel(Purge)
  BY <1>1 DEF Command, PurgeOK, Mset, Sadd, Hset, Get, GetAll, Modify, GetMembers, ClearGet,
              GetEmojiKeys, GetEmojis, At
<1>3. h \in Op /\ h.op = "hdel" /\ h.keys = K
  BY <1>1, DoType DEF OpNames
<1>4. ASSUME NEW left \in SUBSET Indexes, r.cur.op \in {"del", "srem"},
             work' = [work EXCEPT ![Purge] = Remaining(Purge, "srem", left)]
      PROVE  /\ PurgeOK(work'[Purge])
             /\ work'[Purge].cur.op \in {"srem", "hdel"}
             /\ work'[Purge].cur.keys = K
             /\ \A v \in Workers \ {Purge} : work'[v] = work[v]
  <2>1. r.rest = <<h>> /\ K \subseteq ExpiryKeys /\ r.ev = NoEvent
    BY <1>1, <1>4 DEF PurgeOK
  <2>2. work'[Purge] = Remaining(Purge, "srem", left)
        /\ \A v \in Workers \ {Purge} : work'[v] = work[v]
    BY <1>1, <1>4
  <2>3. CASE left = {}
    <3>1. work'[Purge] = [r EXCEPT !.cur = h, !.rest = <<>>]
      BY <2>1, <2>2, <2>3 DEF Remaining, GoOn
    <3>2. work'[Purge].cur = h /\ work'[Purge].rest = <<>> /\ work'[Purge].ev = NoEvent
      BY <1>1, <2>1, <3>1 DEF Work
    <3> HIDE DEF h
    <3>3. QED
      BY <1>3, <2>1, <2>2, <3>2 DEF PurgeOK
  <2>4. CASE left # {}
    <3> DEFINE c == [op |-> "srem", keys |-> K, left |-> left]
    <3>1. work'[Purge] = [r EXCEPT !.cur = c]
      BY <2>2, <2>4 DEF Remaining
    <3>2. c.op = "srem" /\ c.keys = K
      OBVIOUS
    <3> HIDE DEF c
    <3>3. work'[Purge].cur = c /\ work'[Purge].rest = <<h>> /\ work'[Purge].ev = NoEvent
      BY <1>1, <2>1, <3>1 DEF Work
    <3>4. QED
      BY <2>1, <2>2, <3>2, <3>3 DEF PurgeOK
  <2>5. QED
    BY <2>3, <2>4
<1>5. CASE Delete(Purge)
  <2>1. MemberIndexes(K) \in SUBSET Indexes /\ r.cur.op = "del"
    BY <1>1, <1>5, MemberIndexesType DEF Delete, At
  <2>2. work' = [work EXCEPT ![Purge] = Remaining(Purge, "srem", MemberIndexes(K))]
    BY <1>5 DEF Delete
  <2>3. ~Hdel(Purge)
    BY <2>1 DEF Hdel, At
  <2>4. QED
    BY <1>4, <1>5, <2>1, <2>2, <2>3 DEF Steady
<1>6. CASE Srem(Purge)
  <2>1. PICK i \in r.cur.left :
          work' = [work EXCEPT ![Purge] = Remaining(Purge, "srem", r.cur.left \ {i})]
    BY <1>6 DEF Srem
  <2>2. r.cur.left \ {i} \in SUBSET Indexes /\ r.cur.op = "srem"
    BY <1>1, <1>6 DEF Srem, At
  <2>3. ~Hdel(Purge)
    BY <2>2 DEF Hdel, At
  <2>4. QED
    BY <1>4, <1>6, <2>1, <2>2, <2>3 DEF Steady
<1>7. CASE Hdel(Purge)
  <2>1. r.cur.op = "hdel" /\ work' = [work EXCEPT ![Purge] = GoOn(Purge, r.rest)]
    BY <1>7 DEF Hdel, At
  <2>2. r.rest = <<>> /\ r.ev = NoEvent
    BY <1>1, <2>1 DEF PurgeOK
  <2>3. GoOn(Purge, r.rest) = [r EXCEPT !.cur = Nop, !.rest = <<>>]
    BY <2>2 DEF GoOn
  <2>4. work'[Purge].cur = Nop /\ work'[Purge].rest = <<>> /\ work'[Purge].ev = NoEvent
        /\ \A v \in Workers \ {Purge} : work'[v] = work[v]
    BY <1>1, <2>1, <2>2, <2>3 DEF Work
  <2>5. Nop.op = "nop" /\ Nop.keys = {}
    BY DEF Nop, Do
  <2>6. PurgeOK(work'[Purge])
    BY <2>4, <2>5 DEF PurgeOK
  <2>7. ~Delete(Purge) /\ ~Srem(Purge)
    BY <2>1 DEF Delete, Srem, At
  <2>8. QED
    BY <1>7, <2>4, <2>5, <2>6, <2>7 DEF Steady
<1>8. QED
  BY <1>2, <1>5, <1>6, <1>7

\* An idle worker is in order.
LEMMA IdleSteady ==
    /\ TaskOK(Idle) /\ PurgeOK(Idle)
    /\ Idle.ev = NoEvent /\ Idle.cur = Nop /\ Idle.cur.op = "nop" /\ Idle.prior = {}
<1>1. /\ Idle.ev = NoEvent /\ Idle.cur = Nop /\ Idle.rest = <<>> /\ Nop.op = "nop"
      /\ Nop.keys = {} /\ Idle.prior = {}
  BY DEF Idle, Nop, Do
<1>2. QED
  BY <1>1, NopInOrder DEF TaskOK, PurgeOK

\* The failure of a command: clear_guild goes on, any other update is over.
LEMMA FailStepped ==
    ASSUME TypeInv, NEW w \in Workers, TaskOK(work[w]), Fail(w)
    PROVE  IF At(w, "members") \/ At(w, "clear")
           THEN MovesOn(w) /\ work'[w].old = work[w].old
           ELSE Stepped(w, {}, {}, FALSE) /\ work'[w].old = {} /\ work'[w].cur.op = "nop"
<1> DEFINE r == work[w]
           g == GoOn(w, r.rest)
           h == GoOn(w, <<>>)
           x == [h EXCEPT !.old = {}]
<1>0. work \in [Workers -> Work] /\ r \in Work /\ InOrder(r.ev, r.cur, r.rest)
  BY TaskEvent DEF TypeInv, TypeOK
<1>1. CASE At(w, "members") \/ At(w, "clear")
  <2>1. work' = [work EXCEPT ![w] = g]
    BY <1>1 DEF Fail
  <2>2. Follows(r, g, r.rest) /\ g.old = r.old /\ g.cur.op \notin OnlyFirst
    BY <1>0, RestFollows
  <2> HIDE DEF g
  <2>3. /\ Stepped(w, AllWrites(r.ev, r.rest), AllRemoves(r.ev, r.rest), Reading(r.rest))
        /\ work'[w] = g
    BY <1>0, <2>1, <2>2, FollowsStepped
  <2>4. QED
    BY <1>1, <2>2, <2>3 DEF MovesOn
<1>2. CASE ~(At(w, "members") \/ At(w, "clear"))
  <2>1. work' = [work EXCEPT ![w] = x]
    BY <1>2 DEF Fail
  <2>2. Follows(r, h, <<>>) /\ h \in Work /\ h.cur = Nop
    BY <1>0, NoneProper, GoOnFollows
  <2> HIDE DEF h
  <2>3. /\ x.ev = h.ev /\ x.n = h.n /\ x.prior = h.prior /\ x.cur = h.cur /\ x.rest = h.rest
        /\ x.old = {}
    BY <2>2 DEF Work
  <2> HIDE DEF x
  <2>4. Follows(r, x, <<>>)
    BY <2>2, <2>3 DEF Follows, ToWrite, ToRemove, ToRead
  <2>5. /\ Stepped(w, AllWrites(r.ev, <<>>), AllRemoves(r.ev, <<>>), Reading(<<>>))
        /\ work'[w] = x
    BY <1>0, <2>1, <2>4, FollowsStepped
  <2>6. Stepped(w, {}, {}, FALSE)
    BY <2>5, NoneProper DEF Stepped
  <2>7. QED
    BY <1>2, <2>2, <2>3, <2>5, <2>6, NopPlanned
<1>3. QED
  BY <1>1, <1>2

\* The failure of a command of the purge ends it.
LEMMA PurgeFails ==
    ASSUME TypeInv, Steady, Fail(Purge)
    PROVE  /\ PurgeOK(work'[Purge]) /\ work'[Purge].cur.op = "nop"
           /\ \A v \in Workers \ {Purge} : work'[v] = work[v]
<1> DEFINE r == work[Purge]
           h == GoOn(Purge, <<>>)
           x == [h EXCEPT !.old = {}]
<1>1. Purge \in Workers /\ work \in [Workers -> Work] /\ r \in Work /\ PurgeOK(r)
  BY DEF Workers, TypeInv, TypeOK, Steady
<1>2. work' = [work EXCEPT ![Purge] = x]
  BY <1>1 DEF Fail, At, PurgeOK
<1>3. h = [r EXCEPT !.cur = Nop, !.rest = <<>>]
  BY DEF GoOn
<1>4. Nop.op = "nop" /\ Nop.keys = {}
  BY DEF Nop, Do
<1> HIDE DEF h
<1>5. x.ev = NoEvent /\ x.cur = Nop /\ x.rest = <<>>
  BY <1>1, <1>3 DEF Work, PurgeOK
<1> HIDE DEF x
<1>6. work'[Purge] = x /\ \A v \in Workers \ {Purge} : work'[v] = work[v]
  BY <1>1, <1>2
<1>7. QED
  BY <1>4, <1>5, <1>6 DEF PurgeOK

\* An event taken off the stream is given to an idle task, or to the loop, with the
\* operations of its script.
LEMMA Received ==
    ASSUME TypeInv, NEW e \in Events, Receive(e)
    PROVE  \E w \in Workers \ {Purge} :
              /\ work[w] = Idle
              /\ \A v \in Workers \ {w} : work'[v] = work[v]
              /\ work'[w].ev = e /\ work'[w].n = received + 1
              /\ work'[w].old = {} /\ work'[w].prior = Holds(ref, OldOf(e))
              /\ TaskOK(work'[w])
              /\ ToWrite(work'[w]) = AllWrites(e, Script(e))
              /\ ToRemove(work'[w]) = AllRemoves(e, Script(e))
              /\ ToRead(work'[w]) <=> Reading(Script(e))
              /\ Updated(e) # {} => work'[w].cur.op = "modify"
              /\ work'[w].cur.op # "emojis" /\ work'[w].cur.op # "sadd"
              /\ ScriptOK(e, Script(e))
<1> DEFINE ops == Script(e)
           c == IF ops = <<>> THEN Nop ELSE Head(ops)
           t == IF ops = <<>> THEN <<>> ELSE Tail(ops)
           x == [ev |-> e, n |-> received + 1, cur |-> c, rest |-> t, old |-> {},
                 prior |-> Holds(ref, OldOf(e))]
<1>1. e \in Event /\ WellFormed(e) /\ e.kind # "none"
  BY StateCacheAssumption DEF Events, AllKinds
<1>2. ScriptOK(e, ops)
  BY <1>1, ScriptOrderly
<1> HIDE DEF ops
<1>3. c \in Op /\ t \in Seq(Op) /\ InOrder(e, c, t)
  BY <1>2, NopInOrder, OrderlyJoined DEF ScriptOK
<1>4. /\ Writes(e, c) \cup AllWrites(e, t) = AllWrites(e, ops)
      /\ Removes(e, c) \cup AllRemoves(e, t) = AllRemoves(e, ops)
      /\ (c.op \in ReadOps \/ Reading(t)) <=> Reading(ops)
  <2>1. CASE ops = <<>>
    <3>1. c = Nop /\ t = <<>> /\ "nop" \notin ReadOps
      BY <2>1 DEF ReadOps
    <3> HIDE DEF c, t
    <3>2. QED
      BY <2>1, <3>1, NopInOrder, NoneProper
  <2>2. CASE ops # <<>>
    <3>1. Joined(e, c, t, ops)
      BY <1>2, <2>2, OrderlyJoined DEF ScriptOK
    <3> HIDE DEF c, t
    <3>2. QED
      BY <3>1 DEF Joined
  <2>3. QED
    BY <2>1, <2>2
<1>5. Updated(e) # {} => c.op = "modify"
  BY <1>2 DEF ScriptOK
<1>6. c.op # "sadd" /\ c.op # "emojis"
  <2>1. EventOK(e)
    BY <1>1, WellFormedOK
  <2>2. c.op \notin UnderWay
    <3>1. ops \in Seq(Plan(e))
      BY <1>1, <2>1, ScriptPlanned DEF ops
    <3>2. c \in Plan(e)
      <4>1. CASE ops = <<>>
        BY <4>1, NopPlanned
      <4>2. CASE ops # <<>>
        BY <3>1, <4>2, HeadTailProperties
      <4>3. QED
        BY <4>1, <4>2
    <3>3. QED
      BY <3>2, PlannedNotUnderWay
  <2>3. c.op # "emojis"
    <3> SUFFICES ASSUME c.op = "emojis" PROVE FALSE
      OBVIOUS
    <3>1. Handled(e) /\ e.kind = "GuildEmojisUpdate"
      BY <1>3 DEF InOrder, Fits
    <3>2. ops = <<Do("emoji_keys", {guild_key(e.guild)})>>
      BY <3>1 DEF ops, Script, Arm, Some
    <3>3. c.op = "emoji_keys"
      BY <3>2 DEF Do
    <3>4. QED
      BY <3>3
  <2>4. QED
    BY <2>2, <2>3 DEF UnderWay
<1>7. PICK w \in Workers \ {Purge} : work[w] = Idle /\ work' = [work EXCEPT ![w] = x]
  BY StateCacheAssumption DEF Receive, Runners, Workers, ops, Loop, Purge
<1>8. x.ev = e /\ x.n = received + 1 /\ x.cur = c /\ x.rest = t /\ x.old = {}
      /\ x.prior = Holds(ref, OldOf(e))
  OBVIOUS
<1> HIDE DEF x, c, t
<1>9. work'[w] = x /\ \A v \in Workers \ {w} : work'[v] = work[v]
  BY <1>7 DEF TypeInv, TypeOK
<1>10. TaskOK(x)
  BY <1>3, <1>8 DEF TaskOK
<1>11. QED
  BY <1>2, <1>4, <1>5, <1>6, <1>7, <1>8, <1>9, <1>10 DEF ToWrite, ToRemove, ToRead, ops

\* SADD adds objects of the guild to its helper set.
LEMMA SaddSound ==
    ASSUME TypeInv, GuildSetsSound, NEW w \in Workers, Sadd(w)
    PROVE  GuildSetsSound'
<1> DEFINE K == work[w].cur.keys
<1>1. K \subseteq EventKeys /\ idx \in [Indexes -> SUBSET StoredKeys]
  BY DEF Sadd, At, TypeInv, TypeOK, RecOK, Plan
<1>2. PICK i \in work[w].cur.left : idx' = [idx EXCEPT ![i] = @ \cup MembersFor(K, i)]
  BY DEF Sadd
<1> SUFFICES ASSUME NEW g \in Guilds, NEW s \in idx'[<<"guild", g>>]
             PROVE  s \in Stored(GuildItems(g))
  BY DEF GuildSetsSound
<1>3. <<"guild", g>> \in Indexes
  BY DEF Indexes
<1>4. CASE s \in idx[<<"guild", g>>]
  BY <1>4 DEF GuildSetsSound
<1>5. CASE s \notin idx[<<"guild", g>>]
  <2>1. s \in MembersFor(K, <<"guild", g>>)
    BY <1>1, <1>2, <1>3, <1>5
  <2>2. PICK k \in K : s = StoredKey(k) /\ <<"guild", g>> \in IndexesOf(k)
    BY <2>1 DEF MembersFor
  <2>3. Len(k) > 2 /\ k[1] # "message" /\ k[2] = g
    BY <2>2 DEF IndexesOf
  <2>4. k \in GuildItems(g)
    BY <1>1, <2>3 DEF GuildItems
  <2>5. QED
    BY <2>2, <2>4 DEF Stored
<1>6. QED
  BY <1>4, <1>5

\* SREM leaves nothing else.
LEMMA SremSound ==
    ASSUME TypeInv, GuildSetsSound, NEW w \in Workers, Srem(w)
    PROVE  GuildSetsSound'
<1>1. PICK i \in work[w].cur.left :
        idx' = [idx EXCEPT ![i] = @ \ MembersFor(work[w].cur.keys, i)]
  BY DEF Srem
<1>2. \A g \in Guilds : <<"guild", g>> \in Indexes
  BY DEF Indexes
<1>3. idx \in [Indexes -> SUBSET StoredKeys]
  BY DEF TypeInv, TypeOK
<1>4. QED
  BY <1>1, <1>2, <1>3 DEF GuildSetsSound

SteadyInv == IndexInv /\ Steady /\ GuildSetsSound

\* Initially every worker is idle.
LEMMA InitSteady == Init => SteadyInv
<1> SUFFICES ASSUME Init PROVE SteadyInv
  OBVIOUS
<1>1. Steady
  BY IdleSteady DEF Init, Steady
<1>2. GuildSetsSound
  BY DEF Init, GuildSetsSound, Indexes
<1>3. QED
  BY <1>1, <1>2, InitIndex DEF SteadyInv

\* Every step keeps the operations of the workers in order, and the helper sets sound.
LEMMA NextSteady == SteadyInv /\ [Next]_vars => SteadyInv'
<1> SUFFICES ASSUME SteadyInv, [Next]_vars PROVE Steady' /\ GuildSetsSound'
  BY NextIndex DEF SteadyInv
<1>0. TypeInv /\ Steady /\ GuildSetsSound
  BY DEF SteadyInv, IndexInv
<1>1. ASSUME NEW e \in Events, Receive(e) PROVE Steady' /\ GuildSetsSound'
  <2>1. PICK w \in Workers \ {Purge} :
              /\ \A v \in Workers \ {w} : work'[v] = work[v]
              /\ TaskOK(work'[w])
    BY <1>0, <1>1, Received
  <2>2. idx' = idx
    BY <1>1 DEF Receive, redis
  <2>3. QED
    BY <1>0, <2>1, <2>2 DEF Steady, GuildSetsSound
<1>2. ASSUME NEW w \in Workers, Command(w) PROVE Steady' /\ GuildSetsSound'
  <2>1. Steady'
    <3>1. CASE w = Purge
      BY <1>0, <1>2, <3>1, PurgeStep
    <3>2. CASE w # Purge /\ Changes(w)
      <4>1. MovesOn(w)
        BY <1>0, <3>2, ChangesMovesOn DEF Steady
      <4>2. QED
        BY <1>0, <3>2, <4>1, SteppedSteady DEF MovesOn
    <3>3. CASE w # Purge /\ Reads(w)
      BY <1>0, <3>3, ReadsSteady
    <3>4. QED
      BY <1>2, <3>1, <3>2, <3>3 DEF Command, Changes, Reads
  <2>2. GuildSetsSound'
    <3>1. CASE Sadd(w)
      BY <1>0, <3>1, SaddSound
    <3>2. CASE Srem(w)
      BY <1>0, <3>2, SremSound
    <3>3. CASE ~Sadd(w) /\ ~Srem(w)
      <4>1. idx' = idx
        BY <1>2, <3>3 DEF Command, Mset, Delete, Hset, Hdel, Get, GetAll, Modify, GetMembers,
                          ClearGet, GetEmojiKeys, GetEmojis, ReadOld, redis
      <4>2. QED
        BY <1>0, <4>1 DEF GuildSetsSound
    <3>4. QED
      BY <3>1, <3>2, <3>3
  <2>3. QED
    BY <2>1, <2>2
<1>3. ASSUME NEW w \in Workers, Fail(w) PROVE Steady' /\ GuildSetsSound'
  <2>1. idx' = idx
    BY <1>3 DEF Fail, redis
  <2>2. CASE w = Purge
    BY <1>0, <1>3, <2>1, <2>2, PurgeFails DEF Steady, GuildSetsSound
  <2>3. CASE w # Purge
    <3>1. TaskOK(work[w])
      BY <1>0, <2>3 DEF Steady
    <3>2. PICK W, R, d : Stepped(w, W, R, d)
      BY <1>0, <1>3, <3>1, FailStepped DEF MovesOn
    <3>3. QED
      BY <1>0, <2>1, <2>3, <3>2, SteppedSteady DEF GuildSetsSound
  <2>4. QED
    BY <2>2, <2>3
<1>4. ASSUME NEW w \in Workers, Finish(w) PROVE Steady' /\ GuildSetsSound'
  <2>1. idx' = idx /\ work' = [work EXCEPT ![w] = Idle]
    BY <1>4 DEF Finish, redis
  <2>2. work'[w] = Idle /\ \A v \in Workers \ {w} : work'[v] = work[v]
    BY <1>0, <2>1 DEF TypeInv, TypeOK
  <2>3. QED
    BY <1>0, <2>1, <2>2, IdleSteady DEF Steady, GuildSetsSound
<1>5. CASE Scan
  <2> DEFINE K == {k \in ExpiryKeys : expiry[k] = "expired"}
             c == Do("del", K)
             x == [Idle EXCEPT !.cur = c, !.rest = <<Do("hdel", K)>>]
  <2>1. idx' = idx /\ work' = [work EXCEPT ![Purge] = x] /\ Purge \in Workers
    BY <1>5 DEF Scan, redis, Workers
  <2>2. c.op = "del" /\ c.keys = K /\ K \subseteq ExpiryKeys
    BY DEF Do
  <2> HIDE DEF c, K
  <2>3. x.cur = c /\ x.rest = <<Do("hdel", K)>> /\ x.ev = NoEvent
    BY DEF Idle
  <2> HIDE DEF x
  <2>4. PurgeOK(x)
    BY <2>2, <2>3 DEF PurgeOK
  <2>5. work'[Purge] = x /\ \A v \in Workers \ {Purge} : work'[v] = work[v]
    BY <1>0, <2>1 DEF TypeInv, TypeOK
  <2>6. QED
    BY <1>0, <2>1, <2>4, <2>5 DEF Steady, GuildSetsSound
<1>6. CASE Restart
  <2>1. idx' = idx /\ \A v \in Workers : work'[v] = Idle
    BY <1>6 DEF Restart, redis
  <2>2. QED
    BY <1>0, <2>1, IdleSteady DEF Steady, GuildSetsSound
<1>7. ASSUME NEW k \in ExpiryKeys, Elapse(k) PROVE Steady' /\ GuildSetsSound'
  BY <1>0, <1>7 DEF Elapse, Steady, GuildSetsSound
<1>8. CASE UNCHANGED vars
  BY <1>0, <1>8 DEF vars, Steady, GuildSetsSound
<1>9. QED
  BY <1>1, <1>2, <1>3, <1>4, <1>5, <1>6, <1>7, <1>8 DEF Next
-----------------------------------------------------------------------------
(* What expires is tracked. *)

\* A worker has cached s and is about to list it in expiry_keys.
Tracking(r, s) == r.cur.op \in {"sadd", "expire"} /\ s \in r.cur.keys

\* A key written while the purge was about to delete its expiry is known to be untracked.
PurgeTracked == \A s \in StoredKeys : Purging(s) /\ store[s] # Nil => s \in untracked

ExpiryInv == SteadyInv /\ PurgeTracked /\ ExpiryTracked

\* The keys that expire are stored as they are.
LEMMA ExpiringKey ==
    /\ \A s \in ExpiryKeys : s \in EventKeys /\ StoredKey(s) = s /\ s \in StoredKeys
    /\ Expiring \subseteq ExpiryKeys
    /\ \A K \in SUBSET ExpiryKeys : Stored(K) = K
<1>1. \A s \in ExpiryKeys : s \in EventKeys /\ s \notin ChannelKeys
  BY KeyKinds DEF ExpiryKeys, EventKeys
<1>2. \A s \in ExpiryKeys : StoredKey(s) = s /\ s \in StoredKeys
  BY <1>1, PlainKey
<1>3. Expiring \subseteq ExpiryKeys
  BY DEF Expiring, ExpiryKeys
<1>4. QED
  BY <1>1, <1>2, <1>3 DEF Stored

\* The keys of an operation that are to expire are those stored under that name.
LEMMA ExpiringStored ==
    ASSUME NEW s \in ExpiryKeys, NEW K \in SUBSET EventKeys
    PROVE  s \in Stored(K) <=> s \in K
<1>1. s \in EventKeys /\ StoredKey(s) = s
  BY ExpiringKey
<1>2. QED
  BY <1>1, StoredKeyInjective DEF Stored

\* ExpiryTracked, worker by worker.
LEMMA TrackedForm ==
    ExpiryTracked <=>
        \A s \in Expiring : store[s] # Nil /\ s \notin untracked =>
            expiry[s] # "none" \/ \E w \in Workers : Tracking(work[w], s)
BY DEF ExpiryTracked, Expiring, Tracking, At

\* The expiry of what a set_all caches is listed next.
LEMMA PutsTracked ==
    ASSUME TypeInv, NEW w \in Workers, TaskOK(work[w]), NEW left \in SUBSET Indexes,
           work[w].cur.op \in {"set", "sadd"}, NEW s \in work[w].cur.keys, s \in Expiring,
           work' = [work EXCEPT ![w] = Remaining(w, "sadd", left)]
    PROVE  Tracking(work'[w], s)
<1> DEFINE r == work[w]
           t == work[w].rest
           e == work[w].ev
<1>1. /\ work'[w] = Remaining(w, "sadd", left) /\ r \in Work
      /\ r.cur \in Op /\ t \in Seq(Op) /\ InOrder(e, r.cur, t)
  BY TaskEvent DEF TypeInv, TypeOK
<1>2. s \in Puts(r.cur)
  BY DEF Puts
<1>3. t # <<>> /\ Before(e, r.cur, Head(t)) /\ Head(t) \in Op
  <2>1. t # <<>>
    BY <1>1, <1>2 DEF InOrder, First
  <2>2. Len(t) \in Nat /\ Len(t) > 0 /\ Head(t) = t[1] /\ Head(t) \in Op
    BY <1>1, <2>1, EmptySeq, LenProperties, HeadTailProperties
  <2>3. QED
    BY <1>1, <2>1, <2>2 DEF InOrder, First
<1>4. Head(t).op = "expire" /\ s \in Head(t).keys
  BY <1>2, <1>3 DEF Before
<1>5. CASE left = {}
  <2>1. work'[w] = [r EXCEPT !.cur = Head(t), !.rest = Tail(t)]
    BY <1>1, <1>3, <1>5 DEF Remaining, GoOn
  <2>2. work'[w].cur = Head(t)
    BY <1>1, <2>1 DEF Work
  <2>3. QED
    BY <1>4, <2>2 DEF Tracking
<1>6. CASE left # {}
  <2> DEFINE c == [op |-> "sadd", keys |-> r.cur.keys, left |-> left]
  <2>1. work'[w] = [r EXCEPT !.cur = c]
    BY <1>1, <1>6 DEF Remaining
  <2>2. c.op = "sadd" /\ c.keys = r.cur.keys
    OBVIOUS
  <2> HIDE DEF c
  <2>3. work'[w].cur = c
    BY <1>1, <2>1 DEF Work
  <2>4. QED
    BY <2>2, <2>3 DEF Tracking
<1>7. QED
  BY <1>5, <1>6

\* A step that leaves what expires and its tracking alone.
LEMMA TrackedStep ==
    ASSUME ExpiryTracked,
           \A s \in Expiring : store'[s] = store[s] \/ store'[s] = Nil,
           untracked \subseteq untracked',
           \A s \in Expiring : expiry[s] # "none" => expiry'[s] # "none",
           \A s \in Expiring, w \in Workers :
              Tracking(work[w], s) => Tracking(work'[w], s) \/ s \in untracked'
    PROVE  ExpiryTracked'
BY DEF ExpiryTracked, Expiring, Tracking, At

\* The commands of a task keep what expires tracked.
LEMMA CommandTracked ==
    ASSUME ExpiryInv, NEW w \in Workers \ {Purge}, Command(w)
    PROVE  ExpiryTracked'
<1> DEFINE K == work[w].cur.keys
<1>0. /\ TypeInv /\ Steady /\ GuildSetsSound /\ ExpiryTracked
      /\ work \in [Workers -> Work] /\ work[w] \in Work
      /\ TaskOK(work[w])
      /\ K \in SUBSET AnyKeys /\ work[w].cur.left \in SUBSET Indexes
      /\ Expiring \subseteq ExpiryKeys /\ Expiring \subseteq StoredKeys
  BY CurKeys, ExpiringKey DEF ExpiryInv, SteadyInv, IndexInv, TypeInv, TypeOK, Steady
<1>1. CASE Mset(w)
  <2>1. work[w].cur.op = "set" /\ K \subseteq EventKeys /\ MemberIndexes(K) \in SUBSET Indexes
        /\ work' = [work EXCEPT ![w] = Remaining(w, "sadd", MemberIndexes(K))]
    BY <1>0, <1>1, CurPlanned, MemberIndexesType DEF Mset, At, Plan
  <2>2. /\ \A s \in StoredKeys : s \notin Stored(K) => store'[s] = store[s]
        /\ expiry' = expiry /\ untracked \subseteq untracked'
    BY <1>1 DEF Mset
  <2> SUFFICES ASSUME NEW s \in Expiring, store'[s] # Nil, s \notin untracked',
                      expiry'[s] = "none"
               PROVE  \E v \in Workers : Tracking(work'[v], s)
    BY DEF ExpiryTracked, Expiring, Tracking, At
  <2>3. CASE s \in Stored(K)
    <3>1. s \in K
      BY <1>0, <2>1, <2>3, ExpiringStored
    <3>2. QED
      BY <1>0, <2>1, <3>1, PutsTracked
  <2>4. CASE s \notin Stored(K)
    <3>1. PICK v \in Workers : Tracking(work[v], s)
      BY <1>0, <2>2, <2>4 DEF ExpiryTracked, Expiring, Tracking, At
    <3>2. v # w
      BY <2>1, <3>1 DEF Tracking
    <3>3. work'[v] = work[v]
      BY <1>0, <2>1, <3>2
    <3>4. QED
      BY <3>1, <3>3
  <2>5. QED
    BY <2>3, <2>4
<1>2. CASE Sadd(w)
  <2>1. PICK i \in work[w].cur.left :
          work' = [work EXCEPT ![w] = Remaining(w, "sadd", work[w].cur.left \ {i})]
    BY <1>2 DEF Sadd
  <2>2. work[w].cur.left \ {i} \in SUBSET Indexes /\ work[w].cur.op = "sadd"
        /\ store' = store /\ expiry' = expiry /\ untracked' = untracked
    BY <1>0, <1>2 DEF Sadd, At, aux
  <2>3. \A s \in Expiring, v \in Workers : Tracking(work[v], s) => Tracking(work'[v], s)
    <3> SUFFICES ASSUME NEW s \in Expiring, NEW v \in Workers, Tracking(work[v], s)
                 PROVE  Tracking(work'[v], s)
      OBVIOUS
    <3>1. CASE v = w
      <4>1. s \in K
        BY <3>1 DEF Tracking
      <4>2. QED
        BY <1>0, <2>1, <2>2, <3>1, <4>1, PutsTracked
    <3>2. CASE v # w
      BY <1>0, <2>1, <3>2
    <3>3. QED
      BY <3>1, <3>2
  <2>4. QED
    BY <1>0, <2>2, <2>3, TrackedStep
<1>3. CASE Hset(w)
  <2>1. /\ \A s \in ExpiryKeys : expiry'[s] = IF s \in K THEN "fresh" ELSE expiry[s]
        /\ store' = store
        /\ \A s \in untracked : s \notin K => s \in untracked'
        /\ work' = [work EXCEPT ![w] = GoOn(w, work[w].rest)]
        /\ work[w].cur.op = "expire"
    BY <1>3 DEF Hset, At
  <2>2. \A v \in Workers \ {w} : work'[v] = work[v]
    BY <1>0, <2>1
  <2> SUFFICES ASSUME NEW s \in Expiring, store'[s] # Nil, s \notin untracked',
                      expiry'[s] = "none"
               PROVE  \E v \in Workers : Tracking(work'[v], s)
    BY DEF ExpiryTracked, Expiring, Tracking, At
  <2>3. s \notin K /\ s \notin untracked /\ expiry[s] = "none"
    BY <1>0, <2>1
  <2>4. PICK v \in Workers : Tracking(work[v], s)
    BY <1>0, <2>1, <2>3 DEF ExpiryTracked, Expiring, Tracking, At
  <2>5. v # w
    BY <2>3, <2>4 DEF Tracking
  <2>6. QED
    BY <2>2, <2>4, <2>5
<1>4. CASE Delete(w) \/ Srem(w) \/ Hdel(w) \/ Reads(w)
  <2>1. work[w].cur.op \notin {"sadd", "expire"} /\ work[w].cur.op # "hdel"
    <3>1. work[w].cur.op # "hdel"
      BY <1>0, TaskEvent DEF Fits
    <3>2. QED
      BY <1>4, <3>1 DEF Delete, Srem, Hdel, Reads, Get, GetAll, Modify, GetMembers, ClearGet,
                        GetEmojiKeys, GetEmojis, At
  <2>2. \A v \in Workers \ {w} : work'[v] = work[v]
    <3>1. CASE Delete(w) \/ Srem(w) \/ Hdel(w)
      <4>1. MovesOn(w)
        BY <1>0, <3>1, ChangesMovesOn DEF Changes
      <4>2. QED
        BY <4>1 DEF MovesOn, Stepped
    <3>2. CASE Reads(w)
      <4>1. PICK r \in SUBSET (StoredKeys \X Nat), ops \in Seq(Plan(work[w].ev)) :
              ReadOld(w, r, ops)
        BY <1>0, <3>2, ReadsPlanned
      <4> DEFINE x == [GoOn(w, ops) EXCEPT !.old = r]
      <4>2. work' = [work EXCEPT ![w] = x]
        BY <4>1 DEF ReadOld
      <4> HIDE DEF x
      <4>3. QED
        BY <1>0, <4>2
    <3>3. QED
      BY <1>4, <3>1, <3>2
  <2>3. /\ \A s \in StoredKeys : store'[s] = store[s] \/ store'[s] = Nil
        /\ untracked' = untracked /\ expiry' = expiry
    <3>1. CASE Delete(w)
      BY <3>1 DEF Delete
    <3>2. CASE Srem(w)
      BY <3>2 DEF Srem, aux
    <3>3. CASE Reads(w)
      <4>1. UNCHANGED <<redis, received, guild_events, aux>>
        BY <1>0, <3>3, ReadsSteady
      <4>2. QED
        BY <4>1 DEF redis, aux
    <3>4. QED
      BY <1>4, <2>1, <3>1, <3>2, <3>3 DEF Hdel, At
  <2>4. \A s \in Expiring, v \in Workers : Tracking(work[v], s) => Tracking(work'[v], s)
    BY <2>1, <2>2 DEF Tracking
  <2>5. QED
    BY <1>0, <2>3, <2>4, TrackedStep
<1>5. QED
  BY <1>1, <1>2, <1>3, <1>4 DEF Command, Reads

\* What the purge is in the middle of purging.
LEMMA PurgingForm ==
    ASSUME NEW s
    PROVE  Purging(s) <=> work[Purge].cur.op \in {"srem", "hdel"}
                          /\ s \in Stored(work[Purge].cur.keys)
BY DEF Purging, At

\* The commands of a task leave the purge to what is known to be untracked.
LEMMA CommandPurge ==
    ASSUME ExpiryInv, NEW w \in Workers \ {Purge}, Command(w)
    PROVE  PurgeTracked'
<1> DEFINE K == work[w].cur.keys
<1>0. /\ TypeInv /\ Steady /\ GuildSetsSound /\ PurgeTracked
      /\ work \in [Workers -> Work] /\ TaskOK(work[w]) /\ Purge \in Workers
      /\ Stored(K) \in SUBSET StoredKeys
  BY CurKeys DEF ExpiryInv, SteadyInv, IndexInv, TypeInv, TypeOK, Steady, Workers
<1>1. work'[Purge] = work[Purge]
  <2>1. CASE Changes(w)
    BY <1>0, <2>1, ChangesMovesOn DEF MovesOn, Stepped
  <2>2. CASE Reads(w)
    <3>1. PICK r \in SUBSET (StoredKeys \X Nat), ops \in Seq(Plan(work[w].ev)) :
            ReadOld(w, r, ops)
      BY <1>0, <2>2, ReadsPlanned
    <3> DEFINE x == [GoOn(w, ops) EXCEPT !.old = r]
    <3>2. work' = [work EXCEPT ![w] = x]
      BY <3>1 DEF ReadOld
    <3> HIDE DEF x
    <3>3. QED
      BY <1>0, <3>2
  <2>3. QED
    BY <2>1, <2>2 DEF Command, Changes, Reads
<1>2. \A s : Purging(s)' <=> Purging(s)
  BY <1>1 DEF Purging, At
<1> SUFFICES ASSUME NEW s \in StoredKeys, Purging(s), store'[s] # Nil
             PROVE  s \in untracked'
  BY <1>2 DEF PurgeTracked
<1>3. CASE Mset(w)
  <2>1. /\ store'[s] = IF s \in Stored(K) THEN work[w].n ELSE store[s]
        /\ untracked' = untracked \cup {x \in Stored(K) : Purging(x)}
    BY <1>3 DEF Mset
  <2>2. QED
    BY <1>0, <2>1 DEF PurgeTracked
<1>4. CASE Hset(w)
  <2>1. store' = store /\ untracked' = untracked \ {k \in K : ~Purging(k)}
    BY <1>4 DEF Hset
  <2>2. QED
    BY <1>0, <2>1 DEF PurgeTracked
<1>5. CASE Delete(w)
  <2>1. store'[s] = store[s] /\ untracked' = untracked
    BY <1>5 DEF Delete
  <2>2. QED
    BY <1>0, <2>1 DEF PurgeTracked
<1>6. CASE Sadd(w) \/ Srem(w) \/ Hdel(w) \/ Reads(w)
  <2>1. store' = store /\ untracked' = untracked
    <3>1. CASE Reads(w)
      BY <1>0, <3>1, ReadsSteady DEF redis, aux
    <3>2. QED
      BY <1>6, <3>1 DEF Sadd, Srem, Hdel, aux
  <2>2. QED
    BY <1>0, <2>1 DEF PurgeTracked
<1>7. QED
  BY <1>3, <1>4, <1>5, <1>6 DEF Command, Reads

\* The commands of the purge: it deletes the expiry of keys it has deleted only.
LEMMA PurgeCommandTracked ==
    ASSUME ExpiryInv, Command(Purge)
    PROVE  PurgeTracked' /\ ExpiryTracked'
<1> DEFINE K == work[Purge].cur.keys
<1>0. /\ TypeInv /\ Steady /\ PurgeTracked /\ ExpiryTracked /\ PurgeOK(work[Purge])
      /\ Purge \in Workers
      /\ Expiring \subseteq ExpiryKeys /\ Expiring \subseteq StoredKeys
  BY ExpiringKey DEF ExpiryInv, SteadyInv, IndexInv, Steady, Workers
<1>1. K \subseteq ExpiryKeys /\ Stored(K) = K
      /\ work[Purge].cur.op \notin {"sadd", "expire"}
  BY <1>0, ExpiringKey DEF PurgeOK
<1>2. /\ Delete(Purge) \/ Srem(Purge) \/ Hdel(Purge)
      /\ \A v \in Workers \ {Purge} : work'[v] = work[v]
      /\ Delete(Purge) \/ Srem(Purge) =>
            /\ work'[Purge].cur.op \in {"srem", "hdel"}
            /\ work'[Purge].cur.keys = work[Purge].cur.keys
      /\ Hdel(Purge) => work'[Purge].cur.op = "nop"
  BY <1>0, PurgeStep
<1>3. \A s \in Expiring, v \in Workers : Tracking(work[v], s) => Tracking(work'[v], s)
  BY <1>1, <1>2 DEF Tracking
<1>4. \A s : Purging(s)' <=> work'[Purge].cur.op \in {"srem", "hdel"}
                             /\ s \in Stored(work'[Purge].cur.keys)
  BY DEF Purging, At
<1>5. CASE Delete(Purge)
  <2>1. /\ \A s \in StoredKeys : store'[s] = IF s \in Stored(K) THEN Nil ELSE store[s]
        /\ untracked' = untracked /\ expiry' = expiry
    BY <1>5 DEF Delete
  <2>2. PurgeTracked'
    BY <1>2, <1>4, <1>5, <2>1 DEF PurgeTracked
  <2>3. ExpiryTracked'
    BY <1>0, <1>3, <2>1, TrackedStep
  <2>4. QED
    BY <2>2, <2>3
<1>6. CASE Srem(Purge)
  <2>1. store' = store /\ untracked' = untracked /\ expiry' = expiry
        /\ work[Purge].cur.op = "srem"
    BY <1>6 DEF Srem, aux, At
  <2>2. \A s : Purging(s)' => Purging(s)
    BY <1>2, <1>4, <1>6, <2>1, PurgingForm
  <2>3. PurgeTracked'
    BY <1>0, <2>1, <2>2 DEF PurgeTracked
  <2>4. ExpiryTracked'
    BY <1>0, <1>3, <2>1, TrackedStep
  <2>5. QED
    BY <2>3, <2>4
<1>7. CASE Hdel(Purge)
  <2>1. /\ store' = store /\ untracked' = untracked /\ work[Purge].cur.op = "hdel"
        /\ \A s \in ExpiryKeys : expiry'[s] = IF s \in K THEN "none" ELSE expiry[s]
    BY <1>7 DEF Hdel, aux, At
  <2>2. PurgeTracked'
    BY <1>2, <1>4, <1>7 DEF PurgeTracked
  <2>3. ExpiryTracked'
    <3> SUFFICES ASSUME NEW s \in Expiring, store'[s] # Nil, s \notin untracked',
                        expiry'[s] = "none"
                 PROVE  \E v \in Workers : Tracking(work'[v], s)
      BY DEF ExpiryTracked, Expiring, Tracking, At
    <3>1. s \notin K
      <4>1. s \in K => Purging(s)
        BY <1>1, <2>1 DEF Purging, At
      <4>2. QED
        BY <1>0, <2>1, <4>1 DEF PurgeTracked
    <3>2. PICK v \in Workers : Tracking(work[v], s)
      BY <1>0, <2>1, <3>1 DEF ExpiryTracked, Expiring, Tracking, At
    <3>3. QED
      BY <1>3, <3>2
  <2>4. QED
    BY <2>2, <2>3
<1>8. QED
  BY <1>2, <1>5, <1>6, <1>7

\* Initially nothing is cached.
LEMMA InitExpiry == Init => ExpiryInv
<1> SUFFICES ASSUME Init PROVE ExpiryInv
  OBVIOUS
<1>1. \A s \in StoredKeys : store[s] = Nil
  BY DEF Init
<1>2. \A s \in Expiring : s \in StoredKeys
  BY ExpiringKey
<1>3. PurgeTracked
  BY <1>1 DEF PurgeTracked
<1>4. ExpiryTracked
  BY <1>1, <1>2, TrackedForm
<1>5. QED
  BY <1>3, <1>4, InitSteady DEF ExpiryInv

\* Every step keeps what expires tracked.
LEMMA NextExpiry == ExpiryInv /\ [Next]_vars => ExpiryInv'
<1> SUFFICES ASSUME ExpiryInv, [Next]_vars PROVE PurgeTracked' /\ ExpiryTracked'
  BY NextSteady DEF ExpiryInv
<1>0. /\ TypeInv /\ Steady /\ GuildSetsSound /\ PurgeTracked /\ ExpiryTracked
      /\ work \in [Workers -> Work] /\ Purge \in Workers
      /\ Expiring \subseteq ExpiryKeys /\ Expiring \subseteq StoredKeys
  BY ExpiringKey DEF ExpiryInv, SteadyInv, IndexInv, TypeInv, TypeOK, Workers
<1>1. ASSUME store' = store, untracked \subseteq untracked', expiry' = expiry,
             \/ work'[Purge] = work[Purge]
             \/ work'[Purge].cur.op \notin {"srem", "hdel"},
             \A s \in Expiring, w \in Workers :
                Tracking(work[w], s) => Tracking(work'[w], s) \/ s \in untracked'
      PROVE  PurgeTracked' /\ ExpiryTracked'
  <2>1. \A s : Purging(s)' => Purging(s)
    BY <1>1 DEF Purging, At
  <2>2. PurgeTracked'
    BY <1>0, <1>1, <2>1 DEF PurgeTracked
  <2>3. QED
    BY <1>0, <1>1, <2>2, TrackedStep
<1>2. ASSUME NEW e \in Events, Receive(e) PROVE PurgeTracked' /\ ExpiryTracked'
  <2>1. PICK w \in Workers \ {Purge} :
              work[w] = Idle /\ \A v \in Workers \ {w} : work'[v] = work[v]
    BY <1>0, <1>2, Received
  <2>2. UNCHANGED <<store, expiry, untracked>>
    BY <1>2 DEF Receive, redis
  <2>3. ~ \E s : Tracking(Idle, s)
    BY IdleSteady DEF Tracking
  <2>4. QED
    BY <1>0, <1>1, <2>1, <2>2, <2>3
<1>3. ASSUME NEW w \in Workers, Command(w) PROVE PurgeTracked' /\ ExpiryTracked'
  <2>1. CASE w = Purge
    BY <1>3, <2>1, PurgeCommandTracked
  <2>2. CASE w # Purge
    BY <1>3, <2>2, CommandPurge, CommandTracked
  <2>3. QED
    BY <2>1, <2>2
<1>4. ASSUME NEW w \in Workers, Fail(w) PROVE PurgeTracked' /\ ExpiryTracked'
  <2>1. UNCHANGED <<store, expiry>> /\ untracked' = untracked \cup LostExpiry(w)
    BY <1>4 DEF Fail, redis
  <2>2. \A v \in Workers \ {w} : work'[v] = work[v]
    <3> DEFINE x == IF At(w, "members") \/ At(w, "clear") THEN GoOn(w, work[w].rest)
                    ELSE [GoOn(w, <<>>) EXCEPT !.old = {}]
    <3>1. work' = [work EXCEPT ![w] = x]
      BY <1>4 DEF Fail
    <3> HIDE DEF x
    <3>2. QED
      BY <1>0, <3>1
  <2>3. w = Purge => work'[Purge].cur.op = "nop"
    BY <1>0, <1>4, PurgeFails
  <2>4. \A s \in Expiring : Tracking(work[w], s) => s \in untracked'
    BY <2>1, ExpiringKey DEF Tracking, LostExpiry, At, Stored
  <2>5. QED
    BY <1>0, <1>1, <2>1, <2>2, <2>3, <2>4
<1>5. ASSUME NEW w \in Workers, Finish(w) PROVE PurgeTracked' /\ ExpiryTracked'
  <2>1. UNCHANGED <<store, expiry, untracked>> /\ work' = [work EXCEPT ![w] = Idle]
        /\ work[w].cur = Nop
    BY <1>5 DEF Finish, redis, aux
  <2>2. work'[w] = Idle /\ \A v \in Workers \ {w} : work'[v] = work[v]
    BY <1>0, <2>1
  <2>3. ~ \E s : Tracking(work[w], s)
    BY <2>1, NopPlanned DEF Tracking
  <2>4. Idle.cur.op = "nop"
    BY IdleSteady
  <2>5. QED
    BY <1>0, <1>1, <2>1, <2>2, <2>3, <2>4
<1>6. CASE Scan
  <2> DEFINE K == {k \in ExpiryKeys : expiry[k] = "expired"}
             c == Do("del", K)
             x == [Idle EXCEPT !.cur = c, !.rest = <<Do("hdel", K)>>]
  <2>1. UNCHANGED <<store, expiry, untracked>> /\ work' = [work EXCEPT ![Purge] = x]
        /\ work[Purge] = Idle
    BY <1>6 DEF Scan, redis, aux
  <2>2. c.op = "del"
    BY DEF Do
  <2> HIDE DEF c, K
  <2>3. x.cur = c
    BY DEF Idle
  <2> HIDE DEF x
  <2>4. work'[Purge] = x /\ \A v \in Workers \ {Purge} : work'[v] = work[v]
    BY <1>0, <2>1
  <2>5. ~ \E s : Tracking(work[Purge], s)
    BY <2>1, IdleSteady DEF Tracking
  <2>6. QED
    BY <1>0, <1>1, <2>1, <2>2, <2>3, <2>4, <2>5
<1>7. CASE Restart
  <2>1. UNCHANGED <<store, expiry>> /\ (\A v \in Workers : work'[v] = Idle)
        /\ untracked' = untracked \cup UNION {LostExpiry(w) : w \in Workers}
    BY <1>7 DEF Restart, redis
  <2>2. \A s \in Expiring, w \in Workers : Tracking(work[w], s) => s \in untracked'
    BY <2>1, ExpiringKey DEF Tracking, LostExpiry, At, Stored
  <2>3. work'[Purge].cur.op \notin {"srem", "hdel"}
    BY <1>0, <2>1, IdleSteady
  <2>4. QED
    BY <1>1, <2>1, <2>2, <2>3
<1>8. ASSUME NEW k \in ExpiryKeys, Elapse(k) PROVE PurgeTracked' /\ ExpiryTracked'
  <2>1. UNCHANGED <<store, work, untracked>> /\ expiry' = [expiry EXCEPT ![k] = "expired"]
    BY <1>8 DEF Elapse, aux
  <2>2. expiry \in [ExpiryKeys -> ExpiryStates]
    BY <1>0 DEF TypeInv, TypeOK
  <2>3. \A s \in Expiring : expiry[s] # "none" => expiry'[s] # "none"
    BY <1>0, <2>1, <2>2
  <2>4. PurgeTracked'
    BY <1>0, <2>1 DEF PurgeTracked, Purging, At
  <2>5. QED
    BY <1>0, <2>1, <2>3, <2>4, TrackedStep
<1>9. CASE UNCHANGED vars
  BY <1>0, <1>1, <1>9 DEF vars
<1>10. QED
  BY <1>2, <1>3, <1>4, <1>5, <1>6, <1>7, <1>8, <1>9 DEF Next

\* A cached member or message is listed in expiry_keys, or its writer is about to list
\* it, unless it was written while the purge was at that key, or a failure lost its expiry.
THEOREM ExpiryIsTracked == Spec => []ExpiryTracked
<1>1. ExpiryInv => ExpiryTracked
  BY DEF ExpiryInv
<1>2. QED
  BY <1>1, InitExpiry, NextExpiry, PTL DEF Spec
-----------------------------------------------------------------------------
(* The cache converges to the reference. *)

\* The channels whose event form differs from their stored one: a ChannelPinsUpdate does
\* not find them, and so never changes what the cache holds for them.
Hidden == {<<"channel", c>> : c \in {x \in Channels : GuildOf[x] # NoGuild}}
Blind == IF "ChannelPinsUpdate" \in Kinds THEN Hidden ELSE {}

\* The cache st and the reference rf agree about s, eviction aside.
Agrees(st, rf, s) == st[s] = rf[s] \/ (s \in ExpiryKeys /\ st[s] = Nil)

\* What the update of r has done about a key s of its event: it has yet to write s or has
\* written it and will not remove it; it has yet to remove s or s is gone; it found s, if
\* it modifies s at all, exactly if s was there to be modified.
Settled(st, rf, r, s) ==
    /\ s \in Stored(Written(r.ev)) =>
          /\ rf[s] = r.n
          /\ s \in ToWrite(r) \/ (s \notin ToRemove(r) /\ Agrees(st, rf, s))
    /\ s \in Stored(Erased(r.ev)) \ Stored(Written(r.ev)) =>
          rf[s] = Nil /\ (s \in ToRemove(r) \/ st[s] = Nil)
    /\ s \in Stored(Updated(r.ev)) =>
          IF r.cur.op = "modify"
          THEN IF st[s] = Nil THEN rf[s] = Nil \/ s \in ExpiryKeys ELSE rf[s] = r.n
          ELSE IF s \in ToWrite(r) THEN rf[s] = r.n ELSE Agrees(st, rf, s)

Settling ==
    \A w \in Workers : \A s \in Footprint(work[w].ev) \ (raced \cup Blind) :
        Settled(store, ref, work[w], s)

\* The keys of two events that are being dealt with at once have raced.
Solo ==
    \A v, w \in Workers : \A s \in Footprint(work[v].ev) \cap Footprint(work[w].ev) :
        v = w \/ s \in raced

DriftRaced == drift \subseteq raced

\* ConvergesToReference, for the keys that a ChannelPinsUpdate can find.
Converges ==
    \A s \in StoredKeys \ (raced \cup Blind) :
        (\A w \in Workers : s \notin Footprint(work[w].ev)) => Agrees(store, ref, s)

ConvInv == SteadyInv /\ DriftRaced /\ Solo /\ Settling /\ Converges
-----------------------------------------------------------------------------
\* An event that modifies an object erases and writes none.
LEMMA UpdatedOnly ==
    ASSUME NEW e, Updated(e) # {}
    PROVE  Erased(e) = {} /\ Written(e) = {}
<1>1. e.kind \in {"ChannelPinsUpdate", "MemberUpdate", "MessageUpdate"}
  BY DEF Updated
<1>2. QED
  BY <1>1 DEF Erased, Written

\* No event, no key.
LEMMA NoFootprint == Footprint(NoEvent) = {} /\ OldOf(NoEvent) = {}
<1>1. NoEvent.kind = "none" /\ NoEvent.keys = {}
  BY DEF NoEvent, Ev
<1>2. Erased(NoEvent) = {} /\ Written(NoEvent) = {} /\ Updated(NoEvent) = {}
  BY <1>1 DEF Erased, Written, Updated
<1>3. Footprint(NoEvent) = {}
  BY <1>2 DEF Footprint, Stored
<1>4. OldOf(NoEvent) = {}
  BY <1>1 DEF OldOf
<1>5. QED
  BY <1>3, <1>4

\* The keys of an event that are erased, written or updated.
LEMMA FootprintParts ==
    ASSUME NEW e
    PROVE  Footprint(e) = Stored(Erased(e)) \cup Stored(Written(e)) \cup Stored(Updated(e))
BY DEF Footprint, Stored

\* What is left to an update that keeps what it has to do about s.
LEMMA SettledSame ==
    ASSUME NEW st, NEW rf, NEW r, NEW x, NEW s, Settled(st, rf, r, s),
           x.ev = r.ev, x.n = r.n, r.cur.op # "modify", x.cur.op # "modify",
           s \in ToWrite(x) <=> s \in ToWrite(r),
           s \in ToRemove(x) <=> s \in ToRemove(r)
    PROVE  Settled(st, rf, x, s)
BY DEF Settled

\* An eviction, or a change to other keys, leaves s settled.
LEMMA SettledEvicted ==
    ASSUME NEW st, NEW st2, NEW rf, NEW rf2, NEW r, NEW s, Settled(st, rf, r, s),
           rf2[s] = rf[s], st2[s] = st[s] \/ (s \in ExpiryKeys /\ st2[s] = Nil)
    PROVE  Settled(st2, rf2, r, s)
BY DEF Settled, Agrees

\* When an update is over its keys agree with the reference.
LEMMA SettledDone ==
    ASSUME NEW st, NEW rf, NEW r, NEW s \in Footprint(r.ev), Settled(st, rf, r, s),
           r.cur.op # "modify", ToWrite(r) = {}, ToRemove(r) = {}
    PROVE  Agrees(st, rf, s)
BY FootprintParts DEF Settled, Agrees

\* What a task has yet to write or remove, or is in the middle of writing, is in its
\* event's footprint.
LEMMA TaskFootprint ==
    ASSUME TypeInv, NEW w \in Workers, TaskOK(work[w])
    PROVE  work[w].cur.op \in {"set", "sadd", "del", "srem"} =>
              Stored(work[w].cur.keys) \subseteq Footprint(work[w].ev)
<1>1. Fits(work[w].ev, work[w].cur)
  BY TaskEvent
<1>2. QED
  BY <1>1 DEF Fits, Footprint, Stored

\* A step of a task that changes the cache for keys of its event only.
LEMMA TaskSettles ==
    ASSUME ConvInv, NEW w \in Workers, NEW W, NEW R, NEW d, Stepped(w, W, R, d),
           ref' = ref, raced \subseteq raced',
           \A s \in StoredKeys \ Footprint(work[w].ev) : store'[s] = store[s],
           \A s \in Footprint(work[w].ev) \ (raced' \cup Blind) :
              Settled(store', ref', work'[w], s)
    PROVE  Solo' /\ Settling' /\ Converges'
<1>1. \A v \in Workers : work'[v].ev = work[v].ev
  BY DEF Stepped
<1>2. \A v \in Workers : Footprint(work[v].ev) \in SUBSET StoredKeys
  BY CurKeys DEF ConvInv, SteadyInv, IndexInv
<1>3. Solo'
  BY <1>1 DEF ConvInv, Solo
<1>4. Settling'
  <2> SUFFICES ASSUME NEW v \in Workers, NEW s \in Footprint(work[v].ev) \ (raced' \cup Blind)
               PROVE  Settled(store', ref', work'[v], s)
    BY <1>1 DEF Settling
  <2>1. CASE v = w
    BY <2>1
  <2>2. CASE v # w
    <3>1. s \notin Footprint(work[w].ev) /\ s \in StoredKeys
      BY <1>2, <2>2 DEF ConvInv, Solo
    <3>2. Settled(store, ref, work[v], s) /\ work'[v] = work[v]
      BY <2>2 DEF ConvInv, Settling, Stepped
    <3>3. store'[s] = store[s] /\ ref'[s] = ref[s]
      BY <3>1
    <3>4. QED
      BY <3>2, <3>3, SettledEvicted
  <2>3. QED
    BY <2>1, <2>2
<1>5. Converges'
  <2> SUFFICES ASSUME NEW s \in StoredKeys \ (raced' \cup Blind),
                      \A v \in Workers : s \notin Footprint(work[v].ev)
               PROVE  Agrees(store', ref', s)
    BY <1>1 DEF Converges
  <2>1. Agrees(store, ref, s) /\ store'[s] = store[s]
    BY DEF ConvInv, Converges
  <2>2. QED
    BY <2>1 DEF Agrees
<1>6. QED
  BY <1>3, <1>4, <1>5

\* A task that moves on from an operation that neither writes nor removes.
LEMMA MoveSettles ==
    ASSUME ConvInv, NEW w \in Workers, MovesOn(w),
           work[w].cur.op \in {"get", "get_all", "sadd", "srem", "expire"},
           store' = store, ref' = ref, raced' = raced
    PROVE  Solo' /\ Settling' /\ Converges'
<1> DEFINE r == work[w]
           x == work'[w]
<1>1. /\ Stepped(w, AllWrites(r.ev, r.rest), AllRemoves(r.ev, r.rest), Reading(r.rest))
      /\ x.ev = r.ev /\ x.n = r.n /\ x.cur.op # "modify" /\ r.cur.op # "modify"
      /\ ToWrite(x) = AllWrites(r.ev, r.rest) /\ ToRemove(x) = AllRemoves(r.ev, r.rest)
  BY DEF MovesOn, Stepped, OnlyFirst
<1>2. Writes(r.ev, r.cur) = {} /\ Removes(r.ev, r.cur) = {}
  BY DEF Writes, Removes
<1>3. ToWrite(x) = ToWrite(r) /\ ToRemove(x) = ToRemove(r)
  BY <1>1, <1>2 DEF ToWrite, ToRemove
<1>4. ASSUME NEW s \in Footprint(r.ev) \ (raced' \cup Blind)
      PROVE  Settled(store', ref', x, s)
  <2>1. Settled(store, ref, r, s)
    BY DEF ConvInv, Settling
  <2> HIDE DEF x, r
  <2>2. Settled(store, ref, x, s)
    BY <1>1, <1>3, <2>1, SettledSame
  <2>3. QED
    BY <2>2
<1>5. QED
  BY <1>1, <1>4, TaskSettles

\* MSET.
LEMMA MsetSettles ==
    ASSUME ConvInv, NEW w \in Workers \ {Purge}, Mset(w)
    PROVE  Solo' /\ Settling' /\ Converges'
<1> DEFINE r == work[w]
           x == work'[w]
           e == work[w].ev
           K == work[w].cur.keys
<1>0. TypeInv /\ TaskOK(r)
  BY DEF ConvInv, SteadyInv, IndexInv, Steady
<1>1. MovesOn(w)
  BY <1>0, ChangesMovesOn DEF Changes
<1>2. /\ Stepped(w, AllWrites(e, r.rest), AllRemoves(e, r.rest), Reading(r.rest))
      /\ x.ev = e /\ x.n = r.n /\ x.cur.op # "modify"
      /\ ToWrite(x) = AllWrites(e, r.rest) /\ ToRemove(x) = AllRemoves(e, r.rest)
  BY <1>1 DEF MovesOn, Stepped, OnlyFirst
<1>3. /\ r.cur.op = "set" /\ ref' = ref /\ raced \subseteq raced'
      /\ \A s \in StoredKeys : store'[s] = IF s \in Stored(K) THEN r.n ELSE store[s]
  BY DEF Mset, At
<1>4. Writes(e, r.cur) = Stored(K) /\ Removes(e, r.cur) = {}
  BY <1>3 DEF Writes, Removes
<1>5. ToWrite(r) = Stored(K) \cup ToWrite(x) /\ ToRemove(r) = ToRemove(x)
  BY <1>2, <1>4 DEF ToWrite, ToRemove
<1>6. Stored(K) \cap ToRemove(x) = {}
  <2>1. \A i \in 1 .. Len(r.rest) : Stored(K) \cap Removes(e, r.rest[i]) = {}
    BY <1>0, <1>4, TaskEvent DEF InOrder, First, Before
  <2>2. QED
    BY <1>2, <2>1 DEF AllRemoves
<1>7. Stored(K) \subseteq Stored(Written(e)) \cup Stored(Updated(e))
      /\ Stored(K) \subseteq Footprint(e)
  <2>1. K \subseteq Written(e) \cup Updated(e)
    BY <1>0, <1>3, TaskEvent DEF Fits
  <2>2. QED
    BY <2>1, FootprintParts DEF Stored
<1>8. Footprint(e) \in SUBSET StoredKeys
  BY <1>0, CurKeys
<1>9. ASSUME NEW s \in Footprint(e) \ (raced' \cup Blind)
      PROVE  Settled(store', ref', x, s)
  <2>1. Settled(store, ref, r, s)
    BY <1>3 DEF ConvInv, Settling
  <2>2. CASE s \in Stored(K)
    <3>1. store'[s] = r.n /\ s \notin ToRemove(x) /\ s \in ToWrite(r)
      BY <1>3, <1>5, <1>6, <1>8, <2>2
    <3>2. s \in Stored(Erased(e)) \ Stored(Written(e)) => FALSE
      <4>1. s \in Stored(Updated(e)) => Updated(e) # {}
        BY DEF Stored
      <4>2. Updated(e) # {} => Stored(Erased(e)) = {}
        BY UpdatedOnly DEF Stored
      <4>3. QED
        BY <1>7, <2>2, <4>1, <4>2
    <3>3. s \in Stored(Written(e)) => ref[s] = r.n
      BY <2>1 DEF Settled
    <3>4. s \in Stored(Updated(e)) => ref[s] = r.n
      BY <1>3, <2>1, <3>1 DEF Settled
    <3> HIDE DEF x, r, e
    <3>5. QED
      BY <1>2, <1>3, <3>1, <3>2, <3>3, <3>4 DEF Settled, Agrees, e
  <2>3. CASE s \notin Stored(K)
    <3>1. store'[s] = store[s] /\ ref'[s] = ref[s]
      BY <1>3, <1>8, <2>3
    <3>2. s \in ToWrite(x) <=> s \in ToWrite(r)
      BY <1>5, <2>3
    <3> HIDE DEF x, r, e
    <3>3. Settled(store, ref, x, s)
      BY <1>2, <1>3, <1>5, <2>1, <3>2, SettledSame DEF e, r
    <3>4. QED
      BY <3>1, <3>3, SettledEvicted
  <2>4. QED
    BY <2>2, <2>3
<1>10. \A s \in StoredKeys \ Footprint(e) : store'[s] = store[s]
  BY <1>3, <1>7
<1>11. QED
  BY <1>2, <1>3, <1>9, <1>10, TaskSettles

\* DEL, by a task.
LEMMA DeleteSettles ==
    ASSUME ConvInv, NEW w \in Workers \ {Purge}, Delete(w)
    PROVE  Solo' /\ Settling' /\ Converges'
<1> DEFINE r == work[w]
           x == work'[w]
           e == work[w].ev
           K == work[w].cur.keys
<1>0. TypeInv /\ TaskOK(r)
  BY DEF ConvInv, SteadyInv, IndexInv, Steady
<1>1. MovesOn(w)
  BY <1>0, ChangesMovesOn DEF Changes
<1>2. /\ Stepped(w, AllWrites(e, r.rest), AllRemoves(e, r.rest), Reading(r.rest))
      /\ x.ev = e /\ x.n = r.n /\ x.cur.op # "modify"
      /\ ToWrite(x) = AllWrites(e, r.rest) /\ ToRemove(x) = AllRemoves(e, r.rest)
  BY <1>1 DEF MovesOn, Stepped, OnlyFirst
<1>3. /\ r.cur.op = "del" /\ r.cur.op # "modify" /\ ref' = ref /\ raced \subseteq raced'
      /\ \A s \in StoredKeys : store'[s] = IF s \in Stored(K) THEN Nil ELSE store[s]
  BY DEF Delete, At
<1>4. Writes(e, r.cur) = {} /\ Removes(e, r.cur) = Stored(K)
  BY <1>3 DEF Writes, Removes
<1>5. ToWrite(r) = ToWrite(x) /\ ToRemove(r) = Stored(K) \cup ToRemove(x)
  BY <1>2, <1>4 DEF ToWrite, ToRemove
<1>6. Stored(K) \subseteq Stored(Erased(e)) /\ Stored(K) \subseteq Footprint(e)
  BY <1>0, <1>3, TaskEvent, FootprintParts DEF Fits
<1>7. Footprint(e) \in SUBSET StoredKeys
  BY <1>0, CurKeys
<1>8. ASSUME NEW s \in Footprint(e) \ (raced' \cup Blind)
      PROVE  Settled(store', ref', x, s)
  <2>1. Settled(store, ref, r, s)
    BY <1>3 DEF ConvInv, Settling
  <2>2. CASE s \in Stored(K)
    <3>1. store'[s] = Nil /\ s \in ToRemove(r)
      BY <1>3, <1>5, <1>7, <2>2
    <3>2. s \notin Stored(Updated(e))
      <4>1. s \in Stored(Updated(e)) => Updated(e) # {}
        BY DEF Stored
      <4>2. Updated(e) # {} => Stored(Erased(e)) = {}
        BY UpdatedOnly DEF Stored
      <4>3. QED
        BY <1>6, <2>2, <4>1, <4>2
    <3>3. s \in Stored(Written(e)) => ref[s] = r.n /\ s \in ToWrite(r)
      BY <2>1, <3>1 DEF Settled
    <3>4. s \in Stored(Erased(e)) \ Stored(Written(e)) => ref[s] = Nil
      BY <2>1 DEF Settled
    <3> HIDE DEF x, r, e
    <3>5. QED
      BY <1>2, <1>3, <1>5, <3>1, <3>2, <3>3, <3>4 DEF Settled, e
  <2>3. CASE s \notin Stored(K)
    <3>1. store'[s] = store[s] /\ ref'[s] = ref[s]
      BY <1>3, <1>7, <2>3
    <3>2. s \in ToRemove(x) <=> s \in ToRemove(r)
      BY <1>5, <2>3
    <3> HIDE DEF x, r, e
    <3>3. Settled(store, ref, x, s)
      BY <1>2, <1>3, <1>5, <2>1, <3>2, SettledSame DEF e, r
    <3>4. QED
      BY <3>1, <3>3, SettledEvicted
  <2>4. QED
    BY <2>2, <2>3
<1>9. \A s \in StoredKeys \ Footprint(e) : store'[s] = store[s]
  BY <1>3, <1>6
<1>10. QED
  BY <1>2, <1>3, <1>8, <1>9, TaskSettles

\* An object that an event modifies, and that is not hidden, is found if it is stored.
LEMMA UpdatedFound ==
    ASSUME NEW e \in Events, NEW s \in Stored(Updated(e)), s \notin Blind, NEW st
    PROVE  /\ Updated(e) = {s} /\ s \in StoredKeys
           /\ Found(st, Updated(e)) = {} <=> st[s] = Nil
           /\ st[s] # Nil => Found(st, Updated(e)) = {<<s, st[s]>>}
<1>1. /\ e \in Event /\ WellFormed(e) /\ e.kind \in Kinds /\ Updated(e) = e.keys
      /\ e.kind \in {"ChannelPinsUpdate", "MemberUpdate", "MessageUpdate"}
  BY DEF Events, Updated, Stored
<1>2. PICK k \in EventKeys : e.keys = {k}
  BY <1>1, EventKeysOf
<1>3. s = StoredKey(k)
  BY <1>1, <1>2 DEF Stored
<1>4. k = s
  <2>1. CASE k \in ChannelKeys
    <3>1. PICK c \in Channels : k = channel_key(c)
      BY <2>1 DEF ChannelKeys
    <3>2. e.kind = "ChannelPinsUpdate"
      <4>1. k[1] = "channel"
        BY <2>1, KeyKinds
      <4>2. k \notin MemberKeys /\ k \notin MessageKeys
        BY <4>1, KeyKinds
      <4>3. e.kind = "MessageUpdate" => k \in MessageKeys
        BY <1>1, <1>2 DEF WellFormed
      <4>4. e.kind = "MemberUpdate" => k \in MemberKeys
        BY <1>1, <1>2 DEF WellFormed, MemberKeys
      <4>5. QED
        BY <1>1, <4>2, <4>3, <4>4
    <3>3. GuildOf[c] = NoGuild
      <4>1. GuildOf[c] # NoGuild => s = <<"channel", c>>
        BY <1>3, <3>1 DEF channel_key, StoredKey
      <4>2. GuildOf[c] # NoGuild => s \in Hidden
        BY <4>1 DEF Hidden
      <4>3. QED
        BY <1>1, <3>2, <4>2 DEF Blind
    <3>4. QED
      BY <1>3, <3>1, <3>3 DEF channel_key, StoredKey
  <2>2. CASE k \notin ChannelKeys
    BY <1>3, <2>2, PlainKey
  <2>3. QED
    BY <2>1, <2>2
<1>5. s \in StoredKeys /\ StoredKey(s) = s
  BY <1>2, <1>3, <1>4 DEF StoredKeys, Stored
<1>6. Updated(e) = {s} /\ Stored({s}) = {s} /\ {s} \cap StoredKeys = {s}
  BY <1>1, <1>2, <1>4, <1>5 DEF Stored
<1>7. Found(st, Updated(e)) = {<<x, st[x]>> : x \in {y \in {s} : st[y] # Nil}}
  BY <1>6 DEF Found, Holds
<1>8. QED
  BY <1>5, <1>6, <1>7

\* GET of an object to be modified: if it is absent the update is over.
LEMMA ModifySettles ==
    ASSUME ConvInv, NEW w \in Workers \ {Purge}, Modify(w)
    PROVE  Solo' /\ Settling' /\ Converges'
<1> DEFINE r == work[w]
           x == work'[w]
           e == work[w].ev
           f == Found(store, work[w].cur.keys)
<1>0. TypeInv /\ TaskOK(r)
  BY DEF ConvInv, SteadyInv, IndexInv, Steady
<1>1. /\ f = {} => Stepped(w, {}, {}, FALSE) /\ x.cur = Nop
      /\ f # {} => MovesOn(w)
      /\ UNCHANGED <<redis, received, guild_events, aux>>
  BY <1>0, ModifyStepped
<1>2. store' = store /\ ref' = ref /\ raced' = raced
  BY <1>1 DEF redis, aux
<1>3. /\ r.cur.op = "modify" /\ InOrder(e, r.cur, r.rest)
      /\ r.cur.keys = Updated(e) /\ Updated(e) # {}
  BY <1>0, TaskEvent DEF Modify, At, Fits
<1>4. e \in Events
  <2>1. e.kind # "none"
    BY <1>3 DEF Updated
  <2>2. QED
    BY <1>0, <2>1, TaskEvent
<1>5. Footprint(e) = Stored(Updated(e)) /\ Stored(Written(e)) = {} /\ Stored(Erased(e)) = {}
  BY <1>3, UpdatedOnly, FootprintParts DEF Stored
<1>6. ASSUME NEW s \in Footprint(e) \ (raced' \cup Blind)
      PROVE  Settled(store', ref', x, s)
  <2>1. Settled(store, ref, r, s)
    BY <1>2 DEF ConvInv, Settling
  <2>2. s \in Stored(Updated(e))
    BY <1>5
  <2>3. f = {} <=> store[s] = Nil
    BY <1>3, <1>4, <2>2, UpdatedFound
  <2>4. IF store[s] = Nil THEN ref[s] = Nil \/ s \in ExpiryKeys ELSE ref[s] = r.n
    BY <1>3, <2>1, <2>2 DEF Settled
  <2>5. CASE f = {}
    <3>1. x.ev = e /\ x.cur.op # "modify" /\ ToWrite(x) = {}
      BY <1>1, <2>5, NopPlanned DEF Stepped
    <3>2. Agrees(store, ref, s)
      BY <2>3, <2>4, <2>5 DEF Agrees
    <3> HIDE DEF x, r, e
    <3>3. QED
      BY <1>2, <1>5, <3>1, <3>2 DEF Settled
  <2>6. CASE f # {}
    <3>1. x.ev = e /\ x.n = r.n /\ x.cur.op # "modify" /\ ToWrite(x) = AllWrites(e, r.rest)
      BY <1>1, <2>6 DEF MovesOn, Stepped, OnlyFirst
    <3>2. s \in AllWrites(e, r.rest)
      BY <1>3, <2>2 DEF InOrder, First
    <3>3. ref[s] = r.n
      BY <2>3, <2>4, <2>6
    <3> HIDE DEF x, r, e
    <3>4. QED
      BY <1>2, <1>5, <3>1, <3>2, <3>3 DEF Settled
  <2>7. QED
    BY <2>5, <2>6
<1>7. PICK W, R, d : Stepped(w, W, R, d)
  BY <1>1 DEF MovesOn
<1>8. QED
  BY <1>2, <1>6, <1>7, TaskSettles

\* A guild's helper set has every cached object of the guild that no other worker touches.
LEMMA GuildSetComplete ==
    ASSUME ConvInv, NEW w \in Workers \ {Purge}, work[w].cur.op # "sadd",
           NEW g \in Guilds, NEW s \in Stored(GuildItems(g)), s \in Footprint(work[w].ev),
           s \notin raced, store[s] # Nil
    PROVE  s \in idx[<<"guild", g>>]
<1> SUFFICES ASSUME s \notin idx[<<"guild", g>>] PROVE FALSE
  OBVIOUS
<1>1. PICK k \in GuildItems(g) : s = StoredKey(k)
  BY DEF Stored
<1>2. k \in EventKeys /\ <<"guild", g>> \in IndexesOf(k)
  BY DEF GuildItems, IndexesOf
<1>3. s \notin drift
  BY DEF ConvInv, DriftRaced
<1>4. PICK v \in Workers : WillAdd(v, <<"guild", g>>, s)
  BY <1>1, <1>2, <1>3 DEF ConvInv, SteadyInv, IndexInv, IndexCoversStore
<1>5. v # w /\ work[v].cur.op = "sadd" /\ TypeInv /\ Steady
  BY <1>4 DEF WillAdd, At, ConvInv, SteadyInv, IndexInv
<1>6. TaskOK(work[v])
  BY <1>5 DEF Steady, PurgeOK
<1>7. s \in Stored(work[v].cur.keys)
  BY <1>4, <1>5, CurKeys, MembersForType DEF WillAdd
<1>8. s \in Footprint(work[v].ev)
  BY <1>5, <1>6, <1>7, TaskFootprint
<1>9. QED
  BY <1>5, <1>8 DEF ConvInv, Solo

\* A read whose task keeps what it has to write, and drops from what it has to remove
\* only what is not there.
LEMMA ReadSettles ==
    ASSUME ConvInv, NEW w \in Workers, NEW W, NEW R, NEW d, Stepped(w, W, R, d),
           store' = store, ref' = ref, raced' = raced,
           Updated(work[w].ev) = {}, W = ToWrite(work[w]), R \subseteq ToRemove(work[w]),
           \A s \in ToRemove(work[w]) \ R :
              s \in Footprint(work[w].ev) \ raced => store[s] = Nil \/ s \in R
    PROVE  Solo' /\ Settling' /\ Converges'
<1> DEFINE r == work[w]
           x == work'[w]
           e == work[w].ev
<1>1. x.ev = e /\ x.n = r.n /\ ToWrite(x) = W /\ ToRemove(x) = R
  BY DEF Stepped
<1>2. Stored(Updated(e)) = {}
  BY DEF Stored
<1>3. ASSUME NEW s \in Footprint(e) \ (raced' \cup Blind)
      PROVE  Settled(store', ref', x, s)
  <2>1. Settled(store, ref, r, s)
    BY DEF ConvInv, Settling
  <2> HIDE DEF x, e, r
  <2>2. s \in Stored(Written(e)) =>
          /\ ref[s] = x.n
          /\ s \in ToWrite(x) \/ (s \notin ToRemove(x) /\ Agrees(store, ref, s))
    BY <1>1, <2>1 DEF Settled, e, r
  <2>3. s \in Stored(Erased(e)) \ Stored(Written(e)) =>
          ref[s] = Nil /\ (s \in ToRemove(x) \/ store[s] = Nil)
    BY <1>1, <2>1 DEF Settled, e, r
  <2>4. QED
    BY <1>1, <1>2, <2>2, <2>3 DEF Settled
<1>4. QED
  BY <1>3, TaskSettles

\* The reads of clear_guild and GuildEmojisUpdate.
LEMMA GuildReadSettles ==
    ASSUME ConvInv, NEW w \in Workers \ {Purge},
           GetMembers(w) \/ ClearGet(w) \/ GetEmojiKeys(w) \/ GetEmojis(w)
    PROVE  Solo' /\ Settling' /\ Converges'
<1> DEFINE r == work[w]
           e == work[w].ev
           t == work[w].rest
           c == work[w].cur
<1>0. TypeInv /\ TaskOK(r) /\ GuildSetsSound
  BY DEF ConvInv, SteadyInv, IndexInv, Steady
<1>1. CASE GetMembers(w)
  <2> DEFINE M == idx[<<"guild", e.guild>>]
  <2>1. /\ e.guild \in Guilds /\ e.kind \in ClearKinds
        /\ Stepped(w, AllWrites(e, t), M \cup AllRemoves(e, t), Reading(t))
        /\ UNCHANGED <<redis, received, guild_events, aux>>
    BY <1>0, <1>1, MembersStepped
  <2>2. store' = store /\ ref' = ref /\ raced' = raced /\ Updated(e) = {}
    BY <2>1 DEF redis, aux, Updated, ClearKinds
  <2>3. c.op = "members"
    BY <1>1 DEF GetMembers, At
  <2>4. ToWrite(r) = AllWrites(e, t)
        /\ ToRemove(r) = Stored(GuildItems(e.guild)) \cup AllRemoves(e, t)
    BY <2>3 DEF ToWrite, ToRemove, Writes, Removes
  <2>5. M \subseteq Stored(GuildItems(e.guild))
    BY <1>0, <2>1, GuildSet
  <2>6. \A s \in Stored(GuildItems(e.guild)) :
          s \in Footprint(e) \ raced => store[s] = Nil \/ s \in M
    BY <2>1, <2>3, GuildSetComplete
  <2> HIDE DEF M
  <2> DEFINE R == M \cup AllRemoves(e, t)
  <2>7. /\ R \subseteq ToRemove(r)
        /\ \A s \in ToRemove(r) \ R : s \in Footprint(e) \ raced => store[s] = Nil \/ s \in R
    BY <2>4, <2>5, <2>6
  <2> HIDE DEF R
  <2>8. Stepped(w, AllWrites(e, t), R, Reading(t))
    BY <2>1 DEF R, M
  <2>9. QED
    BY <2>2, <2>4, <2>7, <2>8, ReadSettles
<1>2. CASE ClearGet(w)
  <2> DEFINE R == Stored(c.keys) \cup AllRemoves(e, t)
  <2>1. /\ e.kind \in ClearKinds
        /\ Stepped(w, AllWrites(e, t), R, Reading(t))
        /\ UNCHANGED <<redis, received, guild_events, aux>>
    BY <1>0, <1>2, ClearStepped
  <2>2. store' = store /\ ref' = ref /\ raced' = raced /\ Updated(e) = {}
    BY <2>1 DEF redis, aux, Updated, ClearKinds
  <2>3. c.op = "clear"
    BY <1>2 DEF ClearGet, At
  <2>4. ToWrite(r) = AllWrites(e, t) /\ ToRemove(r) = R
    BY <2>3 DEF ToWrite, ToRemove, Writes, Removes
  <2> HIDE DEF R
  <2>5. QED
    BY <2>1, <2>2, <2>4, ReadSettles
<1>3. CASE GetEmojiKeys(w)
  <2> DEFINE M == idx[<<"guild", e.guild>>]
             K == Of("emoji", M)
             G == GuildKeysOf("emoji", e.guild)
  <2>1. /\ e.guild \in Guilds /\ e.kind = "GuildEmojisUpdate" /\ t = <<>>
        /\ Stepped(w, Stored(e.keys), K \ e.keys, K # {})
        /\ UNCHANGED <<redis, received, guild_events, aux>>
    BY <1>0, <1>3, EmojiKeysStepped
  <2>2. store' = store /\ ref' = ref /\ raced' = raced /\ Updated(e) = {}
    BY <2>1 DEF redis, aux, Updated
  <2>3. c.op = "emoji_keys"
    BY <1>3 DEF GetEmojiKeys, At
  <2>4. ToWrite(r) = Stored(e.keys) /\ ToRemove(r) = G \ e.keys
    BY <2>1, <2>3, NoneProper DEF ToWrite, ToRemove, Writes, Removes
  <2>5. K \subseteq G
    BY <1>0, <2>1, GuildSet
  <2>6. \A s \in G : s \in Footprint(e) \ raced => store[s] = Nil \/ s \in K
    <3> SUFFICES ASSUME NEW s \in G, s \in Footprint(e) \ raced, store[s] # Nil
                 PROVE  s \in K
      OBVIOUS
    <3>1. s \in GuildItems(e.guild) /\ s[1] = "emoji" /\ StoredKey(s) = s
      BY EmojisArePlain DEF GuildKeysOf
    <3>2. s \in Stored(GuildItems(e.guild))
      BY <3>1 DEF Stored
    <3>3. s \in M
      BY <2>1, <2>3, <3>2, GuildSetComplete
    <3>4. QED
      BY <3>1, <3>3 DEF Of
  <2> HIDE DEF M, K, G
  <2> DEFINE R == K \ e.keys
  <2>7. /\ R \subseteq ToRemove(r)
        /\ \A s \in ToRemove(r) \ R : s \in Footprint(e) \ raced => store[s] = Nil \/ s \in R
    BY <2>4, <2>5, <2>6
  <2> HIDE DEF R
  <2>8. Stepped(w, Stored(e.keys), R, K # {})
    BY <2>1 DEF R, K, M
  <2>9. QED
    BY <2>2, <2>4, <2>7, <2>8, ReadSettles
<1>4. CASE GetEmojis(w)
  <2> DEFINE F == {k \in c.keys : store[k] # Nil}
             R == F \ e.keys
  <2>1. /\ e.kind = "GuildEmojisUpdate" /\ t = <<>>
        /\ Stepped(w, Stored(e.keys), R, FALSE)
        /\ UNCHANGED <<redis, received, guild_events, aux>>
    BY <1>0, <1>4, EmojisStepped
  <2>2. store' = store /\ ref' = ref /\ raced' = raced /\ Updated(e) = {}
    BY <2>1 DEF redis, aux, Updated
  <2>3. c.op = "emojis"
    BY <1>4 DEF GetEmojis, At
  <2>4. ToWrite(r) = Stored(e.keys) /\ ToRemove(r) = c.keys \ e.keys
    BY <2>1, <2>3, NoneProper DEF ToWrite, ToRemove, Writes, Removes
  <2>5. /\ R \subseteq ToRemove(r)
        /\ \A s \in ToRemove(r) \ R : s \in Footprint(e) \ raced => store[s] = Nil \/ s \in R
    BY <2>4
  <2> HIDE DEF R
  <2>6. QED
    BY <2>1, <2>2, <2>4, <2>5, ReadSettles
<1>5. QED
  BY <1>1, <1>2, <1>3, <1>4

\* A step of the purge, or of the clock, evicts keys that expire and does nothing else.
LEMMA EvictionSettles ==
    ASSUME ConvInv, Steady', ref' = ref, raced \subseteq raced',
           \A v \in Workers \ {Purge} : work'[v] = work[v],
           \A s \in StoredKeys : store'[s] = store[s] \/ (s \in ExpiryKeys /\ store'[s] = Nil)
    PROVE  Solo' /\ Settling' /\ Converges'
<1>1. Purge \in Workers /\ work[Purge].ev = NoEvent /\ work'[Purge].ev = NoEvent
  BY DEF ConvInv, SteadyInv, Steady, PurgeOK, Workers
<1>2. \A v \in Workers : work'[v].ev = work[v].ev
  BY <1>1
<1>3. \A v \in Workers : Footprint(work[v].ev) \in SUBSET StoredKeys
  BY CurKeys DEF ConvInv, SteadyInv, IndexInv
<1>4. Solo'
  BY <1>2 DEF ConvInv, Solo
<1>5. Settling'
  <2> SUFFICES ASSUME NEW v \in Workers, NEW s \in Footprint(work[v].ev) \ (raced' \cup Blind)
               PROVE  Settled(store', ref', work'[v], s)
    BY <1>2 DEF Settling
  <2>1. v # Purge
    BY <1>1, NoFootprint
  <2>2. Settled(store, ref, work[v], s) /\ work'[v] = work[v]
    BY <2>1 DEF ConvInv, Settling
  <2>3. (store'[s] = store[s] \/ (s \in ExpiryKeys /\ store'[s] = Nil)) /\ ref'[s] = ref[s]
    BY <1>3
  <2>4. QED
    BY <2>2, <2>3, SettledEvicted
<1>6. Converges'
  <2> SUFFICES ASSUME NEW s \in StoredKeys \ (raced' \cup Blind),
                      \A v \in Workers : s \notin Footprint(work[v].ev)
               PROVE  Agrees(store', ref', s)
    BY <1>2 DEF Converges
  <2>1. Agrees(store, ref, s)
    BY DEF ConvInv, Converges
  <2>2. QED
    BY <2>1 DEF Agrees
<1>7. QED
  BY <1>4, <1>5, <1>6

\* A command keeps the convergence invariants.
LEMMA CommandSettles ==
    ASSUME ConvInv, Steady', NEW w \in Workers, Command(w)
    PROVE  Solo' /\ Settling' /\ Converges' /\ DriftRaced'
<1>0. TypeInv /\ Steady /\ GuildSetsSound
  BY DEF ConvInv, SteadyInv, IndexInv
<1>1. DriftRaced'
  <2>1. CASE Mset(w) \/ Delete(w)
    BY <2>1 DEF Mset, Delete, StillAdrift, ConvInv, DriftRaced
  <2>2. CASE Sadd(w) \/ Srem(w) \/ Hset(w) \/ Hdel(w)
    BY <2>2 DEF Sadd, Srem, Hset, Hdel, aux, ConvInv, DriftRaced
  <2>3. CASE Reads(w)
    BY <2>3 DEF Reads, Get, GetAll, Modify, GetMembers, ClearGet, GetEmojiKeys, GetEmojis,
                ReadOld, aux, ConvInv, DriftRaced
  <2>4. QED
    BY <2>1, <2>2, <2>3 DEF Command, Reads
<1>2. CASE w = Purge
  <2>1. /\ Delete(Purge) \/ Srem(Purge) \/ Hdel(Purge)
        /\ \A v \in Workers \ {Purge} : work'[v] = work[v]
    BY <1>0, <1>2, PurgeStep
  <2>2. work[Purge].cur.keys \subseteq ExpiryKeys /\ Stored(work[Purge].cur.keys) = work[Purge].cur.keys
    BY <1>0, ExpiringKey DEF Steady, PurgeOK, Workers
  <2>3. /\ ref' = ref /\ raced \subseteq raced'
        /\ \A s \in StoredKeys : store'[s] = store[s] \/ (s \in ExpiryKeys /\ store'[s] = Nil)
    <3>1. CASE Delete(Purge)
      BY <2>2, <3>1 DEF Delete
    <3>2. CASE Srem(Purge) \/ Hdel(Purge)
      BY <3>2 DEF Srem, Hdel, aux
    <3>3. QED
      BY <2>1, <3>1, <3>2
  <2>4. QED
    BY <1>1, <2>1, <2>3, EvictionSettles
<1>3. CASE w # Purge
  <2>0. TaskOK(work[w])
    BY <1>0, <1>3 DEF Steady
  <2>1. CASE Mset(w)
    BY <1>1, <1>3, <2>1, MsetSettles
  <2>2. CASE Delete(w)
    BY <1>1, <1>3, <2>2, DeleteSettles
  <2>3. CASE Sadd(w) \/ Srem(w) \/ Hset(w) \/ Hdel(w)
    <3>1. MovesOn(w) /\ ~Hdel(w)
      BY <1>0, <2>0, <2>3, ChangesMovesOn DEF Changes
    <3>2. /\ work[w].cur.op \in {"get", "get_all", "sadd", "srem", "expire"}
          /\ store' = store /\ ref' = ref /\ raced' = raced
      BY <2>3, <3>1 DEF Sadd, Srem, Hset, At, aux
    <3>3. QED
      BY <1>1, <3>1, <3>2, MoveSettles
  <2>4. CASE Get(w) \/ GetAll(w)
    <3>1. MovesOn(w) /\ UNCHANGED <<redis, received, guild_events, aux>>
      BY <1>0, <2>0, <2>4, GetMovesOn
    <3>2. /\ work[w].cur.op \in {"get", "get_all", "sadd", "srem", "expire"}
          /\ store' = store /\ ref' = ref /\ raced' = raced
      BY <2>4, <3>1 DEF Get, GetAll, At, redis, aux
    <3>3. QED
      BY <1>1, <3>1, <3>2, MoveSettles
  <2>5. CASE Modify(w)
    BY <1>1, <1>3, <2>5, ModifySettles
  <2>6. CASE GetMembers(w) \/ ClearGet(w) \/ GetEmojiKeys(w) \/ GetEmojis(w)
    BY <1>1, <1>3, <2>6, GuildReadSettles
  <2>7. QED
    BY <2>1, <2>2, <2>3, <2>4, <2>5, <2>6 DEF Command
<1>4. QED
  BY <1>2, <1>3

\* Taking an event off the stream: whatever it shares with an update under way has raced,
\* and the rest of what it concerns is as the reference has it.
LEMMA ReceiveSettles ==
    ASSUME ConvInv, NEW e \in Events, Receive(e)
    PROVE  Solo' /\ Settling' /\ Converges' /\ DriftRaced'
<1>0. TypeInv
  BY DEF ConvInv, SteadyInv, IndexInv
<1>1. PICK w \in Workers \ {Purge} :
              /\ work[w] = Idle
              /\ \A v \in Workers \ {w} : work'[v] = work[v]
              /\ work'[w].ev = e /\ work'[w].n = received + 1
              /\ ToWrite(work'[w]) = AllWrites(e, Script(e))
              /\ ToRemove(work'[w]) = AllRemoves(e, Script(e))
              /\ Updated(e) # {} => work'[w].cur.op = "modify"
              /\ ScriptOK(e, Script(e))
  BY <1>0, Received
<1> DEFINE x == work'[w]
           n == received + 1
<1>2. /\ store' = store /\ drift' = drift /\ ref' = Applied(ref, e, n)
      /\ raced' = raced \cup (Footprint(e) \cap UNION {Footprint(work[v].ev) : v \in Workers})
  BY DEF Receive, redis
<1>3. \A v \in Workers : \A s \in Footprint(e) \cap Footprint(work[v].ev) : s \in raced'
  BY <1>2
<1>4. Footprint(work[w].ev) = {}
  BY <1>1, IdleSteady, NoFootprint
<1>5. Footprint(e) \in SUBSET StoredKeys
  BY FootprintType, WellFormedOK DEF Events
<1>6. \A v \in Workers : Footprint(work[v].ev) \in SUBSET StoredKeys
  BY <1>0, CurKeys
<1>7. \A s \in StoredKeys \ Footprint(e) : ref'[s] = ref[s]
  BY <1>2, FootprintParts DEF Applied
<1>8. \A s \in Footprint(e) \ (raced' \cup Blind) : Agrees(store, ref, s)
  BY <1>2, <1>3, <1>5 DEF ConvInv, Converges
<1>9. Solo'
  <2> SUFFICES ASSUME NEW u \in Workers, NEW v \in Workers, u # v,
                      NEW s \in Footprint(work'[u].ev) \cap Footprint(work'[v].ev)
               PROVE  s \in raced'
    BY DEF Solo
  <2>1. CASE u # w /\ v # w
    BY <1>1, <1>2, <2>1 DEF ConvInv, Solo
  <2>2. CASE u = w \/ v = w
    BY <1>1, <1>3, <2>2
  <2>3. QED
    BY <2>1, <2>2
<1>10. ASSUME NEW s \in Footprint(e) \ (raced' \cup Blind)
       PROVE  Settled(store', ref', x, s)
  <2>1. s \in StoredKeys /\ Agrees(store, ref, s)
    BY <1>5, <1>8
  <2>2. s \in Stored(Written(e)) => ref'[s] = n /\ s \in ToWrite(x)
    BY <1>1, <1>2, <2>1 DEF Applied, ScriptOK
  <2>3. s \in Stored(Erased(e)) \ Stored(Written(e)) => ref'[s] = Nil /\ s \in ToRemove(x)
    <3> SUFFICES ASSUME s \in Stored(Erased(e)) \ Stored(Written(e))
                 PROVE  ref'[s] = Nil /\ s \in ToRemove(x)
      OBVIOUS
    <3>1. Stored(Updated(e)) = {}
      BY UpdatedOnly DEF Stored
    <3>2. ref'[s] = Nil
      BY <1>2, <2>1, <3>1 DEF Applied
    <3>3. QED
      BY <1>1, <3>2 DEF ScriptOK
  <2>4. s \in Stored(Updated(e)) =>
          /\ x.cur.op = "modify"
          /\ IF store[s] = Nil THEN ref'[s] = Nil \/ s \in ExpiryKeys ELSE ref'[s] = n
    <3> SUFFICES ASSUME s \in Stored(Updated(e))
                 PROVE  /\ x.cur.op = "modify"
                        /\ IF store[s] = Nil THEN ref'[s] = Nil \/ s \in ExpiryKeys
                           ELSE ref'[s] = n
      OBVIOUS
    <3>1. Updated(e) # {}
      BY DEF Stored
    <3>2. Stored(Written(e)) = {} /\ Stored(Erased(e)) = {}
      BY <3>1, UpdatedOnly DEF Stored
    <3>3. ref'[s] = IF ref[s] # Nil THEN n ELSE ref[s]
      BY <1>2, <2>1, <3>2 DEF Applied
    <3>4. QED
      BY <1>1, <2>1, <3>1, <3>3 DEF Agrees
  <2> HIDE DEF x
  <2>5. x.ev = e /\ x.n = n
    BY <1>1 DEF x
  <2>6. QED
    BY <1>2, <2>2, <2>3, <2>4, <2>5 DEF Settled
<1>11. Settling'
  <2> SUFFICES ASSUME NEW v \in Workers, NEW s \in Footprint(work'[v].ev) \ (raced' \cup Blind)
               PROVE  Settled(store', ref', work'[v], s)
    BY DEF Settling
  <2>1. CASE v = w
    BY <1>1, <1>10, <2>1
  <2>2. CASE v # w
    <3>1. work'[v] = work[v]
      BY <1>1, <2>2
    <3>2. Settled(store, ref, work[v], s) /\ s \notin Footprint(e) /\ s \in StoredKeys
      BY <1>2, <1>3, <1>6, <3>1 DEF ConvInv, Settling
    <3>3. ref'[s] = ref[s] /\ store'[s] = store[s]
      BY <1>2, <1>7, <3>2
    <3>4. QED
      BY <3>1, <3>2, <3>3, SettledEvicted
  <2>3. QED
    BY <2>1, <2>2
<1>12. Converges'
  <2> SUFFICES ASSUME NEW s \in StoredKeys \ (raced' \cup Blind),
                      \A v \in Workers : s \notin Footprint(work'[v].ev)
               PROVE  Agrees(store', ref', s)
    BY DEF Converges
  <2>1. s \notin Footprint(e) /\ s \notin raced
    BY <1>1, <1>2
  <2>2. \A v \in Workers : s \notin Footprint(work[v].ev)
    BY <1>1, <1>4
  <2>3. Agrees(store, ref, s) /\ ref'[s] = ref[s]
    BY <1>7, <2>1, <2>2 DEF ConvInv, Converges
  <2>4. QED
    BY <1>2, <2>3 DEF Agrees
<1>13. DriftRaced'
  BY <1>2 DEF ConvInv, DriftRaced
<1>14. QED
  BY <1>9, <1>11, <1>12, <1>13

\* The end of an update: what it concerned is as the reference has it.
LEMMA FinishSettles ==
    ASSUME ConvInv, NEW w \in Workers, Finish(w)
    PROVE  Solo' /\ Settling' /\ Converges' /\ DriftRaced'
<1>0. TypeInv /\ Steady /\ work \in [Workers -> Work]
  BY DEF ConvInv, SteadyInv, IndexInv, TypeInv, TypeOK
<1>1. /\ store' = store /\ ref' = ref /\ raced' = raced /\ drift' = drift
      /\ work[w].cur = Nop /\ work'[w] = Idle
      /\ \A v \in Workers \ {w} : work'[v] = work[v]
  BY <1>0 DEF Finish, redis, aux
<1>2. Footprint(work'[w].ev) = {}
  BY <1>1, IdleSteady, NoFootprint
<1>3. \A v \in Workers : \A s \in Footprint(work'[v].ev) : v # w /\ work'[v] = work[v]
  BY <1>1, <1>2
<1>4. Solo'
  BY <1>1, <1>3 DEF ConvInv, Solo
<1>5. Settling'
  <2> SUFFICES ASSUME NEW v \in Workers, NEW s \in Footprint(work'[v].ev) \ (raced' \cup Blind)
               PROVE  Settled(store', ref', work'[v], s)
    BY DEF Settling
  <2>1. Settled(store, ref, work[v], s) /\ work'[v] = work[v]
    BY <1>1, <1>3 DEF ConvInv, Settling
  <2>2. QED
    BY <1>1, <2>1
<1>6. \A s \in Footprint(work[w].ev) \ (raced \cup Blind) : Agrees(store, ref, s)
  <2>1. CASE w = Purge
    BY <1>0, <2>1, NoFootprint DEF Steady, PurgeOK
  <2>2. CASE w # Purge
    <3>1. TaskOK(work[w]) /\ work[w].cur.op = "nop"
      BY <1>0, <1>1, <2>2, NopPlanned DEF Steady
    <3>2. work[w].rest = <<>>
      BY <1>0, <3>1, TaskEvent, LastInOrder
    <3>3. ToWrite(work[w]) = {} /\ ToRemove(work[w]) = {}
      BY <1>1, <3>2, NopInOrder, NoneProper DEF ToWrite, ToRemove
    <3>4. QED
      BY <3>1, <3>3, SettledDone DEF ConvInv, Settling
  <2>3. QED
    BY <2>1, <2>2
<1>7. Converges'
  <2> SUFFICES ASSUME NEW s \in StoredKeys \ (raced' \cup Blind),
                      \A v \in Workers : s \notin Footprint(work'[v].ev)
               PROVE  Agrees(store', ref', s)
    BY DEF Converges
  <2>1. CASE s \in Footprint(work[w].ev)
    BY <1>1, <1>6, <2>1
  <2>2. CASE s \notin Footprint(work[w].ev)
    <3>1. \A v \in Workers : s \notin Footprint(work[v].ev)
      BY <1>1, <2>2
    <3>2. Agrees(store, ref, s)
      BY <1>1, <3>1 DEF ConvInv, Converges
    <3>3. QED
      BY <1>1, <3>2
  <2>3. QED
    BY <2>1, <2>2
<1>8. QED
  BY <1>1, <1>4, <1>5, <1>7 DEF ConvInv, DriftRaced

\* The failure of a command: whatever the event concerns has raced.
LEMMA FailSettles ==
    ASSUME ConvInv, NEW w \in Workers, Fail(w), Steady'
    PROVE  Solo' /\ Settling' /\ Converges' /\ DriftRaced'
<1>0. TypeInv /\ Steady
  BY DEF ConvInv, SteadyInv, IndexInv
<1>1. /\ store' = store /\ ref' = ref /\ raced' = raced \cup Unfinished(w)
      /\ drift' = drift \cup CutShort(w)
  BY DEF Fail, redis
<1>2. DriftRaced'
  BY <1>1 DEF CutShort, Unfinished, ConvInv, DriftRaced
<1>3. CASE w = Purge
  <2>1. \A v \in Workers \ {Purge} : work'[v] = work[v]
    BY <1>0, <1>3, PurgeFails
  <2>2. QED
    BY <1>1, <1>2, <2>1, EvictionSettles
<1>4. CASE w # Purge
  <2>1. PICK W, R, d : Stepped(w, W, R, d)
    BY <1>0, <1>4, FailStepped DEF MovesOn, Steady
  <2>2. Footprint(work[w].ev) \subseteq raced'
    BY <1>1 DEF Unfinished
  <2>3. QED
    BY <1>1, <1>2, <2>1, <2>2, TaskSettles
<1>5. QED
  BY <1>3, <1>4

\* A restart: so has whatever the updates it ends concern.
LEMMA RestartSettles ==
    ASSUME ConvInv, Restart
    PROVE  Solo' /\ Settling' /\ Converges' /\ DriftRaced'
<1>1. /\ store' = store /\ ref' = ref /\ \A v \in Workers : work'[v] = Idle
      /\ raced' = raced \cup UNION {Unfinished(v) : v \in Workers}
      /\ drift' = drift \cup UNION {CutShort(v) : v \in Workers}
  BY DEF Restart, redis
<1>2. \A v \in Workers : Footprint(work'[v].ev) = {}
  BY <1>1, IdleSteady, NoFootprint
<1>3. \A v \in Workers : Footprint(work[v].ev) \subseteq raced'
  BY <1>1 DEF Unfinished
<1>4. Solo' /\ Settling'
  BY <1>2 DEF Solo, Settling
<1>5. Converges'
  <2> SUFFICES ASSUME NEW s \in StoredKeys \ (raced' \cup Blind) PROVE Agrees(store', ref', s)
    BY DEF Converges
  <2>1. \A v \in Workers : s \notin Footprint(work[v].ev)
    BY <1>3
  <2>2. QED
    BY <1>1, <2>1 DEF ConvInv, Converges
<1>6. DriftRaced'
  <2>1. \A v \in Workers : CutShort(v) \subseteq Unfinished(v)
    BY DEF CutShort, Unfinished
  <2>2. QED
    BY <1>1, <2>1 DEF ConvInv, DriftRaced
<1>7. QED
  BY <1>4, <1>5, <1>6

\* Initially the cache and the reference are empty.
LEMMA InitConv == Init => ConvInv
<1> SUFFICES ASSUME Init PROVE ConvInv
  OBVIOUS
<1>1. \A v \in Workers : Footprint(work[v].ev) = {}
  BY IdleSteady, NoFootprint DEF Init
<1>2. Solo /\ Settling
  BY <1>1 DEF Solo, Settling
<1>3. Converges /\ DriftRaced
  BY DEF Init, Converges, Agrees, DriftRaced
<1>4. QED
  BY <1>2, <1>3, InitSteady DEF ConvInv

\* Every step keeps the convergence invariant.
LEMMA NextConv == ConvInv /\ [Next]_vars => ConvInv'
<1> SUFFICES ASSUME ConvInv, [Next]_vars PROVE Solo' /\ Settling' /\ Converges' /\ DriftRaced'
  BY NextSteady DEF ConvInv
<1>0. SteadyInv' /\ Steady'
  BY NextSteady DEF ConvInv, SteadyInv
<1>1. ASSUME NEW e \in Events, Receive(e)
      PROVE  Solo' /\ Settling' /\ Converges' /\ DriftRaced'
  BY <1>1, ReceiveSettles
<1>2. ASSUME NEW w \in Workers, Command(w) \/ Fail(w) \/ Finish(w)
      PROVE  Solo' /\ Settling' /\ Converges' /\ DriftRaced'
  BY <1>0, <1>2, CommandSettles, FailSettles, FinishSettles
<1>3. CASE Scan \/ \E k \in ExpiryKeys : Elapse(k)
  <2>1. store' = store /\ ref' = ref /\ raced' = raced /\ drift' = drift
    BY <1>3 DEF Scan, Elapse, redis, aux
  <2>2. work \in [Workers -> Work]
    BY DEF ConvInv, SteadyInv, IndexInv, TypeInv, TypeOK
  <2>3. \A v \in Workers \ {Purge} : work'[v] = work[v]
    <3> DEFINE K == {k \in ExpiryKeys : expiry[k] = "expired"}
               x == [Idle EXCEPT !.cur = Do("del", K), !.rest = <<Do("hdel", K)>>]
    <3>1. CASE Scan
      <4>1. work' = [work EXCEPT ![Purge] = x]
        BY <3>1 DEF Scan
      <4> HIDE DEF x
      <4>2. QED
        BY <2>2, <4>1
    <3>2. CASE \E k \in ExpiryKeys : Elapse(k)
      BY <3>2 DEF Elapse
    <3>3. QED
      BY <1>3, <3>1, <3>2
  <2>4. Solo' /\ Settling' /\ Converges'
    BY <1>0, <2>1, <2>3, EvictionSettles
  <2>5. QED
    BY <2>1, <2>4 DEF ConvInv, DriftRaced
<1>4. CASE Restart
  BY <1>4, RestartSettles
<1>5. CASE UNCHANGED vars
  BY <1>5 DEF vars, ConvInv, Solo, Settling, Converges, DriftRaced
<1>6. QED
  BY <1>1, <1>2, <1>3, <1>4, <1>5 DEF Next

\* Once every event that concerns a key has been dealt with the cache holds for it what
\* applying the events one at a time in gateway order gives, evictions aside; this fails
\* only for a key that two overlapping handlers have touched or a failure hit, and for the
\* channels of guilds if there are ChannelPinsUpdates.
THEOREM Convergence == Spec => []Converges
<1>1. ConvInv => Converges
  BY DEF ConvInv
<1>2. QED
  BY <1>1, InitConv, NextConv, PTL DEF Spec

\* The property itself, if there is no ChannelPinsUpdate or no channel of a guild: exactly
\* then does every ChannelPinsUpdate find its channel.
THEOREM CacheConverges ==
    ASSUME Blind = {}
    PROVE  Spec => []ConvergesToReference
<1>1. ConvInv => ConvergesToReference
  BY DEF ConvInv, Converges, ConvergesToReference, Agrees
<1>2. QED
  BY <1>1, InitConv, NextConv, PTL DEF Spec
-----------------------------------------------------------------------------
(* The old value is the previous one. *)

\* None of the objects whose previous value `update` returns is the channel of a guild.
Seen(e) == Stored(OldOf(e)) \cap Hidden = {}

\* prior is about objects of the event that were there.
PriorOK(r) == \A p \in r.prior : p[1] \in Stored(OldOf(r.ev)) /\ p[2] # Nil

\* The cache st still holds what the event has found, evicted objects aside, and a
\* GuildEmojisUpdate is about to read every emoji of its guild that is there.
Matches(st, r) ==
    /\ \A p \in r.prior : st[p[1]] = p[2] \/ (p[1] \in ExpiryKeys /\ st[p[1]] = Nil)
    /\ \A s \in OldOf(r.ev) : st[s] # Nil => <<s, st[s]>> \in r.prior
    /\ r.cur.op = "emojis" => \A s \in OldOf(r.ev) \ r.cur.keys : st[s] = Nil

OldGood(r) == r.old \subseteq r.prior /\ \A p \in r.prior \ r.old : p[1] \in ExpiryKeys

\* Until the update of r has read its old value the cache holds it; from then on r does.
\* rc are the keys that have raced.
Known(st, rc, r) ==
    Seen(r.ev) /\ Footprint(r.ev) \cap rc = {} =>
        IF ToRead(r) THEN Matches(st, r) ELSE OldGood(r)

Remembers ==
    \A w \in Workers \ {Purge} : PriorOK(work[w]) /\ Known(store, raced, work[w])

\* The inductive invariant.
OldInv == ConvInv /\ Remembers

\* OldIsPrevious, for the events that are not about the channel of a guild.
SeenIsPrevious ==
    \A w \in Tasks :
        Seen(work[w].ev) /\ work[w].cur = Nop /\ Footprint(work[w].ev) \cap raced = {} =>
            OldGood(work[w])
-----------------------------------------------------------------------------
\* The objects whose previous value an event is after are among those it concerns.
LEMMA OldInFootprint ==
    ASSUME NEW e, e = NoEvent \/ e \in Events
    PROVE  EventOK(e) /\ Stored(OldOf(e)) \subseteq Footprint(e)
<1>0. EventOK(e) /\ (e.kind = "none" => e = NoEvent)
  BY NoEventOK, WellFormedOK, StateCacheAssumption DEF Events, AllKinds
<1>1. OldOf(e) \subseteq Erased(e) \cup Written(e) \cup Updated(e)
  <2>1. CASE ~Handled(e) \/ e.kind = "none"
    BY <1>0, <2>1, NoFootprint DEF OldOf
  <2>2. CASE Handled(e) /\ e.kind \in {"GuildCreate", "GuildDelete", "UnavailableGuild",
                                       "GuildEmojisUpdate", "MemberRemove"}
    BY <2>2 DEF OldOf, Erased, Of
  <2>3. CASE Handled(e) /\ e.kind \in {"ChannelDelete", "RoleDelete", "MessageDelete",
                                       "MessageDeleteBulk"}
    BY <2>3 DEF OldOf, Erased
  <2>4. CASE Handled(e) /\ e.kind \in {"ChannelUpdate", "GuildUpdate", "PresenceUpdate",
                                       "RoleUpdate", "UserUpdate"}
    BY <2>4 DEF OldOf, Written
  <2>5. CASE Handled(e) /\ e.kind = "VoiceStateUpdate"
    BY <2>5 DEF OldOf, Written, Erased
  <2>6. CASE Handled(e) /\ e.kind \in {"MemberUpdate", "MessageUpdate"}
    BY <2>6 DEF OldOf, Updated
  <2>7. CASE e.kind \in {"ChannelCreate", "ChannelPinsUpdate", "MemberAdd", "MemberChunk",
                         "MessageCreate", "Ready", "RoleCreate"}
    BY <2>7 DEF OldOf
  <2>8. e.kind \in AllKinds \cup {"none"}
    BY <1>0 DEF EventOK, Event
  <2>9. QED
    BY <2>1, <2>2, <2>3, <2>4, <2>5, <2>6, <2>7, <2>8 DEF AllKinds
<1>2. QED
  BY <1>0, <1>1 DEF Footprint, Stored

\* Those objects are stored under the keys they are read by.
LEMMA SeenKeys ==
    ASSUME NEW e, e = NoEvent \/ e \in Events, Seen(e)
    PROVE  /\ OldOf(e) \subseteq StoredKeys
           /\ Stored(OldOf(e)) = OldOf(e)
           /\ OldOf(e) \subseteq Footprint(e) \ Blind
<1>1. OldOf(e) \subseteq EventKeys
  BY OldInFootprint, OldOfType
<1>2. ASSUME NEW k \in OldOf(e)
      PROVE  StoredKey(k) = k
  <2>1. CASE k \notin ChannelKeys
    BY <1>1, <2>1, PlainKey
  <2>2. CASE k \in ChannelKeys
    <3>1. PICK c \in Channels : k = channel_key(c)
      BY <2>2 DEF ChannelKeys
    <3>2. StoredKey(k) = <<"channel", c>>
      BY <3>1 DEF channel_key, StoredKey
    <3>3. StoredKey(k) \notin Hidden
      BY DEF Seen, Stored
    <3>4. GuildOf[c] = NoGuild
      BY <3>2, <3>3 DEF Hidden
    <3>5. QED
      BY <3>1, <3>2, <3>4 DEF channel_key
  <2>3. QED
    BY <2>1, <2>2
<1>3. Stored(OldOf(e)) = OldOf(e)
  BY <1>2 DEF Stored
<1>4. QED
  BY <1>1, <1>2, <1>3, OldInFootprint DEF Blind, Seen, StoredKeys, Stored

\* What holds of a worker that stays where it is, if the cache changes for other keys only
\* or evicts some.
LEMMA KnownSame ==
    ASSUME NEW st, NEW rc, NEW r, Known(st, rc, r), PriorOK(r),
           r.ev = NoEvent \/ r.ev \in Events,
           NEW st2, NEW rc2, rc \subseteq rc2,
           \A s \in Footprint(r.ev) \ rc2 :
              st2[s] = st[s] \/ (s \in ExpiryKeys /\ st2[s] = Nil)
    PROVE  Known(st2, rc2, r)
<1> SUFFICES ASSUME Seen(r.ev), Footprint(r.ev) \cap rc2 = {}
             PROVE  IF ToRead(r) THEN Matches(st2, r) ELSE OldGood(r)
  BY DEF Known
<1>1. Footprint(r.ev) \cap rc = {}
  OBVIOUS
<1>2. IF ToRead(r) THEN Matches(st, r) ELSE OldGood(r)
  BY <1>1 DEF Known
<1>3. \A s \in OldOf(r.ev) : st2[s] = st[s] \/ (s \in ExpiryKeys /\ st2[s] = Nil)
  BY SeenKeys
<1>4. \A p \in r.prior : p[1] \in OldOf(r.ev)
  BY SeenKeys DEF PriorOK
<1>5. QED
  BY <1>2, <1>3, <1>4 DEF Matches

\* A worker that moves on while the objects it is about stay as they are.
LEMMA KnownStep ==
    ASSUME NEW st, NEW rc, NEW r, Known(st, rc, r), PriorOK(r),
           r.ev = NoEvent \/ r.ev \in Events,
           NEW st2, NEW rc2, rc \subseteq rc2, NEW x,
           x.ev = r.ev, x.prior = r.prior, x.old = r.old \/ ToRead(r),
           ToRead(x) <=> ToRead(r), x.cur.op # "emojis",
           ToRead(r) => \A s \in Stored(OldOf(r.ev)) : st2[s] = st[s]
    PROVE  Known(st2, rc2, x)
<1> SUFFICES ASSUME Seen(r.ev), Footprint(r.ev) \cap rc2 = {}
             PROVE  IF ToRead(x) THEN Matches(st2, x) ELSE OldGood(x)
  BY DEF Known
<1>1. IF ToRead(r) THEN Matches(st, r) ELSE OldGood(r)
  BY DEF Known
<1>2. Stored(OldOf(r.ev)) = OldOf(r.ev) /\ \A p \in r.prior : p[1] \in OldOf(r.ev)
  BY SeenKeys DEF PriorOK
<1>3. QED
  BY <1>1, <1>2 DEF Matches, OldGood

\* A worker that has read its old value from the cache.
LEMMA KnownRead ==
    ASSUME NEW st, NEW rc, NEW r, Known(st, rc, r), PriorOK(r),
           r.ev = NoEvent \/ r.ev \in Events,
           r.prior \subseteq StoredKeys \X Nat, ToRead(r), NEW x,
           x.ev = r.ev, x.prior = r.prior, ~ToRead(x),
           Seen(r.ev) /\ Footprint(r.ev) \cap rc = {} => x.old = Holds(st, OldOf(r.ev))
    PROVE  Known(st, rc, x)
<1> SUFFICES ASSUME Seen(r.ev), Footprint(r.ev) \cap rc = {} PROVE OldGood(x)
  BY DEF Known
<1>1. Matches(st, r)
  BY DEF Known
<1>2. Stored(OldOf(r.ev)) = OldOf(r.ev) /\ \A p \in r.prior : p[1] \in OldOf(r.ev) /\ p[2] # Nil
  BY SeenKeys DEF PriorOK
<1>3. x.old = {<<s, st[s]>> : s \in {y \in OldOf(r.ev) : st[y] # Nil}}
  BY <1>2 DEF Holds
<1>4. x.old \subseteq x.prior
  BY <1>1, <1>3 DEF Matches
<1>5. ASSUME NEW p \in x.prior \ x.old, p[1] \notin ExpiryKeys
      PROVE  FALSE
  <2>1. st[p[1]] = p[2] /\ p[1] \in OldOf(r.ev) /\ p[2] # Nil
    BY <1>1, <1>2, <1>5 DEF Matches
  <2>2. p = <<p[1], p[2]>>
    OBVIOUS
  <2>3. p \in x.old
    BY <1>3, <2>1, <2>2
  <2>4. QED
    BY <2>3
<1>6. QED
  BY <1>4, <1>5 DEF OldGood

\* A worker that another one's step leaves alone.
LEMMA Unmoved ==
    ASSUME OldInv, NEW v \in Workers \ {Purge}, work'[v] = work[v], raced \subseteq raced',
           \A s \in Footprint(work[v].ev) \ raced' :
              store'[s] = store[s] \/ (s \in ExpiryKeys /\ store'[s] = Nil)
    PROVE  PriorOK(work'[v]) /\ Known(store', raced', work'[v])
<1> DEFINE r == work[v]
<1>1. PriorOK(r) /\ Known(store, raced, r)
  BY DEF OldInv, Remembers
<1>2. r.ev = NoEvent \/ r.ev \in Events
  BY DEF OldInv, ConvInv, SteadyInv, Steady, TaskOK
<1>3. Known(store', raced', r)
  <2> HIDE DEF r
  <2>1. \A s \in Footprint(r.ev) \ raced' :
              store'[s] = store[s] \/ (s \in ExpiryKeys /\ store'[s] = Nil)
    BY DEF r
  <2>2. QED
    BY <1>1, <1>2, <2>1, KnownSame
<1>4. QED
  BY <1>1, <1>3

\* While a read is yet to come, and it is not the next operation, an update is clearing a
\* guild and leaves the guild's own record alone.
LEMMA StillReading ==
    ASSUME NEW e, NEW c, NEW t, InOrder(e, c, t), Reading(t)
    PROVE  /\ c.op \in {"members", "del", "srem"}
           /\ c.op = "del" => Stored(c.keys) \cap Stored(OldOf(e)) = {}
<1>1. PICK i \in 1 .. Len(t) : t[i].op \in ReadOps
  BY DEF Reading
<1>2. Before(e, c, t[i]) /\ Fits(e, t[i])
  BY DEF InOrder, First, Proper
<1>3. t[i].op = "clear"
  BY <1>1, <1>2 DEF Before, ReadOps
<1>4. OldOf(e) = t[i].keys
  BY <1>2, <1>3 DEF Fits, OldOf, ClearKinds
<1>5. QED
  BY <1>2, <1>3, <1>4 DEF Before, Removes

\* A command of a task that changes Redis.
LEMMA ChangesKnown ==
    ASSUME OldInv, NEW w \in Workers \ {Purge}, Changes(w)
    PROVE  Remembers'
<1> DEFINE r == work[w]
           x == work'[w]
<1>0. TypeInv /\ TaskOK(r) /\ Solo /\ w \in Workers
  BY DEF OldInv, ConvInv, SteadyInv, IndexInv, Steady
<1>1. /\ InOrder(r.ev, r.cur, r.rest)
      /\ r.ev = NoEvent \/ r.ev \in Events
      /\ PriorOK(r) /\ Known(store, raced, r)
  BY <1>0 DEF TaskOK, OldInv, Remembers
<1>2. MovesOn(w) /\ x.old = r.old
  BY <1>0, ChangesMovesOn
<1>3. /\ r.cur.op \in {"set", "sadd", "del", "srem", "expire", "hdel"}
      /\ raced \subseteq raced'
      /\ \A s \in StoredKeys :
            (r.cur.op \in {"set", "del"} /\ s \in Stored(r.cur.keys)) \/ store'[s] = store[s]
  BY DEF Changes, Mset, Sadd, Delete, Srem, Hset, Hdel, At, aux
<1>4. \A v \in Workers : Footprint(work[v].ev) \in SUBSET StoredKeys
  BY <1>0, CurKeys
<1>5. \A s \in StoredKeys : s \in Footprint(r.ev) \/ store'[s] = store[s]
  BY <1>0, <1>3, TaskFootprint
<1>6. Stored(OldOf(r.ev)) \in SUBSET StoredKeys
  BY <1>1, <1>4, OldInFootprint
<1>7. PriorOK(x) /\ Known(store', raced', x)
  <2>1. /\ x.ev = r.ev /\ x.prior = r.prior /\ x.cur.op # "emojis"
        /\ ToRead(x) <=> Reading(r.rest)
    BY <1>2 DEF MovesOn, Stepped, OnlyFirst
  <2>2. ToRead(r) <=> Reading(r.rest)
    BY <1>3 DEF ToRead, ReadOps
  <2>3. ToRead(r) => \A s \in Stored(OldOf(r.ev)) : store'[s] = store[s]
    <3> SUFFICES ASSUME Reading(r.rest), NEW s \in Stored(OldOf(r.ev))
                 PROVE  store'[s] = store[s]
      BY <2>2
    <3>1. r.cur.op \in {"del", "srem"} /\ (r.cur.op = "del" => s \notin Stored(r.cur.keys))
      BY <1>1, <1>3, StillReading
    <3>2. QED
      BY <1>3, <1>6, <3>1
  <2> HIDE DEF r, x
  <2>4. Known(store', raced', x)
    BY <1>1, <1>2, <1>3, <2>1, <2>2, <2>3, KnownStep
  <2>5. QED
    BY <1>1, <2>1, <2>4 DEF PriorOK
<1>8. ASSUME NEW v \in Workers \ {Purge}, v # w
      PROVE  PriorOK(work'[v]) /\ Known(store', raced', work'[v])
  <2>1. work'[v] = work[v]
    BY <1>2, <1>8 DEF MovesOn, Stepped
  <2>2. \A s \in Footprint(work[v].ev) \ raced' : store'[s] = store[s]
    BY <1>0, <1>3, <1>4, <1>5, <1>8 DEF Solo
  <2>3. QED
    BY <1>3, <2>1, <2>2, Unmoved
<1>9. QED
  BY <1>7, <1>8 DEF Remembers

\* What a read finds of the objects of an event.
LEMMA FoundHolds ==
    ASSUME NEW e, e = NoEvent \/ e \in Events, Seen(e), NEW st
    PROVE  /\ Found(st, OldOf(e)) = Holds(st, OldOf(e))
           /\ Holds(st, {}) = {}
<1>1. OldOf(e) \cap StoredKeys = OldOf(e)
  BY SeenKeys
<1>2. QED
  BY <1>1 DEF Found, Holds, Stored

\* A read after which the update has its old value.
LEMMA LastReadKnown ==
    ASSUME OldInv, NEW w \in Workers \ {Purge}, NEW W, NEW R, NEW d, Stepped(w, W, R, d), ~d,
           UNCHANGED <<redis, received, guild_events, aux>>, work[w].cur.op \in ReadOps,
           Seen(work[w].ev) /\ Footprint(work[w].ev) \cap raced = {} =>
              work'[w].old = Holds(store, OldOf(work[w].ev))
    PROVE  PriorOK(work'[w]) /\ Known(store', raced', work'[w])
<1> DEFINE r == work[w]
           x == work'[w]
<1>0. TypeInv /\ TaskOK(r) /\ store' = store /\ raced' = raced
  BY DEF OldInv, ConvInv, SteadyInv, IndexInv, Steady, redis, aux
<1>1. /\ r.ev = NoEvent \/ r.ev \in Events
      /\ PriorOK(r) /\ Known(store, raced, r)
      /\ r.prior \subseteq StoredKeys \X Nat
  BY <1>0 DEF TaskOK, OldInv, Remembers, TypeInv, TypeOK, Work
<1>2. ToRead(r) /\ ~ToRead(x) /\ x.ev = r.ev /\ x.prior = r.prior
  BY DEF ToRead, Stepped
<1>3. Seen(r.ev) /\ Footprint(r.ev) \cap raced = {} => x.old = Holds(store, OldOf(r.ev))
  OBVIOUS
<1> HIDE DEF r, x
<1>4. Known(store, raced, x)
  BY <1>1, <1>2, <1>3, KnownRead
<1>5. PriorOK(x)
  BY <1>1, <1>2 DEF PriorOK
<1>6. QED
  BY <1>0, <1>4, <1>5 DEF x

\* GET and MGET of an old value, and GET of what is to be modified or cleared.
LEMMA ObjectReadKnown ==
    ASSUME OldInv, NEW w \in Workers \ {Purge},
           Get(w) \/ GetAll(w) \/ Modify(w) \/ ClearGet(w)
    PROVE  PriorOK(work'[w]) /\ Known(store', raced', work'[w])
<1> DEFINE r == work[w]
           e == work[w].ev
           K == work[w].cur.keys
<1>0. TypeInv /\ TaskOK(r) /\ w \in Workers
  BY DEF OldInv, ConvInv, SteadyInv, IndexInv, Steady
<1>1. /\ InOrder(e, r.cur, r.rest) /\ Fits(e, r.cur)
      /\ e = NoEvent \/ e \in Events
  BY <1>0, TaskEvent DEF TaskOK
<1>2. r.cur.op \in {"get", "get_all", "modify", "clear"} /\ r.cur.op \in ReadOps
  BY DEF Get, GetAll, Modify, ClearGet, At, ReadOps
<1>3. ~Reading(r.rest)
  BY <1>1, <1>2, StillReading
<1>4. Seen(e) => Found(store, OldOf(e)) = Holds(store, OldOf(e)) /\ Holds(store, {}) = {}
  BY <1>1, FoundHolds
<1>5. CASE Get(w) \/ GetAll(w)
  <2>1. /\ MovesOn(w)
        /\ UNCHANGED <<redis, received, guild_events, aux>>
        /\ work'[w].old = IF At(w, "get") \/ state_old THEN Found(store, K) ELSE {}
    BY <1>0, <1>5, GetMovesOn
  <2>2. OldOf(e) = IF At(w, "get") \/ state_old THEN K ELSE {}
    BY <1>1, <1>5 DEF Get, GetAll, At, Fits
  <2>3. Seen(e) => work'[w].old = Holds(store, OldOf(e))
    BY <1>4, <2>1, <2>2
  <2>4. QED
    BY <1>2, <1>3, <2>1, <2>3, LastReadKnown DEF MovesOn
<1>6. CASE Modify(w)
  <2>1. /\ Found(store, K) = {} => Stepped(w, {}, {}, FALSE)
        /\ Found(store, K) # {} => MovesOn(w)
        /\ UNCHANGED <<redis, received, guild_events, aux>>
        /\ work'[w].old = IF state_old /\ e.kind # "ChannelPinsUpdate"
                          THEN Found(store, K) ELSE {}
    BY <1>0, <1>6, ModifyStepped
  <2>2. K = Updated(e) /\ Updated(e) # {}
    BY <1>1, <1>6 DEF Modify, At, Fits
  <2>3. Handled(e) /\ e.kind \in {"ChannelPinsUpdate", "MemberUpdate", "MessageUpdate"} /\ K = e.keys
    BY <2>2 DEF Updated
  <2>4. OldOf(e) = IF state_old /\ e.kind # "ChannelPinsUpdate" THEN K ELSE {}
    BY <2>3 DEF OldOf
  <2>5. Seen(e) => work'[w].old = Holds(store, OldOf(e))
    BY <1>4, <2>1, <2>4
  <2>6. CASE Found(store, K) = {}
    BY <1>2, <2>1, <2>5, <2>6, LastReadKnown
  <2>7. CASE Found(store, K) # {}
    <3>1. Stepped(w, AllWrites(e, r.rest), AllRemoves(e, r.rest), Reading(r.rest))
      BY <2>1, <2>7 DEF MovesOn
    <3>2. QED
      BY <1>2, <1>3, <2>1, <2>5, <3>1, LastReadKnown
  <2>8. QED
    BY <2>6, <2>7
<1>7. CASE ClearGet(w)
  <2>1. /\ e.kind \in ClearKinds /\ Handled(e) /\ K = {guild_key(e.guild)}
        /\ Stepped(w, AllWrites(e, r.rest), Stored(K) \cup AllRemoves(e, r.rest),
                   Reading(r.rest))
        /\ work'[w].old = Found(store, K)
        /\ UNCHANGED <<redis, received, guild_events, aux>>
    BY <1>0, <1>7, ClearStepped
  <2>2. OldOf(e) = K
    BY <2>1 DEF OldOf, ClearKinds
  <2>3. QED
    BY <1>2, <1>3, <1>4, <2>1, <2>2, LastReadKnown
<1>8. QED
  BY <1>5, <1>6, <1>7

\* SMEMBERS of the guild to be cleared: the read of its own record is still to come.
LEMMA MembersKnown ==
    ASSUME OldInv, NEW w \in Workers \ {Purge}, GetMembers(w)
    PROVE  PriorOK(work'[w]) /\ Known(store', raced', work'[w])
<1> DEFINE r == work[w]
           x == work'[w]
           M == idx[<<"guild", work[w].ev.guild>>]
<1>0. TypeInv /\ TaskOK(r) /\ GuildSetsSound /\ w \in Workers
  BY DEF OldInv, ConvInv, SteadyInv, IndexInv, Steady
<1>1. /\ InOrder(r.ev, r.cur, r.rest)
      /\ r.ev = NoEvent \/ r.ev \in Events
      /\ PriorOK(r) /\ Known(store, raced, r)
  BY <1>0 DEF TaskOK, OldInv, Remembers
<1>2. /\ r.ev.kind \in ClearKinds
      /\ Stepped(w, AllWrites(r.ev, r.rest), M \cup AllRemoves(r.ev, r.rest), Reading(r.rest))
      /\ UNCHANGED <<redis, received, guild_events, aux>>
  BY <1>0, MembersStepped
<1>3. Reading(r.rest)
  BY <1>1 DEF GetMembers, At, InOrder, First, Reading, ReadOps
<1>4. /\ x.ev = r.ev /\ x.prior = r.prior /\ ToRead(x) /\ ToRead(r)
      /\ InOrder(x.ev, x.cur, x.rest)
  BY <1>2, <1>3 DEF Stepped, ToRead
<1>5. x.cur.op # "emojis"
  BY <1>2, <1>4 DEF InOrder, Fits, ClearKinds
<1>6. store' = store /\ raced' = raced
  BY <1>2 DEF redis, aux
<1> HIDE DEF r, x, M
<1>7. Known(store, raced, x)
  BY <1>1, <1>4, <1>5, KnownStep
<1>8. QED
  BY <1>1, <1>4, <1>6, <1>7 DEF PriorOK, x

\* GuildEmojisUpdate: the helper set of the guild names every emoji that is there, and
\* those it names are all read.
LEMMA EmojisKnown ==
    ASSUME OldInv, NEW w \in Workers \ {Purge}, GetEmojiKeys(w) \/ GetEmojis(w)
    PROVE  PriorOK(work'[w]) /\ Known(store', raced', work'[w])
<1> DEFINE r == work[w]
           x == work'[w]
           e == work[w].ev
<1>0. TypeInv /\ TaskOK(r) /\ GuildSetsSound /\ ConvInv /\ w \in Workers
  BY DEF OldInv, ConvInv, SteadyInv, IndexInv, Steady
<1>1. /\ e = NoEvent \/ e \in Events
      /\ PriorOK(r) /\ Known(store, raced, r)
  BY <1>0 DEF TaskOK, OldInv, Remembers
<1>2. ToRead(r) /\ r.cur.op \in ReadOps /\ r.cur.op # "sadd"
  BY DEF ToRead, GetEmojiKeys, GetEmojis, At, ReadOps
<1>3. Seen(e) => Found(store, OldOf(e)) = Holds(store, OldOf(e)) /\ Holds(store, {}) = {}
  BY <1>1, FoundHolds
<1>4. CASE GetEmojis(w)
  <2> DEFINE F == {k \in r.cur.keys : store[k] # Nil}
  <2>1. /\ e.kind = "GuildEmojisUpdate" /\ Handled(e)
        /\ r.cur.keys \subseteq GuildKeysOf("emoji", e.guild)
        /\ Stepped(w, Stored(e.keys), F \ e.keys, FALSE)
        /\ x.old = IF state_old THEN Found(store, F) ELSE {}
        /\ UNCHANGED <<redis, received, guild_events, aux>>
    BY <1>0, <1>4, EmojisStepped
  <2>2. OldOf(e) = IF state_old THEN GuildKeysOf("emoji", e.guild) ELSE {}
    BY <2>1 DEF OldOf
  <2>3. ASSUME Seen(e), Footprint(e) \cap raced = {}
        PROVE  x.old = Holds(store, OldOf(e))
    <3>1. CASE ~state_old
      BY <1>3, <2>1, <2>2, <2>3, <3>1
    <3>2. CASE state_old
      <4>1. r.cur.op = "emojis"
        BY <1>4 DEF GetEmojis, At
      <4>2. Matches(store, r)
        BY <1>1, <1>2, <2>3 DEF Known
      <4>3. \A s \in OldOf(e) : store[s] # Nil <=> s \in F
        BY <2>1, <2>2, <3>2, <4>1, <4>2 DEF Matches
      <4>4. OldOf(e) \subseteq StoredKeys /\ F \subseteq OldOf(e)
        BY <1>1, <2>1, <2>2, <2>3, <3>2, SeenKeys
      <4> HIDE DEF F
      <4>5. Stored(OldOf(e)) = OldOf(e) /\ Stored(F) = F /\ F \cap StoredKeys = F
        <5>1. \A s \in StoredKeys : StoredKey(s) = s
          BY StoredKeyIdempotent DEF StoredKeys, Stored
        <5>2. QED
          BY <4>4, <5>1 DEF Stored
      <4>6. {s \in OldOf(e) : store[s] # Nil} = {s \in F : store[s] # Nil}
        BY <4>3, <4>4
      <4>7. Found(store, F) = Holds(store, OldOf(e))
        BY <4>5, <4>6 DEF Found, Holds
      <4>8. QED
        BY <2>1, <3>2, <4>7
    <3>3. QED
      BY <3>1, <3>2
  <2> HIDE DEF F
  <2>4. QED
    BY <1>2, <2>1, <2>3, LastReadKnown
<1>5. CASE GetEmojiKeys(w)
  <2> DEFINE K == Of("emoji", idx[<<"guild", e.guild>>])
  <2>1. /\ e.guild \in Guilds /\ e.kind = "GuildEmojisUpdate" /\ Handled(e)
        /\ Stepped(w, Stored(e.keys), K \ e.keys, K # {})
        /\ x.old = {}
        /\ K # {} => x.cur.op = "emojis" /\ x.cur.keys = K
        /\ UNCHANGED <<redis, received, guild_events, aux>>
    BY <1>0, <1>5, EmojiKeysStepped
  <2>2. OldOf(e) = IF state_old THEN GuildKeysOf("emoji", e.guild) ELSE {}
    BY <2>1 DEF OldOf
  <2>3. ASSUME Seen(e), Footprint(e) \cap raced = {}, NEW s \in OldOf(e), store[s] # Nil
        PROVE  s \in K
    <3>1. s \in GuildKeysOf("emoji", e.guild)
      BY <2>2, <2>3
    <3>2. s \in Stored(GuildItems(e.guild)) /\ s[1] = "emoji"
      BY <3>1, EmojisArePlain DEF GuildKeysOf, Stored
    <3>3. s \in Footprint(e) /\ s \notin raced
      BY <1>1, <2>3, SeenKeys
    <3>4. s \in idx[<<"guild", e.guild>>]
      BY <1>0, <1>2, <2>1, <2>3, <3>2, <3>3, GuildSetComplete
    <3>5. QED
      BY <3>2, <3>4 DEF Of
  <2> HIDE DEF K
  <2>4. CASE K = {}
    <3>1. Seen(e) /\ Footprint(e) \cap raced = {} => x.old = Holds(store, OldOf(e))
      <4> SUFFICES ASSUME Seen(e), Footprint(e) \cap raced = {}
                   PROVE  {} = Holds(store, OldOf(e))
        BY <2>1
      <4>1. \A s \in Stored(OldOf(e)) : store[s] = Nil
        BY <1>1, <2>3, <2>4, SeenKeys
      <4>2. QED
        BY <4>1 DEF Holds
    <3>2. QED
      BY <1>2, <2>1, <2>4, <3>1, LastReadKnown
  <2>5. CASE K # {}
    <3>1. /\ x.ev = e /\ x.prior = r.prior /\ ToRead(x) /\ x.cur.op = "emojis" /\ x.cur.keys = K
          /\ store' = store /\ raced' = raced
      BY <2>1, <2>5 DEF Stepped, redis, aux
    <3> HIDE DEF x
    <3>2. Known(store, raced, x)
      <4> SUFFICES ASSUME Seen(e), Footprint(e) \cap raced = {} PROVE Matches(store, x)
        BY <3>1 DEF Known
      <4>1. Matches(store, r)
        BY <1>1, <1>2 DEF Known
      <4>2. \A s \in OldOf(e) \ K : store[s] = Nil
        BY <2>3
      <4>3. QED
        BY <3>1, <4>1, <4>2 DEF Matches
    <3>3. QED
      BY <1>1, <3>1, <3>2 DEF PriorOK, x
  <2>6. QED
    BY <2>4, <2>5
<1>6. QED
  BY <1>4, <1>5

\* A read of a task.
LEMMA ReadsKnown ==
    ASSUME OldInv, NEW w \in Workers \ {Purge}, Reads(w)
    PROVE  Remembers'
<1>1. TypeInv /\ Steady /\ GuildSetsSound /\ work \in [Workers -> Work]
  BY DEF OldInv, ConvInv, SteadyInv, IndexInv, TypeInv, TypeOK
<1>2. PriorOK(work'[w]) /\ Known(store', raced', work'[w])
  BY ObjectReadKnown, MembersKnown, EmojisKnown DEF Reads
<1>3. store' = store /\ raced' = raced
  BY <1>1, ReadsSteady DEF redis, aux
<1>4. \A v \in Workers \ {w} : work'[v] = work[v]
  <2>1. \E x : work' = [work EXCEPT ![w] = x]
    BY DEF Reads, Get, GetAll, Modify, GetMembers, ClearGet, GetEmojiKeys, GetEmojis, ReadOld
  <2>2. QED
    BY <1>1, <2>1
<1>5. ASSUME NEW v \in Workers \ {Purge}, v # w
      PROVE  PriorOK(work'[v]) /\ Known(store', raced', work'[v])
  <2>1. work'[v] = work[v]
    BY <1>4, <1>5
  <2>2. QED
    BY <1>3, <2>1, Unmoved
<1>6. QED
  BY <1>2, <1>5 DEF Remembers

\* Taking an event off the stream: what the event concerns is as the reference has it.
LEMMA ReceiveKnown ==
    ASSUME OldInv, NEW e \in Events, Receive(e)
    PROVE  Remembers'
<1>0. TypeInv /\ ConvInv
  BY DEF OldInv, ConvInv, SteadyInv, IndexInv
<1>1. PICK w \in Workers \ {Purge} :
              /\ \A v \in Workers \ {w} : work'[v] = work[v]
              /\ work'[w].ev = e
              /\ work'[w].old = {} /\ work'[w].prior = Holds(ref, OldOf(e))
              /\ ToRead(work'[w]) <=> Reading(Script(e))
              /\ work'[w].cur.op # "emojis"
              /\ ScriptOK(e, Script(e))
  BY <1>0, Received
<1> DEFINE x == work'[w]
<1>2. /\ store' = store /\ raced \subseteq raced'
      /\ \A v \in Workers : \A s \in Footprint(e) \cap Footprint(work[v].ev) : s \in raced'
  BY DEF Receive, redis
<1>3. Footprint(e) \in SUBSET StoredKeys
  BY FootprintType, WellFormedOK DEF Events
<1>4. PriorOK(x)
  BY <1>1 DEF PriorOK, Holds
<1>5. Known(store', raced', x)
  <2> SUFFICES ASSUME Seen(e), Footprint(e) \cap raced' = {}
               PROVE  IF ToRead(x) THEN Matches(store, x) ELSE OldGood(x)
    BY <1>1, <1>2 DEF Known
  <2>1. \A s \in OldOf(e) : s \in StoredKeys \ (raced \cup Blind)
                            /\ \A v \in Workers : s \notin Footprint(work[v].ev)
    BY <1>2, SeenKeys
  <2>2. \A s \in OldOf(e) : Agrees(store, ref, s)
    BY <1>0, <2>1 DEF ConvInv, Converges
  <2>3. Stored(OldOf(e)) = OldOf(e)
    BY SeenKeys
  <2>4. x.prior = {<<s, ref[s]>> : s \in {y \in OldOf(e) : ref[y] # Nil}}
    BY <1>1, <2>3 DEF Holds
  <2>5. x.ev = e /\ x.old = {} /\ x.cur.op # "emojis"
    BY <1>1
  <2>6. CASE ToRead(x)
    <3> HIDE DEF x
    <3>1. \A p \in x.prior : store[p[1]] = p[2] \/ (p[1] \in ExpiryKeys /\ store[p[1]] = Nil)
      BY <2>2, <2>4 DEF Agrees
    <3>2. \A s \in OldOf(e) : store[s] # Nil => <<s, store[s]>> \in x.prior
      BY <2>2, <2>4 DEF Agrees
    <3>3. QED
      BY <2>5, <2>6, <3>1, <3>2 DEF Matches
  <2>7. CASE ~ToRead(x)
    <3>1. OldOf(e) = {}
      BY <1>1, <2>7 DEF ScriptOK
    <3>2. x.prior = {}
      BY <2>4, <3>1
    <3>3. QED
      BY <2>5, <2>7, <3>2 DEF OldGood
  <2>8. QED
    BY <2>6, <2>7
<1>6. ASSUME NEW v \in Workers \ {Purge}, v # w
      PROVE  PriorOK(work'[v]) /\ Known(store', raced', work'[v])
  BY <1>1, <1>2, <1>6, Unmoved
<1>7. QED
  BY <1>4, <1>5, <1>6 DEF Remembers

\* An idle worker has no old value.
LEMMA IdleKnown ==
    ASSUME NEW st, NEW rc
    PROVE  PriorOK(Idle) /\ Known(st, rc, Idle)
<1>1. Idle.ev = NoEvent /\ Idle.prior = {} /\ Idle.old = {} /\ Idle.cur.op # "emojis"
  BY IdleSteady DEF Idle
<1>2. QED
  BY <1>1, NoFootprint DEF PriorOK, Known, Matches, OldGood

\* The failure of a command: whatever the event concerned counts as raced.
LEMMA FailKnown ==
    ASSUME OldInv, NEW w \in Workers, Fail(w)
    PROVE  Remembers'
<1>0. TypeInv /\ Steady /\ work \in [Workers -> Work]
  BY DEF OldInv, ConvInv, SteadyInv, IndexInv, TypeInv, TypeOK
<1>1. /\ store' = store /\ raced \subseteq raced' /\ Footprint(work[w].ev) \subseteq raced'
      /\ \A v \in Workers \ {w} : work'[v] = work[v]
  <2>1. \E x : work' = [work EXCEPT ![w] = x]
    BY DEF Fail
  <2>2. QED
    BY <1>0, <2>1 DEF Fail, Unfinished, redis
<1>2. ASSUME w # Purge
      PROVE  PriorOK(work'[w]) /\ Known(store', raced', work'[w])
  <2> DEFINE r == work[w]
             x == work'[w]
  <2>1. TaskOK(r) /\ PriorOK(r) /\ (r.ev = NoEvent \/ r.ev \in Events) /\ Fits(r.ev, r.cur)
    BY <1>0, <1>2, TaskEvent DEF Steady, TaskOK, OldInv, Remembers
  <2>2. IF At(w, "members") \/ At(w, "clear")
        THEN MovesOn(w) /\ x.old = r.old
        ELSE Stepped(w, {}, {}, FALSE) /\ x.old = {}
    BY <1>0, <2>1, FailStepped
  <2>3. x.ev = r.ev /\ x.prior = r.prior
    BY <2>2 DEF MovesOn, Stepped
  <2>4. ASSUME Seen(r.ev), Footprint(r.ev) \cap raced' = {}
        PROVE  IF ToRead(x) THEN Matches(store', x) ELSE OldGood(x)
    <3>1. OldOf(r.ev) = {}
      BY <1>1, <2>1, <2>4, SeenKeys
    <3>2. r.cur.op \notin {"members", "clear"}
      <4>1. Handled(r.ev) /\ r.ev.kind \in ClearKinds => OldOf(r.ev) = {guild_key(r.ev.guild)}
        BY DEF OldOf, ClearKinds
      <4>2. QED
        BY <2>1, <3>1, <4>1 DEF Fits
    <3>3. ~ToRead(x) /\ x.old = {}
      BY <2>2, <3>2 DEF Stepped, At
    <3>4. r.prior = {}
      BY <2>1, <3>1 DEF PriorOK, Stored
    <3>5. QED
      BY <2>3, <3>3, <3>4 DEF OldGood
  <2> HIDE DEF r, x
  <2>5. PriorOK(x) /\ Known(store', raced', x)
    BY <2>1, <2>3, <2>4 DEF PriorOK, Known
  <2>6. QED
    BY <2>5 DEF x
<1>3. ASSUME NEW v \in Workers \ {Purge}, v # w
      PROVE  PriorOK(work'[v]) /\ Known(store', raced', work'[v])
  BY <1>1, <1>3, Unmoved
<1>4. QED
  BY <1>2, <1>3 DEF Remembers

\* Before the first event nothing has been read, and no old value has been sent.
LEMMA InitOld == Init => OldInv
<1> SUFFICES ASSUME Init PROVE OldInv
  OBVIOUS
<1>1. \A v \in Workers : work[v] = Idle
  BY DEF Init
<1>2. QED
  BY <1>1, InitConv, IdleKnown DEF OldInv, Remembers

\* Every step keeps the invariant.
LEMMA NextOld == OldInv /\ [Next]_vars => OldInv'
<1> SUFFICES ASSUME OldInv, [Next]_vars PROVE Remembers'
  BY NextConv DEF OldInv
<1>0. TypeInv /\ Steady /\ work \in [Workers -> Work]
  BY DEF OldInv, ConvInv, SteadyInv, IndexInv, TypeInv, TypeOK
<1>1. ASSUME raced \subseteq raced', \A v \in Workers \ {Purge} : work'[v] = work[v],
             \A s \in StoredKeys : store'[s] = store[s] \/ (s \in ExpiryKeys /\ store'[s] = Nil)
      PROVE  Remembers'
  <2>1. \A v \in Workers : Footprint(work[v].ev) \in SUBSET StoredKeys
    BY <1>0, CurKeys
  <2> SUFFICES ASSUME NEW v \in Workers \ {Purge}
               PROVE  PriorOK(work'[v]) /\ Known(store', raced', work'[v])
    BY DEF Remembers
  <2>2. QED
    BY <1>1, <2>1, Unmoved
<1>2. ASSUME NEW e \in Events, Receive(e) PROVE Remembers'
  BY <1>2, ReceiveKnown
<1>3. ASSUME NEW w \in Workers, Command(w) PROVE Remembers'
  <2>1. CASE w = Purge
    <3>1. /\ Delete(Purge) \/ Srem(Purge) \/ Hdel(Purge)
          /\ \A v \in Workers \ {Purge} : work'[v] = work[v]
      BY <1>0, <1>3, <2>1, PurgeStep
    <3>2. /\ work[Purge].cur.keys \subseteq ExpiryKeys
          /\ Stored(work[Purge].cur.keys) = work[Purge].cur.keys
      BY <1>0, ExpiringKey DEF Steady, PurgeOK, Workers
    <3>3. /\ raced \subseteq raced'
          /\ \A s \in StoredKeys :
                store'[s] = store[s] \/ (s \in ExpiryKeys /\ store'[s] = Nil)
      <4>1. CASE Delete(Purge)
        BY <3>2, <4>1 DEF Delete
      <4>2. CASE Srem(Purge) \/ Hdel(Purge)
        BY <4>2 DEF Srem, Hdel, aux
      <4>3. QED
        BY <3>1, <4>1, <4>2
    <3>4. QED
      BY <1>1, <3>1, <3>3
  <2>2. CASE w # Purge
    BY <1>3, <2>2, ChangesKnown, ReadsKnown DEF Command, Changes, Reads
  <2>3. QED
    BY <2>1, <2>2
<1>4. ASSUME NEW w \in Workers, Fail(w) PROVE Remembers'
  BY <1>4, FailKnown
<1>5. ASSUME NEW w \in Workers, Finish(w) PROVE Remembers'
  <2>1. /\ store' = store /\ raced' = raced /\ work'[w] = Idle
        /\ \A v \in Workers \ {w} : work'[v] = work[v]
    BY <1>0, <1>5 DEF Finish, redis, aux
  <2>2. ASSUME NEW v \in Workers \ {Purge}, v # w
        PROVE  PriorOK(work'[v]) /\ Known(store', raced', work'[v])
    BY <2>1, <2>2, Unmoved
  <2>3. QED
    BY <2>1, <2>2, IdleKnown DEF Remembers
<1>6. CASE Scan \/ \E k \in ExpiryKeys : Elapse(k)
  <2>1. store' = store /\ raced' = raced
    BY <1>6 DEF Scan, Elapse, redis, aux
  <2>2. \A v \in Workers \ {Purge} : work'[v] = work[v]
    <3>1. CASE Scan
      <4>1. \E x : work' = [work EXCEPT ![Purge] = x]
        BY <3>1 DEF Scan
      <4>2. QED
        BY <1>0, <4>1
    <3>2. CASE \E k \in ExpiryKeys : Elapse(k)
      BY <3>2 DEF Elapse
    <3>3. QED
      BY <1>6, <3>1, <3>2
  <2>3. QED
    BY <1>1, <2>1, <2>2
<1>7. CASE Restart
  <2>1. \A v \in Workers : work'[v] = Idle
    BY <1>7 DEF Restart
  <2>2. QED
    BY <2>1, IdleKnown DEF Remembers
<1>8. CASE UNCHANGED vars
  BY <1>1, <1>8 DEF vars
<1>9. QED
  BY <1>2, <1>3, <1>4, <1>5, <1>6, <1>7, <1>8 DEF Next
-----------------------------------------------------------------------------
\* The old value `update` hands to the handler is the state just before the event in gateway
\* order, evicted objects aside, if no other handler interferes and the event is not about
\* the channel of a guild: `get` does not find those.
THEOREM OldValues == Spec => []SeenIsPrevious
<1>1. OldInv => SeenIsPrevious
  <2> SUFFICES ASSUME OldInv, NEW w \in Tasks, Seen(work[w].ev), work[w].cur = Nop,
                      Footprint(work[w].ev) \cap raced = {}
               PROVE  OldGood(work[w])
    BY DEF SeenIsPrevious
  <2>1. w \in Workers \ {Purge}
    BY StateCacheAssumption DEF Workers
  <2>2. TypeInv /\ TaskOK(work[w])
    BY <2>1 DEF OldInv, ConvInv, SteadyInv, IndexInv, Steady
  <2>3. work[w].rest = <<>> /\ Nop.op = "nop"
    BY <2>1, <2>2, TaskEvent, LastInOrder, NopPlanned
  <2>4. ~ToRead(work[w])
    BY <2>3, NoneProper DEF ToRead, ReadOps
  <2>5. QED
    BY <2>1, <2>4 DEF OldInv, Remembers, Known
<1>2. QED
  BY <1>1, InitOld, NextOld, PTL DEF Spec

\* Only a ChannelUpdate or ChannelDelete is after the previous value of a channel.
LEMMA OldChannels ==
    ASSUME NEW e \in Events, NEW k \in OldOf(e), k[1] = "channel"
    PROVE  state_old /\ e.kind \in {"ChannelUpdate", "ChannelDelete"}
<1>0. e.kind \in AllKinds /\ WellFormed(e) /\ Handled(e)
  BY StateCacheAssumption DEF Events, OldOf
<1>1. CASE e.kind \in {"GuildCreate", "GuildDelete", "UnavailableGuild"}
  <2>1. k = guild_key(e.guild)
    BY <1>1 DEF OldOf
  <2>2. QED
    BY <2>1 DEF guild_key
<1>2. CASE e.kind \in {"GuildEmojisUpdate", "MemberRemove"}
  <2>1. k[1] \in {"emoji", "member"}
    BY <1>0, <1>2 DEF OldOf, GuildKeysOf, Of
  <2>2. QED
    BY <2>1
<1>3. CASE e.kind \in {"GuildUpdate", "MemberUpdate", "MessageDelete", "MessageDeleteBulk",
                       "MessageUpdate", "PresenceUpdate", "RoleDelete", "RoleUpdate",
                       "UserUpdate", "VoiceStateUpdate"}
  <2>1. k \in e.keys
    BY <1>3 DEF OldOf
  <2>2. k[1] # "channel"
    <3>1. CASE e.kind = "GuildUpdate"
      BY <1>0, <2>1, <3>1 DEF WellFormed, guild_key
    <3>2. CASE e.kind = "MemberUpdate"
      BY <1>0, <2>1, <3>2 DEF WellFormed, member_key
    <3>3. CASE e.kind \in {"MessageDelete", "MessageUpdate"}
      BY <1>0, <2>1, <3>3, KeyKinds DEF WellFormed
    <3>4. CASE e.kind = "MessageDeleteBulk"
      BY <1>0, <2>1, <3>4 DEF WellFormed, MessagesIn, message_key
    <3>5. CASE e.kind = "PresenceUpdate"
      BY <1>0, <2>1, <3>5 DEF WellFormed, presence_key
    <3>6. CASE e.kind \in {"RoleDelete", "RoleUpdate"}
      BY <1>0, <2>1, <3>6 DEF WellFormed, role_key
    <3>7. CASE e.kind = "UserUpdate"
      BY <1>0, <2>1, <3>7 DEF WellFormed, bot_user_key
    <3>8. CASE e.kind = "VoiceStateUpdate"
      BY <1>0, <2>1, <3>8 DEF WellFormed, voice_key
    <3>9. QED
      BY <1>3, <3>1, <3>2, <3>3, <3>4, <3>5, <3>6, <3>7, <3>8
  <2>3. QED
    BY <2>2
<1>4. CASE e.kind \in {"ChannelUpdate", "ChannelDelete"}
  BY <1>4 DEF OldOf
<1>5. CASE e.kind \in {"ChannelCreate", "ChannelPinsUpdate", "MemberAdd", "MemberChunk",
                       "MessageCreate", "Ready", "RoleCreate"}
  BY <1>5 DEF OldOf
<1>6. QED
  BY <1>0, <1>1, <1>2, <1>3, <1>4, <1>5 DEF AllKinds

\* The property itself, if there is no channel of a guild, or old values are not asked for,
\* or no channel is updated or deleted.
THEOREM OldValuesArePrevious ==
    ASSUME \/ Hidden = {}
           \/ ~state_old
           \/ {"ChannelUpdate", "ChannelDelete"} \cap Kinds = {}
    PROVE  Spec => []OldIsPrevious
<1>1. ASSUME NEW e, e = NoEvent \/ e \in Events
      PROVE  Seen(e)
  <2>1. CASE e = NoEvent
    BY <2>1, NoFootprint DEF Seen, Stored
  <2>2. CASE e \in Events
    <3> SUFFICES ASSUME NEW k \in OldOf(e), StoredKey(k) \in Hidden PROVE FALSE
      BY DEF Seen, Stored
    <3>1. StoredKey(k)[1] = "channel" /\ Hidden # {}
      BY DEF Hidden
    <3>2. k \in EventKeys
      BY <2>2, OldInFootprint, OldOfType
    <3>3. k[1] = "channel"
      BY <3>1, <3>2 DEF StoredKey
    <3>4. state_old /\ e.kind \in {"ChannelUpdate", "ChannelDelete"} /\ e.kind \in Kinds
      BY <2>2, <3>3, OldChannels DEF Events
    <3>5. QED
      BY <3>1, <3>4
  <2>3. QED
    BY <1>1, <2>1, <2>2
<1>2. OldInv /\ SeenIsPrevious => OldIsPrevious
  <2> SUFFICES ASSUME OldInv, SeenIsPrevious, NEW w \in Tasks, work[w].cur = Nop,
                      Footprint(work[w].ev) \cap raced = {}
               PROVE  OldGood(work[w])
    BY DEF OldIsPrevious, OldGood
  <2>1. w \in Workers \ {Purge}
    BY StateCacheAssumption DEF Workers
  <2>2. TaskOK(work[w])
    BY <2>1 DEF OldInv, ConvInv, SteadyInv, Steady
  <2>3. Seen(work[w].ev)
    BY <1>1, <2>2 DEF TaskOK
  <2>4. QED
    BY <2>3 DEF SeenIsPrevious
<1>3. QED
  BY <1>2, OldValues, InitOld, NextOld, PTL DEF Spec
=============================================================================
