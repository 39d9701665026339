-------------------------- MODULE StateCacheProofs --------------------------
(***************************************************************************)
(* Proofs about `cache::update` and the state cache, for every key space,  *)
(* every number of tasks and events and every setting, with failing        *)
(* commands or without.  First what the keys, the events and the           *)
(* operations of an update are like, and in which order they come; then    *)
(* the invariants of StateCache: types, Ready before the loop goes on, and *)
(* that the helper sets and the store agree.                               *)
(***************************************************************************)
EXTENDS StateCache, SequenceTheorems, TLAPS

(* Keys: where a key is stored and which helper sets it belongs to. *)

\* A stored key is its own stored form.
LEMMA StoredKeyIdempotent ==
    ASSUME NEW k \in EventKeys
    PROVE  StoredKey(StoredKey(k)) = StoredKey(k)
<1>1. CASE Len(k) > 2 /\ k[1] = "channel"
  <2>1. StoredKey(k) = <<"channel", k[3]>>
    BY <1>1 DEF StoredKey
  <2>2. QED
    BY <2>1 DEF StoredKey
<1>2. CASE ~(Len(k) > 2 /\ k[1] = "channel")
  BY <1>2 DEF StoredKey
<1>3. QED
  BY <1>1, <1>2

\* Whatever form a key is given in, set_all and del_all store it under a stored key.
LEMMA StoredKeyType ==
    ASSUME NEW k \in AnyKeys
    PROVE  StoredKey(k) \in StoredKeys
<1>1. CASE k \in EventKeys
  BY <1>1 DEF StoredKeys, Stored
<1>2. CASE k \in StoredKeys
  <2>1. PICK d \in EventKeys : k = StoredKey(d)
    BY <1>2 DEF StoredKeys, Stored
  <2>2. StoredKey(k) = StoredKey(d)
    BY <2>1, StoredKeyIdempotent
  <2>3. QED
    BY <2>2 DEF StoredKeys, Stored
<1>3. QED
  BY <1>1, <1>2 DEF AnyKeys

\* set_all and del_all of K only touch stored keys.
LEMMA StoredType ==
    ASSUME NEW K \in SUBSET AnyKeys
    PROVE  Stored(K) \in SUBSET StoredKeys
BY StoredKeyType DEF Stored

\* The helper sets of a key are helper sets.
LEMMA MemberIndexesType ==
    ASSUME NEW K \in SUBSET AnyKeys
    PROVE  MemberIndexes(K) \in SUBSET Indexes
BY DEF MemberIndexes, Indexes

\* The members for a helper set are the stored forms of keys of K.
LEMMA MembersForType ==
    ASSUME NEW K \in SUBSET AnyKeys, NEW i
    PROVE  /\ MembersFor(K, i) \subseteq Stored(K)
           /\ MembersFor(K, i) \in SUBSET StoredKeys
<1>1. MembersFor(K, i) \subseteq Stored(K)
  BY DEF MembersFor, Stored
<1>2. QED
  BY <1>1, StoredType

\* The shapes of the keys of handlers.
LEMMA EventKeyShape ==
    ASSUME NEW k \in EventKeys
    PROVE  \/ k = <<"bot_user">>
           \/ \E g \in Guilds : k = <<"guild", g>>
           \/ \E c \in Channels : k = channel_key(c)
           \/ \E t \in {"role", "emoji", "member", "presence", "voice", "message"} :
                 \E x, y : k = <<t, x, y>>
<1>1. CASE k = bot_user_key
  BY <1>1 DEF bot_user_key
<1>2. CASE k \in GuildKeys
  BY <1>2 DEF GuildKeys, guild_key
<1>3. CASE k \in ChannelKeys
  BY <1>3 DEF ChannelKeys
<1>4. CASE k \in RoleKeys
  BY <1>4 DEF RoleKeys, role_key
<1>5. CASE k \in EmojiKeys
  BY <1>5 DEF EmojiKeys, emoji_key
<1>6. CASE k \in MemberKeys
  BY <1>6 DEF MemberKeys, member_key
<1>7. CASE k \in PresenceKeys
  BY <1>7 DEF PresenceKeys, presence_key
<1>8. CASE k \in VoiceKeys
  BY <1>8 DEF VoiceKeys, voice_key
<1>9. CASE k \in MessageKeys
  BY <1>9 DEF MessageKeys, message_key
<1>10. QED
  BY <1>1, <1>2, <1>3, <1>4, <1>5, <1>6, <1>7, <1>8, <1>9 DEF EventKeys

\* Two different keys of handlers are never stored under one key: a channel belongs to
\* one guild.
LEMMA StoredKeyInjective ==
    ASSUME NEW k \in EventKeys, NEW d \in EventKeys, StoredKey(k) = StoredKey(d)
    PROVE  k = d
<1> DEFINE IsChannel(x) == \E c \in Channels : x = channel_key(c)
<1>1. \A c \in Channels : StoredKey(channel_key(c)) = <<"channel", c>>
  BY DEF StoredKey, channel_key
<1>2. ASSUME NEW x \in EventKeys, ~IsChannel(x)
      PROVE  StoredKey(x) = x /\ x[1] # "channel"
  BY <1>2, EventKeyShape DEF StoredKey
<1>3. CASE IsChannel(k) /\ IsChannel(d)
  BY <1>1, <1>3
<1>4. CASE ~IsChannel(k) /\ ~IsChannel(d)
  BY <1>2, <1>4
<1>5. ASSUME NEW x \in EventKeys, NEW y \in EventKeys, IsChannel(x), ~IsChannel(y)
      PROVE  StoredKey(x) # StoredKey(y)
  <2>1. PICK c \in Channels : x = channel_key(c)
    BY <1>5
  <2>2. StoredKey(x)[1] = "channel"
    BY <2>1, <1>1
  <2>3. QED
    BY <2>2, <1>2, <1>5
<1>6. QED
  BY <1>3, <1>4, <1>5

\* The helper sets of a stored key are among those of the key it stores.
LEMMA StoredIndexes ==
    ASSUME NEW d \in AnyKeys
    PROVE  IndexesOf(StoredKey(d)) \subseteq IndexesOf(d)
BY DEF StoredKey, IndexesOf
-----------------------------------------------------------------------------
(* Events. *)

\* The kinds of event that concern a guild as a whole.
GuildWide == {"GuildCreate", "GuildDelete", "UnavailableGuild", "GuildEmojisUpdate"}

EventOK(e) == e \in Event /\ (e.kind \in GuildWide => e.guild \in Guilds)

\* The operations the update of e may have planned: it begins no operation in the middle,
\* it writes no stored form of a key, and it reads a guild's keys only for a guild.
Plan(e) == {op \in Op :
              /\ op.op \notin {"sadd", "srem"}
              /\ op.op = "set" => op.keys \subseteq EventKeys
              /\ op.op \in {"set", "emoji_keys", "emojis"} => e.kind # "none"
              /\ op.op \in {"members", "emoji_keys"} => e.guild \in Guilds}

\* Every object of a guild has a key of the handlers.
LEMMA GuildItemsType ==
    ASSUME NEW g, NEW kind
    PROVE  /\ GuildItems(g) \subseteq EventKeys
           /\ GuildKeysOf(kind, g) \subseteq EventKeys
BY DEF GuildItems, GuildKeysOf

\* The keys of the bot's user and of a guild are keys of the handlers.
LEMMA KeysType ==
    /\ bot_user_key \in EventKeys
    /\ \A g \in Guilds : guild_key(g) \in EventKeys
BY DEF EventKeys, GuildKeys

\* The gateway's events are well formed.
LEMMA WellFormedOK ==
    ASSUME NEW e \in Event, WellFormed(e)
    PROVE  EventOK(e)
BY DEF WellFormed, EventOK, GuildWide

\* The placeholder of an idle worker is well formed.
LEMMA NoEventOK == EventOK(NoEvent) /\ NoEvent.kind = "none"
BY DEF NoEvent, Ev, Event, EventOK, GuildWide

\* An event erases, writes and updates keys of the handlers only.
LEMMA FootprintType ==
    ASSUME NEW e, EventOK(e)
    PROVE  /\ Erased(e) \in SUBSET EventKeys
           /\ Written(e) \in SUBSET EventKeys
           /\ Updated(e) \in SUBSET EventKeys
           /\ Footprint(e) \in SUBSET StoredKeys
<1>0. e.keys \in SUBSET EventKeys /\ (e.kind \in GuildWide => e.guild \in Guilds)
  BY DEF EventOK, Event
<1>1. Erased(e) \in SUBSET EventKeys
  BY <1>0, KeysType, GuildItemsType DEF Erased, GuildWide
<1>2. Written(e) \in SUBSET EventKeys
  BY <1>0, KeysType DEF Written, GuildWide
<1>3. Updated(e) \in SUBSET EventKeys
  BY <1>0 DEF Updated
<1>4. QED
  BY <1>1, <1>2, <1>3, StoredType DEF Footprint, AnyKeys

\* Applying an event to a cache gives a cache.
LEMMA AppliedType ==
    ASSUME NEW r \in [StoredKeys -> Nat], NEW e, NEW n \in Nat
    PROVE  Applied(r, e, n) \in [StoredKeys -> Nat]
BY DEF Applied, Nil

\* What is read of a cache is a set of stored keys with their values.
LEMMA HoldsType ==
    ASSUME NEW r \in [StoredKeys -> Nat], NEW K \in SUBSET AnyKeys
    PROVE  /\ Holds(r, K) \in SUBSET (StoredKeys \X Nat)
           /\ Found(r, K) \in SUBSET (StoredKeys \X Nat)
<1>1. \A X \in SUBSET AnyKeys : Holds(r, X) \in SUBSET (StoredKeys \X Nat)
  BY StoredType DEF Holds
<1>2. QED
  BY <1>1 DEF Found

\* The objects whose old value an event asks for have keys of the handlers.
LEMMA OldOfType ==
    ASSUME NEW e, EventOK(e)
    PROVE  OldOf(e) \in SUBSET EventKeys
<1>0. e.keys \in SUBSET EventKeys /\ (e.kind \in GuildWide => e.guild \in Guilds)
  BY DEF EventOK, Event
<1>1. Of("member", Erased(e)) \in SUBSET EventKeys
  BY FootprintType DEF Of
<1>2. QED
  BY <1>0, <1>1, KeysType, GuildItemsType DEF OldOf, GuildWide
-----------------------------------------------------------------------------
(* The script of an event is made of planned operations. *)

\* An operation on known keys is an operation.
LEMMA DoType ==
    ASSUME NEW op \in OpNames, NEW K \in SUBSET AnyKeys
    PROVE  /\ Do(op, K) \in Op
           /\ Do(op, K).op = op
           /\ Do(op, K).keys = K
           /\ Do(op, K).left = {}
BY DEF Do, Op

\* Doing nothing is always planned.
LEMMA NopPlanned == ASSUME NEW e PROVE Nop \in Plan(e) /\ Nop.op = "nop"
BY DoType DEF Nop, Plan, OpNames

\* Each of the operations planned on keys the handlers name is planned.
LEMMA SomePlanned ==
    ASSUME NEW e, NEW op \in OpNames \ {"sadd", "srem"}, NEW K \in SUBSET AnyKeys,
           op = "set" => K \subseteq EventKeys,
           op \in {"set", "emoji_keys", "emojis"} => e.kind # "none",
           op \in {"members", "emoji_keys"} => e.guild \in Guilds
    PROVE  Do(op, K) \in Plan(e) /\ Some(op, K) \in Seq(Plan(e))
<1>1. Do(op, K) \in Plan(e)
  BY DoType DEF Plan
<1>2. QED
  BY <1>1 DEF Some

\* set_all, del_all, expire_all and the reads for `old` are planned operations.
LEMMA SetDelPlanned ==
    ASSUME NEW e
    PROVE  /\ e.kind # "none" => \A K \in SUBSET EventKeys : Set(K) \in Seq(Plan(e))
           /\ \A K \in SUBSET AnyKeys : Del(K) \in Seq(Plan(e))
           /\ \A K \in SUBSET AnyKeys : Expire(K) \in Seq(Plan(e))
           /\ \A K \in SUBSET AnyKeys : Old(K) \in Seq(Plan(e))
<1>1. EventKeys \subseteq AnyKeys
  BY DEF AnyKeys
<1>2. ASSUME e.kind # "none", NEW K \in SUBSET EventKeys
      PROVE  Set(K) \in Seq(Plan(e))
  BY <1>1, <1>2, SomePlanned DEF Set, OpNames
<1>3. ASSUME NEW K \in SUBSET AnyKeys
      PROVE  /\ Del(K) \in Seq(Plan(e))
             /\ Expire(K) \in Seq(Plan(e))
             /\ Old(K) \in Seq(Plan(e))
  BY SomePlanned DEF Del, Expire, Old, OpNames
<1>4. QED
  BY <1>2, <1>3

\* Operations one after the other are planned if each part is.
LEMMA ConcatPlanned ==
    ASSUME NEW e, NEW s \in Seq(Plan(e)), NEW t \in Seq(Plan(e))
    PROVE  s \o t \in Seq(Plan(e))
BY ConcatProperties

\* clear_guild is planned for a guild.
LEMMA ClearPlanned ==
    ASSUME NEW e, e.guild \in Guilds
    PROVE  ClearGuild(e.guild) \in Seq(Plan(e))
<1>1. {guild_key(e.guild)} \in SUBSET AnyKeys
  BY KeysType DEF AnyKeys
<1>2. /\ Do("members", {guild_key(e.guild)}) \in Plan(e)
      /\ Do("clear", {guild_key(e.guild)}) \in Plan(e)
  BY <1>1, SomePlanned DEF OpNames
<1>3. QED
  BY <1>2 DEF ClearGuild

\* `update` plans only operations of the kinds above, on keys of the handlers.
LEMMA ScriptPlanned ==
    ASSUME NEW e, EventOK(e), e.kind # "none"
    PROVE  Script(e) \in Seq(Plan(e))
<1> DEFINE P == Seq(Plan(e))
           K == e.keys
<1>0. /\ e.kind \in AllKinds
      /\ K \in SUBSET EventKeys
      /\ K \in SUBSET AnyKeys
      /\ e.kind \in GuildWide => e.guild \in Guilds
  BY DEF EventOK, Event, AnyKeys
<1>1. <<>> \in P
  OBVIOUS
<1>2. /\ Set(K) \in P
      /\ Del(K) \in P
      /\ Expire(K) \in P
      /\ Old(K) \in P
  BY <1>0, SetDelPlanned
<1>3. Some("modify", K) \in P /\ Some("get_all", K) \in P
  BY <1>0, SomePlanned DEF OpNames
<1>4. \A s \in P, t \in P : s \o t \in P
  BY ConcatPlanned
<1> HIDE DEF P
<1>5. Arm(e) \in P
  <2>1. CASE e.kind \in {"ChannelCreate", "RoleCreate"}
    BY <2>1, <1>2 DEF Arm
  <2>2. CASE e.kind \in {"ChannelDelete", "RoleDelete", "MessageDelete"}
    BY <2>2, <1>2, <1>4 DEF Arm
  <2>3. CASE e.kind \in {"ChannelUpdate", "GuildUpdate", "PresenceUpdate", "RoleUpdate",
                        "UserUpdate"}
    BY <2>3, <1>2, <1>4 DEF Arm
  <2>4. CASE e.kind = "ChannelPinsUpdate"
    BY <2>4, <1>2, <1>3, <1>4 DEF Arm
  <2>5. CASE e.kind = "GuildCreate"
    <3> DEFINE W == {k \in K : Cached(k)} \cup {guild_key(e.guild)}
    <3>1. e.guild \in Guilds
      BY <1>0, <2>5 DEF GuildWide
    <3>2. ClearGuild(e.guild) \in P
      BY <3>1, ClearPlanned DEF P
    <3>3. W \in SUBSET EventKeys
      BY <1>0, <3>1, KeysType
    <3>4. Set(W) \in P
      BY <3>3, SetDelPlanned DEF P
    <3>5. Of("member", K) \in SUBSET AnyKeys
      BY <1>0 DEF Of
    <3>6. (IF state_member THEN Expire(Of("member", K)) ELSE <<>>) \in P
      BY <3>5, <1>1, SetDelPlanned DEF P
    <3>7. Arm(e) = ClearGuild(e.guild) \o Set(W)
                   \o (IF state_member THEN Expire(Of("member", K)) ELSE <<>>)
      BY <2>5 DEF Arm
    <3> HIDE DEF W
    <3>8. ClearGuild(e.guild) \o Set(W) \in P
      BY <3>2, <3>4, <1>4
    <3>9. QED
      BY <3>6, <3>7, <3>8, <1>4
  <2>6. CASE e.kind = "GuildDelete"
    <3>1. e.guild \in Guilds
      BY <1>0, <2>6 DEF GuildWide
    <3>2. QED
      BY <2>6, <3>1, ClearPlanned DEF Arm, P
  <2>7. CASE e.kind = "UnavailableGuild"
    <3>1. e.guild \in Guilds
      BY <1>0, <2>7 DEF GuildWide
    <3>2. ClearGuild(e.guild) \in P /\ Set({guild_key(e.guild)}) \in P
      BY <3>1, ClearPlanned, KeysType, SetDelPlanned DEF P
    <3>3. QED
      BY <2>7, <3>2, <1>4 DEF Arm
  <2>8. CASE e.kind = "GuildEmojisUpdate"
    <3>1. e.guild \in Guilds
      BY <1>0, <2>8 DEF GuildWide
    <3>2. {guild_key(e.guild)} \in SUBSET AnyKeys
      BY <3>1, KeysType DEF AnyKeys
    <3>3. Some("emoji_keys", {guild_key(e.guild)}) \in P
      BY <3>1, <3>2, SomePlanned DEF P, OpNames
    <3>4. QED
      BY <2>8, <3>3 DEF Arm
  <2>9. CASE e.kind \in {"MemberAdd", "MemberChunk", "MessageCreate"}
    BY <2>9, <1>2, <1>4 DEF Arm
  <2>10. CASE e.kind \in {"MemberUpdate", "MessageUpdate"}
    <3>1. Arm(e) = Some("modify", K) \o Set(K) \o Expire(K)
      BY <2>10 DEF Arm
    <3>2. Some("modify", K) \o Set(K) \in P
      BY <1>2, <1>3, <1>4
    <3>3. QED
      BY <3>1, <3>2, <1>2, <1>4
  <2>11. CASE e.kind = "MemberRemove"
    <3> DEFINE M == Of("member", K)
               A == IF state_member THEN Old(M) \o Del(M) ELSE <<>>
               B == IF state_presence THEN Del(Of("presence", K)) ELSE <<>>
    <3>1. M \in SUBSET AnyKeys /\ Of("presence", K) \in SUBSET AnyKeys
      BY <1>0 DEF Of
    <3>2. Old(M) \in P /\ Del(M) \in P /\ Del(Of("presence", K)) \in P
      BY <3>1, SetDelPlanned DEF P
    <3> HIDE DEF M
    <3>3. A \in P /\ B \in P
      BY <3>2, <1>1, <1>4
    <3>4. Arm(e) = A \o B
      BY <2>11 DEF Arm, M
    <3> HIDE DEF A, B
    <3>5. QED
      BY <3>3, <3>4, <1>4
  <2>12. CASE e.kind = "MessageDeleteBulk"
    BY <2>12, <1>2, <1>3, <1>4 DEF Arm
  <2>13. CASE e.kind = "Ready"
    <3>1. {bot_user_key} \in SUBSET EventKeys
      BY KeysType
    <3>2. Set({bot_user_key}) \in P
      BY <3>1, SetDelPlanned DEF P
    <3>3. QED
      BY <2>13, <3>2, <1>2, <1>4 DEF Arm
  <2>14. CASE e.kind = "VoiceStateUpdate"
    BY <2>14, <1>2, <1>4 DEF Arm
  <2>15. QED
    BY <1>0, <2>1, <2>2, <2>3, <2>4, <2>5, <2>6, <2>7, <2>8, <2>9, <2>10, <2>11, <2>12,
       <2>13, <2>14 DEF AllKinds
<1>6. QED
  BY <1>1, <1>5 DEF Script, P
-----------------------------------------------------------------------------
(* The order of the operations of an update. *)

ClearKinds == {"GuildCreate", "GuildDelete", "UnavailableGuild"}

\* The objects that `update` gives an expiry.
Expiring == MessageKeys \cup (IF state_member THEN MemberKeys ELSE {})

\* What an operation, or the ones it turns into once it has read, may write and remove.
Writes(e, op) ==
    IF op.op = "set" THEN Stored(op.keys)
    ELSE IF op.op \in {"emoji_keys", "emojis"} THEN Stored(e.keys)
    ELSE {}

Removes(e, op) ==
    IF op.op \in {"del", "clear"} THEN Stored(op.keys)
    ELSE IF op.op = "members" THEN Stored(GuildItems(e.guild))
    ELSE IF op.op = "emoji_keys" THEN GuildKeysOf("emoji", e.guild) \ e.keys
    ELSE IF op.op = "emojis" THEN op.keys \ e.keys
    ELSE {}

AllWrites(e, ops) == UNION {Writes(e, ops[i]) : i \in 1 .. Len(ops)}
AllRemoves(e, ops) == UNION {Removes(e, ops[i]) : i \in 1 .. Len(ops)}

\* The keys that an operation caches and whose expiry is yet to be recorded.
Puts(op) == IF op.op \in {"set", "sadd"} THEN op.keys \cap Expiring ELSE {}

\* The operations that read the old value.
ReadOps == {"get", "get_all", "modify", "clear", "emoji_keys", "emojis"}
Reading(ops) == \E i \in 1 .. Len(ops) : ops[i].op \in ReadOps

\* An operation of the update of e acts on the keys e is about.
Fits(e, op) ==
    /\ op.op \in {"set", "sadd"} => op.keys \subseteq Written(e) \cup Updated(e)
    /\ op.op \in {"del", "srem"} => Stored(op.keys) \subseteq Stored(Erased(e))
    /\ op.op \in {"members", "clear"} =>
          Handled(e) /\ e.kind \in ClearKinds /\ op.keys = {guild_key(e.guild)}
    /\ op.op \in {"emoji_keys", "emojis"} => Handled(e) /\ e.kind = "GuildEmojisUpdate"
    /\ op.op = "emojis" => op.keys \subseteq GuildKeysOf("emoji", e.guild)
    /\ op.op = "modify" => op.keys = Updated(e) /\ Updated(e) # {}
    /\ op.op = "get" => op.keys = OldOf(e)
    /\ op.op = "get_all" => OldOf(e) = IF state_old THEN op.keys ELSE {}
    /\ op.op # "hdel"

\* What may follow what: nothing that has been written is removed, a read comes first
\* (that of the guild once the rest is cleared), and what is to expire is recorded next.
Before(e, a, b) ==
    /\ Writes(e, a) \cap Removes(e, b) = {}
    /\ a.op \notin {"nop", "emoji_keys", "emojis"}
    /\ b.op \notin {"get", "get_all", "modify", "members", "emoji_keys", "emojis"}
    /\ b.op = "clear" => /\ a.op \in {"members", "del", "srem"}
                         /\ Removes(e, a) \cap Stored(b.keys) = {}
    /\ Puts(a) # {} => b.op = "expire" /\ Puts(a) \subseteq b.keys

First(e, c, ops) ==
    /\ \A i \in 1 .. Len(ops) : Before(e, c, ops[i])
    /\ Puts(c) # {} => ops # <<>>
    /\ c.op = "modify" => Stored(Updated(e)) \subseteq AllWrites(e, ops)
    /\ c.op = "members" => \E i \in 1 .. Len(ops) : ops[i].op = "clear"

Proper(e, ops) ==
    /\ \A i \in 1 .. Len(ops) : Fits(e, ops[i])
    /\ \A i, j \in 1 .. Len(ops) : i < j => Before(e, ops[i], ops[j])
    /\ \A i \in 1 .. Len(ops) : Puts(ops[i]) # {} => i < Len(ops)

InOrder(e, c, ops) == Fits(e, c) /\ First(e, c, ops) /\ Proper(e, ops)

Orderly(e, ops) == ops # <<>> => InOrder(e, Head(ops), Tail(ops))
-----------------------------------------------------------------------------
\* The elements of a sequence with one more in front.
LEMMA ConsSeq ==
    ASSUME NEW S, NEW c \in S, NEW t \in Seq(S), NEW s, s = <<c>> \o t
    PROVE  /\ s \in Seq(S)
           /\ Len(t) \in Nat /\ Len(s) = Len(t) + 1
           /\ 1 \in 1 .. Len(s) /\ s[1] = c
           /\ \A i \in 1 .. Len(t) : i + 1 \in 1 .. Len(s) /\ s[i + 1] = t[i]
           /\ \A i \in 1 .. Len(s) : i = 1 \/ (i - 1 \in 1 .. Len(t) /\ s[i] = t[i - 1])
<1>1. /\ s \in Seq(S)
      /\ Len(s) = Len(t) + 1
      /\ \A i \in 1 .. Len(s) : s[i] = IF i = 1 THEN c ELSE t[i - 1]
  BY ConcatProperties
<1>2. Len(t) \in Nat
  BY LenProperties
<1>3. QED
  BY <1>1, <1>2

\* Two more elements in front of a sequence.
LEMMA PairSeq ==
    ASSUME NEW S, NEW a \in S, NEW b \in S, NEW t \in Seq(S)
    PROVE  <<a, b>> \o t = <<a>> \o (<<b>> \o t)
<1>1. <<a>> \o (<<b>> \o t) = (<<a>> \o <<b>>) \o t
  BY ConcatAssociative
<1>2. <<a>> \o <<b>> = <<a, b>>
  <2> DEFINE p == <<a>> \o <<b>>
             q == <<a, b>>
  <2>1. p \in Seq(S) /\ Len(p) = 2 /\ p[1] = a /\ p[2] = b
    BY ConcatProperties
  <2>2. q \in Seq(S) /\ Len(q) = 2 /\ q[1] = a /\ q[2] = b
    OBVIOUS
  <2> HIDE DEF p, q
  <2>3. \A i \in 1 .. Len(p) : p[i] = q[i]
    BY <2>1, <2>2
  <2>4. p = q
    BY <2>1, <2>2, <2>3, SeqEqual
  <2>5. QED
    BY <2>4 DEF p, q
<1>3. QED
  BY <1>1, <1>2

\* u is an operation c followed by the operations t.
Joined(e, c, t, u) ==
    /\ AllWrites(e, u) = Writes(e, c) \cup AllWrites(e, t)
    /\ AllRemoves(e, u) = Removes(e, c) \cup AllRemoves(e, t)
    /\ Reading(u) <=> c.op \in ReadOps \/ Reading(t)
    /\ u # <<>>
    /\ Head(u) = c

\* Operations one after the other.
LEMMA ConsProper ==
    ASSUME NEW e, NEW c \in Op, NEW t \in Seq(Op), InOrder(e, c, t)
    PROVE  /\ Proper(e, <<c>> \o t)
           /\ Orderly(e, <<c>> \o t)
           /\ <<c>> \o t \in Seq(Op)
           /\ Joined(e, c, t, <<c>> \o t)
<1> DEFINE s == <<c>> \o t
<1>0. t # <<>> <=> Len(t) > 0
  BY EmptySeq
<1>1. s \in Seq(Op) /\ Len(t) \in Nat /\ Len(s) = Len(t) + 1
  BY ConsSeq
<1>2. /\ 1 \in 1 .. Len(s) /\ s[1] = c
      /\ \A i \in 1 .. Len(t) : i + 1 \in 1 .. Len(s) /\ s[i + 1] = t[i]
      /\ \A i \in 1 .. Len(s) : i = 1 \/ (i - 1 \in 1 .. Len(t) /\ s[i] = t[i - 1])
  BY ConsSeq
<1>3. Head(s) = c /\ Tail(s) = t /\ s # <<>>
  OBVIOUS
<1> HIDE DEF s
<1>4. AllWrites(e, s) = Writes(e, c) \cup AllWrites(e, t)
  <2>1. ASSUME NEW x \in AllWrites(e, s) PROVE x \in Writes(e, c) \cup AllWrites(e, t)
    <3>1. PICK i \in 1 .. Len(s) : x \in Writes(e, s[i])
      BY <2>1 DEF AllWrites
    <3>2. CASE i = 1
      BY <3>1, <3>2, <1>2
    <3>3. CASE i # 1
      <4>1. i - 1 \in 1 .. Len(t) /\ s[i] = t[i - 1]
        BY <1>1, <1>2, <3>3
      <4>2. QED
        BY <3>1, <4>1 DEF AllWrites
    <3>4. QED
      BY <3>2, <3>3
  <2>2. ASSUME NEW x \in Writes(e, c) \cup AllWrites(e, t) PROVE x \in AllWrites(e, s)
    BY <2>2, <1>1, <1>2 DEF AllWrites
  <2>3. QED
    BY <2>1, <2>2
<1>5. AllRemoves(e, s) = Removes(e, c) \cup AllRemoves(e, t)
  <2>1. ASSUME NEW x \in AllRemoves(e, s) PROVE x \in Removes(e, c) \cup AllRemoves(e, t)
    <3>1. PICK i \in 1 .. Len(s) : x \in Removes(e, s[i])
      BY <2>1 DEF AllRemoves
    <3>2. CASE i = 1
      BY <3>1, <3>2, <1>2
    <3>3. CASE i # 1
      <4>1. i - 1 \in 1 .. Len(t) /\ s[i] = t[i - 1]
        BY <1>1, <1>2, <3>3
      <4>2. QED
        BY <3>1, <4>1 DEF AllRemoves
    <3>4. QED
      BY <3>2, <3>3
  <2>2. ASSUME NEW x \in Removes(e, c) \cup AllRemoves(e, t) PROVE x \in AllRemoves(e, s)
    BY <2>2, <1>1, <1>2 DEF AllRemoves
  <2>3. QED
    BY <2>1, <2>2
<1>6. Reading(s) <=> c.op \in ReadOps \/ Reading(t)
  BY <1>1, <1>2 DEF Reading
<1>7. Proper(e, s)
  <2>1. \A i \in 1 .. Len(s) : Fits(e, s[i])
    BY <1>1, <1>2 DEF InOrder, Proper
  <2>2. ASSUME NEW i \in 1 .. Len(s), NEW j \in 1 .. Len(s), i < j
        PROVE  Before(e, s[i], s[j])
    <3>1. j - 1 \in 1 .. Len(t) /\ s[j] = t[j - 1]
      BY <1>2, <2>2
    <3>2. CASE i = 1
      BY <1>2, <3>1, <3>2 DEF InOrder, First
    <3>3. CASE i # 1
      <4>1. i - 1 \in 1 .. Len(t) /\ s[i] = t[i - 1] /\ i - 1 < j - 1
        BY <1>2, <2>2, <3>3
      <4>2. QED
        BY <3>1, <4>1 DEF InOrder, Proper
    <3>4. QED
      BY <3>2, <3>3
  <2>3. ASSUME NEW i \in 1 .. Len(s), Puts(s[i]) # {} PROVE i < Len(s)
    <3>1. CASE i = 1
      BY <1>0, <1>1, <1>2, <2>3, <3>1 DEF InOrder, First
    <3>2. CASE i # 1
      <4>1. i - 1 \in 1 .. Len(t) /\ s[i] = t[i - 1]
        BY <1>2, <3>2
      <4>2. i - 1 < Len(t)
        BY <2>3, <4>1 DEF InOrder, Proper
      <4>3. QED
        BY <1>1, <4>2
    <3>3. QED
      BY <3>1, <3>2
  <2>4. QED
    BY <2>1, <2>2, <2>3 DEF Proper
<1>8. QED
  BY <1>1, <1>3, <1>4, <1>5, <1>6, <1>7 DEF Orderly, Joined, s

\* What remains of them is in order.
LEMMA RestProper ==
    ASSUME NEW e, NEW c \in Op, NEW t \in Seq(Op), InOrder(e, c, t)
    PROVE  Orderly(e, t)
<1> SUFFICES ASSUME t # <<>> PROVE InOrder(e, Head(t), Tail(t))
  BY DEF Orderly
<1>1. /\ Tail(t) \in Seq(Op)
      /\ Len(Tail(t)) = Len(t) - 1
      /\ Head(t) = t[1]
      /\ \A i \in 1 .. Len(Tail(t)) : Tail(t)[i] = t[i + 1]
  BY HeadTailProperties
<1>2. Len(t) \in Nat /\ Len(t) > 0
  BY EmptySeq, LenProperties
<1> DEFINE h == Head(t)
           u == Tail(t)
<1>3. Fits(e, h)
  BY <1>1, <1>2 DEF InOrder, Proper
<1>4. Proper(e, u)
  <2>1. \A i \in 1 .. Len(u) : i + 1 \in 1 .. Len(t) /\ u[i] = t[i + 1]
    BY <1>1, <1>2
  <2>2. \A i \in 1 .. Len(u) : i + 1 < Len(t) => i < Len(u)
    BY <1>1, <1>2
  <2> HIDE DEF u
  <2>3. \A i, j \in 1 .. Len(u) : i < j => i + 1 < j + 1
    OBVIOUS
  <2>4. \A i \in 1 .. Len(u) : Fits(e, u[i])
    BY <2>1 DEF InOrder, Proper
  <2>5. \A i, j \in 1 .. Len(u) : i < j => Before(e, u[i], u[j])
    BY <2>1, <2>3 DEF InOrder, Proper
  <2>6. \A i \in 1 .. Len(u) : Puts(u[i]) # {} => i < Len(u)
    BY <2>1, <2>2 DEF InOrder, Proper
  <2>7. QED
    BY <2>4, <2>5, <2>6 DEF Proper
<1>5. First(e, h, u)
  <2>1. \A i \in 1 .. Len(u) : Before(e, h, u[i])
    BY <1>1, <1>2 DEF InOrder, Proper
  <2>2. Puts(h) # {} => u # <<>>
    <3>1. Puts(t[1]) # {} => 1 < Len(t)
      BY <1>2 DEF InOrder, Proper
    <3>2. Len(u) = Len(t) - 1
      BY <1>1
    <3> HIDE DEF u
    <3>3. 1 < Len(t) => u # <<>>
      BY <1>2, <3>2
    <3>4. QED
      BY <1>1, <3>1, <3>2, <3>3
  <2>3. h.op # "modify" /\ h.op # "members"
    BY <1>1, <1>2 DEF InOrder, First, Before
  <2>4. QED
    BY <2>1, <2>2, <2>3 DEF First
<1>6. QED
  BY <1>3, <1>4, <1>5 DEF InOrder

\* No operations are in order.
LEMMA NoneProper ==
    ASSUME NEW e
    PROVE  /\ Proper(e, <<>>)
           /\ Orderly(e, <<>>)
           /\ <<>> \in Seq(Op)
           /\ AllWrites(e, <<>>) = {}
           /\ AllRemoves(e, <<>>) = {}
           /\ ~Reading(<<>>)
BY DEF Proper, Orderly, AllWrites, AllRemoves, Reading

\* An operation that may have no key, before others.
Then(op, K, ops) == Some(op, K) \o ops

\* It is in order if it fits and is in order with each of them.
LEMMA SomeEffect ==
    ASSUME NEW e, NEW op \in OpNames, NEW K \in SUBSET AnyKeys, NEW t \in Seq(Op),
           Proper(e, t), K # {}, Fits(e, Do(op, K)), First(e, Do(op, K), t)
    PROVE  /\ Proper(e, Then(op, K, t))
           /\ Orderly(e, Then(op, K, t))
           /\ Then(op, K, t) \in Seq(Op)
           /\ Joined(e, Do(op, K), t, Then(op, K, t))
<1> DEFINE c == Do(op, K)
           s == <<c>> \o t
<1>1. Then(op, K, t) = s /\ c \in Op /\ c.op = op
  BY DoType DEF Some, Then
<1>2. InOrder(e, c, t)
  BY DEF InOrder
<1>3. /\ Proper(e, s)
      /\ Orderly(e, s)
      /\ s \in Seq(Op)
      /\ Joined(e, c, t, s)
  <2> HIDE DEF c
  <2>1. QED
    BY <1>1, <1>2, ConsProper
<1> HIDE DEF s, c
<1>4. QED
  BY <1>1, <1>3 DEF c

\* It is in order also if it has no key and is left out.
LEMMA SomeProper ==
    ASSUME NEW e, NEW op \in OpNames, NEW K \in SUBSET AnyKeys, NEW t \in Seq(Op),
           Proper(e, t), Orderly(e, t),
           K # {} => Fits(e, Do(op, K)) /\ First(e, Do(op, K), t)
    PROVE  /\ Proper(e, Then(op, K, t))
           /\ Orderly(e, Then(op, K, t))
           /\ Then(op, K, t) \in Seq(Op)
<1>1. CASE K = {}
  <2>1. Then(op, K, t) = t
    BY <1>1, ConcatEmptySeq DEF Some, Then
  <2>2. QED
    BY <1>1, <2>1
<1>2. CASE K # {}
  BY <1>2, SomeEffect
<1>3. QED
  BY <1>1, <1>2
-----------------------------------------------------------------------------
(* The script of an event is in order and does what the event means. *)

\* A key that is not a channel's is its own stored form.
LEMMA PlainKey ==
    ASSUME NEW k \in EventKeys, k \notin ChannelKeys
    PROVE  StoredKey(k) = k /\ k[1] # "channel" /\ k \in StoredKeys
<1>1. StoredKey(k) = k /\ k[1] # "channel"
  BY EventKeyShape DEF ChannelKeys, StoredKey
<1>2. QED
  BY <1>1 DEF StoredKeys, Stored

\* What the keys of each kind look like.
LEMMA KeyKinds ==
    /\ \A k \in ChannelKeys : k[1] = "channel"
    /\ \A k \in RoleKeys : k[1] = "role"
    /\ \A k \in EmojiKeys : k[1] = "emoji"
    /\ \A k \in MemberKeys : k[1] = "member"
    /\ \A k \in PresenceKeys : k[1] = "presence"
    /\ \A k \in VoiceKeys : k[1] = "voice"
    /\ \A k \in MessageKeys : k[1] = "message"
    /\ \A k \in GuildKeys : k[1] = "guild" /\ Len(k) = 2
    /\ bot_user_key[1] = "bot_user"
    /\ \A k \in EventKeys : k[1] = "member" => k \in MemberKeys
<1>1. /\ \A k \in ChannelKeys : k[1] = "channel"
      /\ \A k \in RoleKeys : k[1] = "role"
      /\ \A k \in EmojiKeys : k[1] = "emoji"
      /\ \A k \in MemberKeys : k[1] = "member"
      /\ \A k \in PresenceKeys : k[1] = "presence"
      /\ \A k \in VoiceKeys : k[1] = "voice"
      /\ \A k \in MessageKeys : k[1] = "message"
      /\ \A k \in GuildKeys : k[1] = "guild" /\ Len(k) = 2
      /\ bot_user_key[1] = "bot_user"
  BY DEF ChannelKeys, RoleKeys, EmojiKeys, MemberKeys, PresenceKeys, VoiceKeys, MessageKeys,
         GuildKeys, channel_key, role_key, emoji_key, member_key, presence_key, voice_key,
         message_key, guild_key, bot_user_key
<1>2. QED
  BY <1>1 DEF EventKeys

\* An object of a guild is not stored as a guild.
LEMMA ItemsAreNotGuilds ==
    ASSUME NEW g, NEW h
    PROVE  guild_key(h) \notin Stored(GuildItems(g))
<1> SUFFICES ASSUME NEW k \in GuildItems(g), StoredKey(k) = guild_key(h) PROVE FALSE
  BY DEF Stored
<1>1. k \in EventKeys /\ Len(k) > 2
  BY DEF GuildItems
<1>2. CASE k \in ChannelKeys
  <2>1. StoredKey(k)[1] = "channel"
    BY <1>1, <1>2, KeyKinds DEF StoredKey
  <2>2. QED
    BY <2>1 DEF guild_key
<1>3. CASE k \notin ChannelKeys
  <2>1. k = guild_key(h)
    BY <1>1, <1>3, PlainKey
  <2>2. QED
    BY <1>1, <2>1 DEF guild_key
<1>4. QED
  BY <1>2, <1>3

\* The emojis of a guild are stored as they are.
LEMMA EmojisArePlain ==
    ASSUME NEW g
    PROVE  /\ GuildKeysOf("emoji", g) \subseteq EventKeys \cap StoredKeys
           /\ \A k \in GuildKeysOf("emoji", g) : StoredKey(k) = k
           /\ \A K \in SUBSET GuildKeysOf("emoji", g) : Stored(K) = K
<1>1. \A k \in GuildKeysOf("emoji", g) : k \in EventKeys /\ k \notin ChannelKeys
  BY KeyKinds DEF GuildKeysOf, GuildItems
<1>2. \A k \in GuildKeysOf("emoji", g) : StoredKey(k) = k /\ k \in StoredKeys
  BY <1>1, PlainKey
<1>3. QED
  BY <1>1, <1>2 DEF Stored

PlainOps == {"set", "del", "expire"}
Plain(ops) == \A i \in 1 .. Len(ops) : ops[i].op \in PlainOps

\* Only plain operations follow a read.
LEMMA ReadFirst ==
    ASSUME NEW e, NEW op \in {"get", "get_all", "modify", "clear"}, NEW K, NEW t \in Seq(Op),
           Plain(t), op = "modify" => Stored(Updated(e)) \subseteq AllWrites(e, t)
    PROVE  First(e, Do(op, K), t)
<1> DEFINE c == Do(op, K)
<1>1. c.op = op
  BY DEF Do
<1> HIDE DEF c
<1>2. Writes(e, c) = {} /\ Puts(c) = {}
  BY <1>1 DEF Writes, Puts
<1>3. \A i \in 1 .. Len(t) : Before(e, c, t[i])
  BY <1>1, <1>2 DEF Before, Plain, PlainOps
<1>4. QED
  BY <1>1, <1>2, <1>3 DEF First, c

\* A sequence that may begin with a plain operation is plain if the rest of it is.
LEMMA PlainSome ==
    ASSUME NEW op \in PlainOps, NEW K \in SUBSET AnyKeys, NEW t \in Seq(Op), Plain(t)
    PROVE  Plain(Then(op, K, t))
<1>1. CASE K = {}
  BY <1>1, ConcatEmptySeq DEF Some, Then
<1>2. CASE K # {}
  <2>1. Some(op, K) = <<Do(op, K)>> /\ Do(op, K) \in Op /\ Do(op, K).op = op
    BY <1>2, DoType DEF Some, PlainOps, OpNames
  <2> DEFINE c == Do(op, K)
             s == <<c>> \o t
  <2> HIDE DEF c
  <2>2. Len(s) = Len(t) + 1 /\ \A i \in 1 .. Len(s) : s[i] = IF i = 1 THEN c ELSE t[i - 1]
    BY <2>1, ConcatProperties DEF c
  <2>3. Len(t) \in Nat
    BY LenProperties
  <2> HIDE DEF s
  <2>4. \A i \in 1 .. Len(s) : i # 1 => i - 1 \in 1 .. Len(t)
    BY <2>2, <2>3
  <2>5. Plain(s)
    BY <2>1, <2>2, <2>4 DEF Plain, c
  <2>6. QED
    BY <2>1, <2>5 DEF s, c, Then
<1>3. QED
  BY <1>1, <1>2

\* The writing end of an update: set_all, then expire_all of what is to expire.
LEMMA SetExpire ==
    ASSUME NEW e, NEW K \in SUBSET AnyKeys, NEW X \in SUBSET AnyKeys,
           K \subseteq Written(e) \cup Updated(e), K \cap Expiring \subseteq X
    PROVE  /\ Set(K) \o Expire(X) \in Seq(Op)
           /\ Proper(e, Set(K) \o Expire(X))
           /\ Orderly(e, Set(K) \o Expire(X))
           /\ Plain(Set(K) \o Expire(X))
           /\ Stored(K) \subseteq AllWrites(e, Set(K) \o Expire(X))
<1>1. \A op \in OpNames, Y \in SUBSET AnyKeys : Do(op, Y) \in Op /\ Do(op, Y).op = op
                                               /\ Do(op, Y).keys = Y
  BY DoType
<1> DEFINE t == Expire(X)
<1>2. /\ t \in Seq(Op) /\ Proper(e, t) /\ Orderly(e, t) /\ Plain(t)
      /\ t = IF X = {} THEN <<>> ELSE <<Do("expire", X)>>
  <2>1. /\ t = IF X = {} THEN <<>> ELSE <<Do("expire", X)>>
        /\ t = Then("expire", X, <<>>)
    BY <1>1, ConcatEmptySeq DEF Expire, Some, Then, OpNames
  <2>2. /\ Do("expire", X).op = "expire"
        /\ Do("expire", X) \in Op
    BY <1>1 DEF OpNames
  <2>3. Fits(e, Do("expire", X)) /\ First(e, Do("expire", X), <<>>)
    BY <2>2 DEF Fits, First, Puts
  <2>4. Plain(<<>>)
    BY DEF Plain
  <2>5. "expire" \in OpNames /\ "expire" \in PlainOps
    BY DEF OpNames, PlainOps
  <2>6. <<>> \in Seq(Op) /\ Proper(e, <<>>) /\ Orderly(e, <<>>)
    BY NoneProper
  <2> DEFINE u == Then("expire", X, <<>>)
  <2>7. u \in Seq(Op) /\ Proper(e, u) /\ Orderly(e, u)
    BY <2>3, <2>5, <2>6, SomeProper
  <2>8. Plain(u)
    BY <2>4, <2>5, <2>6, PlainSome
  <2> HIDE DEF u
  <2>9. QED
    BY <2>1, <2>7, <2>8 DEF u
<1>3. K # {} => Fits(e, Do("set", K)) /\ First(e, Do("set", K), t)
  <2>1. Do("set", K).op = "set" /\ Do("set", K).keys = K
    BY <1>1 DEF OpNames
  <2>2. Fits(e, Do("set", K))
    BY <2>1 DEF Fits
  <2>3. Puts(Do("set", K)) \subseteq X
    BY <2>1 DEF Puts
  <2>4. \A i \in 1 .. Len(t) : t[i] = Do("expire", X) /\ t[i].op = "expire" /\ t[i].keys = X
    <3>1. CASE X = {}
      BY <1>2, <3>1
    <3>2. CASE X # {}
      <4>1. t = <<Do("expire", X)>> /\ Do("expire", X).op = "expire" /\ Do("expire", X).keys = X
        BY <1>1, <1>2, <3>2 DEF OpNames
      <4> HIDE DEF t
      <4>2. QED
        BY <4>1
    <3>3. QED
      BY <3>1, <3>2
  <2> HIDE DEF t
  <2>5. \A i \in 1 .. Len(t) : Before(e, Do("set", K), t[i])
    BY <2>1, <2>3, <2>4 DEF Before, Removes
  <2>6. Puts(Do("set", K)) # {} => t # <<>>
    BY <1>2, <2>3
  <2>7. QED
    BY <2>1, <2>2, <2>5, <2>6 DEF First
<1> HIDE DEF t
<1>4. /\ Then("set", K, t) \in Seq(Op)
      /\ Proper(e, Then("set", K, t))
      /\ Orderly(e, Then("set", K, t))
      /\ Plain(Then("set", K, t))
      /\ K # {} => Writes(e, Do("set", K)) \subseteq AllWrites(e, Then("set", K, t))
  <2>1. "set" \in OpNames /\ "set" \in PlainOps
    BY DEF OpNames, PlainOps
  <2>2. Plain(Then("set", K, t))
    BY <1>2, <2>1, PlainSome
  <2>3. t \in Seq(Op) /\ Proper(e, t) /\ Orderly(e, t)
    BY <1>2
  <2> DEFINE u == Then("set", K, t)
  <2>4. u \in Seq(Op) /\ Proper(e, u) /\ Orderly(e, u)
    BY <1>3, <2>1, <2>3, SomeProper
  <2>5. ASSUME K # {} PROVE Writes(e, Do("set", K)) \subseteq AllWrites(e, u)
    <3>1. Fits(e, Do("set", K)) /\ First(e, Do("set", K), t)
      BY <1>3, <2>5
    <3>2. Joined(e, Do("set", K), t, u)
      BY <2>1, <2>3, <2>5, <3>1, SomeEffect
    <3> HIDE DEF u
    <3>3. QED
      BY <3>2 DEF Joined
  <2> HIDE DEF u
  <2>6. QED
    BY <2>2, <2>4, <2>5 DEF u
<1>5. K = {} => Stored(K) = {}
  BY DEF Stored
<1>6. Writes(e, Do("set", K)) = Stored(K)
  BY <1>1 DEF OpNames, Writes
<1>7. QED
  BY <1>4, <1>5, <1>6 DEF Set, Then, t

\* Plain operations in order.
Tidy(e, ops) == ops \in Seq(Op) /\ Proper(e, ops) /\ Orderly(e, ops) /\ Plain(ops)

\* Nothing to do is tidy.
LEMMA NoneTidy == ASSUME NEW e PROVE Tidy(e, <<>>)
BY NoneProper DEF Tidy, Plain

\* set_all of keys that do not expire is tidy.
LEMMA SetTidy ==
    ASSUME NEW e, NEW K \in SUBSET AnyKeys,
           K \subseteq Written(e) \cup Updated(e), K \cap Expiring = {}
    PROVE  Tidy(e, Set(K)) /\ Stored(K) \subseteq AllWrites(e, Set(K))
<1>1. Set(K) \o Expire({}) = Set(K)
  <2>1. Do("set", K) \in Op
    BY DoType DEF OpNames
  <2>2. Set(K) \in Seq(Op)
    BY <2>1 DEF Set, Some
  <2>3. QED
    BY <2>2, ConcatEmptySeq DEF Expire, Some
<1>2. K \cap Expiring \subseteq {} /\ {} \in SUBSET AnyKeys
  OBVIOUS
<1> DEFINE u == Set(K) \o Expire({})
<1>3. Tidy(e, u) /\ Stored(K) \subseteq AllWrites(e, u)
  BY <1>2, SetExpire DEF Tidy
<1> HIDE DEF u
<1>4. QED
  BY <1>1, <1>3 DEF u

\* del_all of keys the event erases may come before tidy operations.
LEMMA DelTidy ==
    ASSUME NEW e, NEW K \in SUBSET AnyKeys, NEW t, Tidy(e, t),
           Stored(K) \subseteq Stored(Erased(e))
    PROVE  /\ Tidy(e, Then("del", K, t))
           /\ Stored(K) \subseteq AllRemoves(e, Then("del", K, t))
           /\ AllRemoves(e, t) \subseteq AllRemoves(e, Then("del", K, t))
           /\ AllWrites(e, t) \subseteq AllWrites(e, Then("del", K, t))
<1> DEFINE c == Do("del", K)
           u == Then("del", K, t)
<1>1. /\ c.op = "del" /\ c.keys = K
      /\ "del" \in OpNames /\ "del" \in PlainOps
      /\ t \in Seq(Op) /\ Proper(e, t) /\ Orderly(e, t) /\ Plain(t)
  BY DoType DEF OpNames, PlainOps, Tidy
<1>2. Plain(u)
  BY <1>1, PlainSome
<1>3. CASE K = {}
  <2>1. u = t
    BY <1>1, <1>3, ConcatEmptySeq DEF Then, Some
  <2>2. Stored(K) = {}
    BY <1>3 DEF Stored
  <2> HIDE DEF u
  <2>3. QED
    BY <2>1, <2>2 DEF u
<1>4. CASE K # {}
  <2> HIDE DEF c
  <2>1. Fits(e, c)
    BY <1>1 DEF Fits
  <2>2. Writes(e, c) = {} /\ Puts(c) = {} /\ Removes(e, c) = Stored(K)
    BY <1>1 DEF Writes, Puts, Removes
  <2>3. \A i \in 1 .. Len(t) : Before(e, c, t[i])
    BY <1>1, <2>2 DEF Before, Plain, PlainOps
  <2>4. First(e, c, t)
    BY <1>1, <2>2, <2>3 DEF First
  <2>5. Joined(e, c, t, u) /\ u \in Seq(Op) /\ Proper(e, u) /\ Orderly(e, u)
    BY <1>1, <1>4, <2>1, <2>4, SomeEffect DEF c
  <2> HIDE DEF u
  <2>6. QED
    BY <1>2, <2>2, <2>5 DEF Joined, Tidy, u
<1>5. QED
  BY <1>3, <1>4

\* A read may come before tidy operations.
LEMMA ReadOrderly ==
    ASSUME NEW e, NEW op \in {"get", "get_all", "modify", "clear"}, NEW K \in SUBSET AnyKeys,
           NEW t, Tidy(e, t), K # {} => Fits(e, Do(op, K)),
           op = "modify" => Stored(Updated(e)) \subseteq AllWrites(e, t)
    PROVE  /\ Then(op, K, t) \in Seq(Op)
           /\ Proper(e, Then(op, K, t))
           /\ Orderly(e, Then(op, K, t))
           /\ AllRemoves(e, t) \subseteq AllRemoves(e, Then(op, K, t))
           /\ AllWrites(e, t) \subseteq AllWrites(e, Then(op, K, t))
           /\ K # {} => /\ Reading(Then(op, K, t))
                        /\ Then(op, K, t) # <<>>
                        /\ Head(Then(op, K, t)) = Do(op, K)
                        /\ Removes(e, Do(op, K)) \subseteq AllRemoves(e, Then(op, K, t))
<1> DEFINE c == Do(op, K)
           u == Then(op, K, t)
<1>1. /\ c.op = op /\ c.keys = K /\ op \in OpNames /\ op \in ReadOps
      /\ t \in Seq(Op) /\ Proper(e, t) /\ Orderly(e, t) /\ Plain(t)
  BY DoType DEF OpNames, ReadOps, Tidy
<1>2. CASE K = {}
  <2>1. u = t
    BY <1>1, <1>2, ConcatEmptySeq DEF Then, Some
  <2> HIDE DEF u
  <2>2. QED
    BY <1>1, <1>2, <2>1 DEF u
<1>3. CASE K # {}
  <2>1. First(e, c, t)
    BY <1>1, ReadFirst
  <2>2. Fits(e, c)
    BY <1>3
  <2>3. Joined(e, c, t, u) /\ u \in Seq(Op) /\ Proper(e, u) /\ Orderly(e, u)
    BY <1>1, <1>3, <2>1, <2>2, SomeEffect
  <2> HIDE DEF u, c
  <2>4. QED
    BY <1>1, <1>3, <2>3 DEF Joined, u, c
<1>4. QED
  BY <1>2, <1>3

\* So may the read for `old`, which state_old asks for.
LEMMA OldOrderly ==
    ASSUME NEW e, NEW K \in SUBSET AnyKeys, NEW t, Tidy(e, t),
           state_old => K = OldOf(e)
    PROVE  /\ Old(K) \o t \in Seq(Op)
           /\ Proper(e, Old(K) \o t)
           /\ Orderly(e, Old(K) \o t)
           /\ AllRemoves(e, t) \subseteq AllRemoves(e, Old(K) \o t)
           /\ AllWrites(e, t) \subseteq AllWrites(e, Old(K) \o t)
           /\ state_old /\ K # {} => Reading(Old(K) \o t)
<1> DEFINE u == Old(K) \o t
<1>1. CASE state_old
  <2>1. u = Then("get", K, t)
    BY <1>1 DEF Old, Then
  <2>2. Do("get", K).op = "get" /\ Do("get", K).keys = K
    BY DoType DEF OpNames
  <2>3. Fits(e, Do("get", K))
    BY <1>1, <2>2 DEF Fits
  <2> DEFINE x == Then("get", K, t)
  <2>4. /\ x \in Seq(Op)
        /\ Proper(e, x)
        /\ Orderly(e, x)
        /\ AllRemoves(e, t) \subseteq AllRemoves(e, x)
        /\ AllWrites(e, t) \subseteq AllWrites(e, x)
        /\ K # {} => Reading(x)
    BY <2>3, ReadOrderly
  <2> HIDE DEF x, u
  <2>5. QED
    BY <2>1, <2>4 DEF x, u
<1>2. CASE ~state_old
  <2>1. u = t
    BY <1>2, ConcatEmptySeq DEF Old, Tidy
  <2> HIDE DEF u
  <2>2. QED
    BY <1>2, <2>1 DEF u, Tidy
<1>3. QED
  BY <1>1, <1>2

\* The operations of an update are in order, write what the event writes, remove what it
\* erases, read an object before they modify it and read the old values it asks for.
ScriptOK(e, ops) ==
    /\ ops \in Seq(Op)
    /\ Orderly(e, ops)
    /\ Stored(Written(e)) \subseteq AllWrites(e, ops)
    /\ Stored(Erased(e)) \ Stored(Written(e)) \subseteq AllRemoves(e, ops)
    /\ Updated(e) # {} => ops # <<>> /\ Head(ops).op = "modify"
    /\ OldOf(e) # {} => Reading(ops)

\* The keys of an event: known ones, and of those that expire only messages and members.
LEMMA EventKeysOf ==
    ASSUME NEW e \in Event, WellFormed(e)
    PROVE  /\ e.keys \in SUBSET EventKeys /\ e.keys \in SUBSET AnyKeys
           /\ e.kind \in {"ChannelCreate", "ChannelDelete", "ChannelUpdate", "ChannelPinsUpdate",
                          "GuildUpdate", "PresenceUpdate", "RoleCreate", "RoleDelete",
                          "RoleUpdate", "UserUpdate", "Ready", "VoiceStateUpdate",
                          "GuildEmojisUpdate"} => e.keys \cap Expiring = {}
           /\ e.kind \in {"ChannelPinsUpdate", "MemberUpdate", "MessageUpdate"} =>
                 \E k \in EventKeys : e.keys = {k}
<1> DEFINE Tag(t) == \A k \in e.keys : k[1] = t
<1>1. e.keys \in SUBSET EventKeys /\ e.keys \in SUBSET AnyKeys
  BY DEF Event, AnyKeys
<1>2. \A k \in Expiring : k[1] \in {"message", "member"}
  BY KeyKinds DEF Expiring
<1>3. e.kind \in {"ChannelCreate", "ChannelDelete", "ChannelUpdate", "ChannelPinsUpdate"} => Tag("channel")
  BY DEF WellFormed, channel_key
<1>4. e.kind = "GuildUpdate" => Tag("guild")
  BY DEF WellFormed, guild_key
<1>5. e.kind = "PresenceUpdate" => Tag("presence")
  BY DEF WellFormed, presence_key
<1>6. e.kind \in {"RoleCreate", "RoleDelete", "RoleUpdate"} => Tag("role")
  BY DEF WellFormed, role_key
<1>7. e.kind = "UserUpdate" => Tag("bot_user")
  BY DEF WellFormed, bot_user_key
<1>8. e.kind = "Ready" => Tag("guild")
  BY DEF WellFormed, GuildKeys, guild_key
<1>9. e.kind = "VoiceStateUpdate" => Tag("voice")
  BY DEF WellFormed, voice_key
<1>10. e.kind = "GuildEmojisUpdate" => Tag("emoji")
  BY DEF WellFormed, GuildKeysOf
<1>11. \A t \in {"channel", "guild", "presence", "role", "bot_user", "voice", "emoji"} :
          Tag(t) => e.keys \cap Expiring = {}
  BY <1>2
<1>12. e.kind \in {"ChannelPinsUpdate", "MemberUpdate", "MessageUpdate"} => \E k : e.keys = {k}
  BY DEF WellFormed
<1> HIDE DEF Tag
<1>13. QED
  BY <1>1, <1>3, <1>4, <1>5, <1>6, <1>7, <1>8, <1>9, <1>10, <1>11, <1>12

\* clear_guild may come before tidy operations.
LEMMA ClearOrderly ==
    ASSUME NEW e, Handled(e), e.kind \in ClearKinds, e.guild \in Guilds, NEW t, Tidy(e, t)
    PROVE  /\ ClearGuild(e.guild) \o t \in Seq(Op)
           /\ Orderly(e, ClearGuild(e.guild) \o t)
           /\ AllWrites(e, t) \subseteq AllWrites(e, ClearGuild(e.guild) \o t)
           /\ Stored(Erased(e)) \subseteq AllRemoves(e, ClearGuild(e.guild) \o t)
           /\ Reading(ClearGuild(e.guild) \o t)
<1> DEFINE G == {guild_key(e.guild)}
           c == Do("clear", G)
           m == Do("members", G)
           x == Then("clear", G, t)
           u == Then("members", G, x)
<1>1. /\ G # {} /\ G \in SUBSET AnyKeys
      /\ c.op = "clear" /\ c.keys = G
      /\ m.op = "members" /\ m.keys = G
      /\ m \in Op /\ c \in Op
      /\ "members" \in OpNames /\ "clear" \in OpNames
      /\ t \in Seq(Op)
  BY KeysType, DoType DEF OpNames, AnyKeys, Tidy
<1>2. Stored(G) = G
  BY DEF Stored, StoredKey, guild_key
<1>3. Fits(e, c) /\ Fits(e, m)
  BY <1>1 DEF Fits
<1>4. /\ x \in Seq(Op)
      /\ Proper(e, x)
      /\ AllWrites(e, t) \subseteq AllWrites(e, x)
      /\ Reading(x)
      /\ G \subseteq AllRemoves(e, x)
  <2>1. Removes(e, c) = G
    BY <1>1, <1>2 DEF Removes
  <2>2. /\ x \in Seq(Op)
        /\ Proper(e, x)
        /\ AllWrites(e, t) \subseteq AllWrites(e, x)
        /\ Reading(x)
        /\ Removes(e, c) \subseteq AllRemoves(e, x)
    <3> HIDE DEF G
    <3>1. QED
      BY <1>1, <1>3, ReadOrderly
  <2> HIDE DEF x, c
  <2>3. QED
    BY <2>1, <2>2
<1>5. ClearGuild(e.guild) \o t = u /\ x = <<c>> \o t
  <2>1. Some("clear", G) = <<c>> /\ Some("members", G) = <<m>>
    <3> HIDE DEF G
    <3>1. QED
      BY <1>1 DEF Some
  <2>2. ClearGuild(e.guild) = <<m, c>>
    BY DEF ClearGuild
  <2> HIDE DEF m, c
  <2>3. <<m>> \o (<<c>> \o t) = <<m, c>> \o t
    BY <1>1, PairSeq
  <2>4. QED
    BY <2>1, <2>2, <2>3 DEF Then
<1>6. /\ \A i \in 1 .. Len(x) : x[i] = c \/ x[i].op \in PlainOps
      /\ \E i \in 1 .. Len(x) : x[i].op = "clear"
  <2> HIDE DEF c, x
  <2>1. /\ 1 \in 1 .. Len(x) /\ x[1] = c
        /\ \A i \in 1 .. Len(x) : i = 1 \/ (i - 1 \in 1 .. Len(t) /\ x[i] = t[i - 1])
    BY <1>1, <1>5, ConsSeq
  <2>2. QED
    BY <1>1, <2>1 DEF Tidy, Plain
<1> HIDE DEF x, m, c
<1>8. First(e, m, x)
  <2>1. Writes(e, m) = {} /\ Puts(m) = {} /\ Removes(e, m) = Stored(GuildItems(e.guild))
    BY <1>1 DEF Writes, Puts, Removes
  <2>2. Removes(e, m) \cap Stored(G) = {}
    BY <1>2, <2>1, ItemsAreNotGuilds
  <2>3. \A i \in 1 .. Len(x) : Before(e, m, x[i])
    BY <1>1, <1>6, <2>1, <2>2 DEF Before, PlainOps
  <2>4. QED
    BY <1>1, <1>6, <2>1, <2>3 DEF First
<1>9. Joined(e, m, x, u) /\ u \in Seq(Op) /\ Orderly(e, u)
  BY <1>1, <1>3, <1>4, <1>8, SomeEffect DEF m
<1>10. Stored(Erased(e)) = Stored(GuildItems(e.guild)) \cup G
  <2>1. Erased(e) = GuildItems(e.guild) \cup G
    BY DEF Erased, ClearKinds
  <2>2. Stored(Erased(e)) = Stored(GuildItems(e.guild)) \cup Stored(G)
    BY <2>1 DEF Stored
  <2>3. QED
    BY <1>2, <2>2
<1>11. Removes(e, m) = Stored(GuildItems(e.guild))
  BY <1>1 DEF Removes
<1> HIDE DEF u, G
<1>12. /\ u \in Seq(Op)
       /\ Orderly(e, u)
       /\ AllWrites(e, t) \subseteq AllWrites(e, u)
       /\ Stored(Erased(e)) \subseteq AllRemoves(e, u)
       /\ Reading(u)
  BY <1>4, <1>9, <1>10, <1>11 DEF Joined
<1>13. QED
  BY <1>5, <1>12

\* The updates that only write, remove or modify what the event carries.
LEMMA ObjectScript ==
    ASSUME NEW e \in Event, WellFormed(e), Handled(e),
           e.kind \notin {"GuildCreate", "GuildDelete", "UnavailableGuild",
                          "GuildEmojisUpdate", "MemberRemove", "Ready", "none"}
    PROVE  ScriptOK(e, Arm(e))
<1> DEFINE K == e.keys
<1>0. /\ K \in SUBSET AnyKeys
      /\ e.kind \in AllKinds
      /\ Stored({}) = {}
      /\ \A r \in Seq(Op) : r \o <<>> = r
  BY EventKeysOf, ConcatEmptySeq DEF Event, Stored
<1>1. CASE e.kind \in {"ChannelCreate", "RoleCreate"}
  <2>1. Arm(e) = Set(K) /\ Written(e) = K /\ Erased(e) = {} /\ Updated(e) = {} /\ OldOf(e) = {}
    BY <1>1 DEF Arm, Written, Erased, Updated, OldOf
  <2>2. Tidy(e, Set(K)) /\ Stored(K) \subseteq AllWrites(e, Set(K))
    BY <1>0, <1>1, <2>1, EventKeysOf, SetTidy
  <2>3. QED
    BY <1>0, <2>1, <2>2 DEF ScriptOK, Tidy
<1>2. CASE \/ e.kind \in {"ChannelDelete", "RoleDelete", "MessageDelete"}
           \/ e.kind = "VoiceStateUpdate" /\ ~e.flag
  <2>1. Arm(e) = Old(K) \o Del(K) /\ Written(e) = {} /\ Erased(e) = K /\ Updated(e) = {}
        /\ OldOf(e) = IF state_old THEN K ELSE {}
    BY <1>2 DEF Arm, Written, Erased, Updated, OldOf
  <2>2. Del(K) = Then("del", K, <<>>)
    <3>1. Do("del", K) \in Op
      BY <1>0, DoType DEF OpNames
    <3>2. QED
      BY <1>0, <3>1 DEF Del, Then, Some
  <2>3. Tidy(e, Then("del", K, <<>>)) /\ Stored(K) \subseteq AllRemoves(e, Then("del", K, <<>>))
    BY <1>0, <2>1, NoneTidy, DelTidy
  <2> DEFINE t == Del(K)
             u == Old(K) \o t
  <2>4. Tidy(e, t) /\ Stored(K) \subseteq AllRemoves(e, t)
    BY <2>2, <2>3
  <2>5. /\ u \in Seq(Op)
        /\ Orderly(e, u)
        /\ AllRemoves(e, t) \subseteq AllRemoves(e, u)
        /\ state_old /\ K # {} => Reading(u)
    BY <1>0, <2>1, <2>4, OldOrderly
  <2> HIDE DEF t, u
  <2>6. QED
    BY <1>0, <2>1, <2>4, <2>5 DEF ScriptOK, t, u
<1>3. CASE \/ e.kind \in {"ChannelUpdate", "GuildUpdate", "PresenceUpdate", "RoleUpdate",
                           "UserUpdate"}
           \/ e.kind = "VoiceStateUpdate" /\ e.flag
  <2>1. Arm(e) = Old(K) \o Set(K) /\ Written(e) = K /\ Erased(e) = {} /\ Updated(e) = {}
        /\ OldOf(e) = IF state_old THEN K ELSE {}
    BY <1>3 DEF Arm, Written, Erased, Updated, OldOf
  <2> DEFINE t == Set(K)
             u == Old(K) \o t
  <2>2. Tidy(e, t) /\ Stored(K) \subseteq AllWrites(e, t)
    BY <1>0, <1>3, <2>1, EventKeysOf, SetTidy
  <2>3. /\ u \in Seq(Op)
        /\ Orderly(e, u)
        /\ AllWrites(e, t) \subseteq AllWrites(e, u)
        /\ state_old /\ K # {} => Reading(u)
    BY <1>0, <2>1, <2>2, OldOrderly
  <2> HIDE DEF t, u
  <2>4. QED
    BY <1>0, <2>1, <2>2, <2>3 DEF ScriptOK, t, u
<1>4. CASE e.kind \in {"ChannelPinsUpdate", "MemberUpdate", "MessageUpdate"}
  <2> DEFINE t == IF e.kind = "ChannelPinsUpdate" THEN Set(K) ELSE Set(K) \o Expire(K)
             u == Then("modify", K, t)
  <2>1. Written(e) = {} /\ Erased(e) = {} /\ Updated(e) = K /\ OldOf(e) \subseteq K /\ K # {}
    BY <1>4, EventKeysOf DEF Written, Erased, Updated, OldOf
  <2>2. Tidy(e, t) /\ Stored(K) \subseteq AllWrites(e, t)
    <3>1. CASE e.kind = "ChannelPinsUpdate"
      BY <1>0, <3>1, <2>1, EventKeysOf, SetTidy
    <3>2. CASE e.kind # "ChannelPinsUpdate"
      <4>1. K \cap Expiring \subseteq K /\ K \subseteq Written(e) \cup Updated(e)
        BY <2>1
      <4> DEFINE x == Set(K) \o Expire(K)
      <4>2. Tidy(e, x) /\ Stored(K) \subseteq AllWrites(e, x)
        BY <1>0, <4>1, SetExpire DEF Tidy
      <4> HIDE DEF x
      <4>3. QED
        BY <3>2, <4>2 DEF x
    <3>3. QED
      BY <3>1, <3>2
  <2>3. Arm(e) = u
    <3>1. CASE e.kind = "ChannelPinsUpdate"
      BY <3>1 DEF Arm, Then
    <3>2. CASE e.kind # "ChannelPinsUpdate"
      <4> DEFINE A == Some("modify", K)
                 B == Set(K)
                 C == Expire(K)
      <4>1. Arm(e) = (A \o B) \o C
        BY <1>4, <3>2 DEF Arm
      <4>2. A \in Seq(Op) /\ B \in Seq(Op) /\ C \in Seq(Op)
        BY <1>0, DoType DEF Some, Set, Expire, OpNames
      <4> HIDE DEF A, B, C
      <4>3. (A \o B) \o C = A \o (B \o C)
        BY <4>2, ConcatAssociative
      <4>4. QED
        BY <3>2, <4>1, <4>3 DEF Then, A, B, C
    <3>3. QED
      BY <3>1, <3>2
  <2> HIDE DEF t
  <2>4. Fits(e, Do("modify", K))
    <3>1. Do("modify", K).op = "modify" /\ Do("modify", K).keys = K
      BY <1>0, DoType DEF OpNames
    <3>2. QED
      BY <2>1, <3>1 DEF Fits
  <2>5. /\ u \in Seq(Op)
        /\ Orderly(e, u)
        /\ Reading(u)
        /\ u # <<>>
        /\ Head(u) = Do("modify", K)
    BY <1>0, <2>1, <2>2, <2>4, ReadOrderly
  <2>6. Do("modify", K).op = "modify"
    BY <1>0, DoType DEF OpNames
  <2> HIDE DEF u
  <2>7. QED
    BY <1>0, <2>1, <2>3, <2>5, <2>6 DEF ScriptOK
<1>5. CASE e.kind \in {"MemberAdd", "MemberChunk", "MessageCreate"}
  <2> DEFINE u == Set(K) \o Expire(K)
  <2>1. Arm(e) = u /\ Written(e) = K /\ Erased(e) = {} /\ Updated(e) = {} /\ OldOf(e) = {}
    BY <1>5 DEF Arm, Written, Erased, Updated, OldOf
  <2>2. K \cap Expiring \subseteq K /\ K \subseteq Written(e) \cup Updated(e)
    BY <2>1
  <2>3. Tidy(e, u) /\ Stored(K) \subseteq AllWrites(e, u)
    BY <1>0, <2>2, SetExpire DEF Tidy
  <2> HIDE DEF u
  <2>4. QED
    BY <1>0, <2>1, <2>3 DEF ScriptOK, Tidy
<1>6. CASE e.kind = "MessageDeleteBulk"
  <2> DEFINE t == Del(K)
             u == Then("get_all", K, t)
  <2>1. Arm(e) = u /\ Written(e) = {} /\ Erased(e) = K /\ Updated(e) = {}
        /\ OldOf(e) = IF state_old THEN K ELSE {}
    BY <1>6 DEF Arm, Written, Erased, Updated, OldOf, Then
  <2>2. t = Then("del", K, <<>>)
    <3>1. Do("del", K) \in Op
      BY <1>0, DoType DEF OpNames
    <3>2. QED
      BY <1>0, <3>1 DEF Del, Then, Some
  <2>3. Tidy(e, Then("del", K, <<>>)) /\ Stored(K) \subseteq AllRemoves(e, Then("del", K, <<>>))
    BY <1>0, <2>1, NoneTidy, DelTidy
  <2>4. Tidy(e, t) /\ Stored(K) \subseteq AllRemoves(e, t)
    BY <2>2, <2>3
  <2> HIDE DEF t
  <2>5. Fits(e, Do("get_all", K))
    <3>1. Do("get_all", K).op = "get_all" /\ Do("get_all", K).keys = K
      BY <1>0, DoType DEF OpNames
    <3>2. QED
      BY <2>1, <3>1 DEF Fits
  <2>6. /\ u \in Seq(Op)
        /\ Orderly(e, u)
        /\ AllRemoves(e, t) \subseteq AllRemoves(e, u)
        /\ K # {} => Reading(u)
    BY <1>0, <2>4, <2>5, ReadOrderly
  <2> HIDE DEF u
  <2>7. QED
    BY <1>0, <2>1, <2>4, <2>6 DEF ScriptOK
<1>7. QED
  BY <1>0, <1>1, <1>2, <1>3, <1>4, <1>5, <1>6 DEF AllKinds

\* The updates that clear a guild, and may write it anew.
LEMMA GuildScript ==
    ASSUME NEW e \in Event, WellFormed(e), Handled(e), e.kind \in ClearKinds
    PROVE  ScriptOK(e, Arm(e))
<1> DEFINE K == e.keys
           g == e.guild
           C == ClearGuild(g)
<1>0. /\ K \in SUBSET EventKeys /\ K \in SUBSET AnyKeys
      /\ g \in Guilds
      /\ guild_key(g) \in EventKeys
      /\ Stored({}) = {}
      /\ \A r \in Seq(Op) : r \o <<>> = r
  BY EventKeysOf, ConcatEmptySeq, KeysType DEF WellFormed, ClearKinds, Stored
<1>1. Updated(e) = {}
  BY DEF Updated, ClearKinds
<1>2. guild_key(g) \notin Expiring
  BY KeyKinds DEF Expiring, guild_key
<1>3. C \in Seq(Op)
  <2>1. {guild_key(g)} \in SUBSET AnyKeys
    BY <1>0 DEF AnyKeys
  <2>2. Do("members", {guild_key(g)}) \in Op /\ Do("clear", {guild_key(g)}) \in Op
    BY <2>1, DoType DEF OpNames
  <2>3. QED
    BY <2>2 DEF ClearGuild
<1>4. ASSUME NEW t, Tidy(e, t), Arm(e) = C \o t, Stored(Written(e)) \subseteq AllWrites(e, t)
      PROVE  ScriptOK(e, Arm(e))
  <2> DEFINE u == C \o t
  <2>1. /\ u \in Seq(Op)
        /\ Orderly(e, u)
        /\ AllWrites(e, t) \subseteq AllWrites(e, u)
        /\ Stored(Erased(e)) \subseteq AllRemoves(e, u)
        /\ Reading(u)
    BY <1>0, <1>4, ClearOrderly
  <2> HIDE DEF u
  <2>2. Arm(e) = u
    BY <1>4 DEF u
  <2>3. QED
    BY <1>1, <1>4, <2>1, <2>2 DEF ScriptOK
<1> HIDE DEF C
<1>5. CASE e.kind = "GuildDelete"
  <2>1. Arm(e) = C \o <<>> /\ Written(e) = {}
    BY <1>0, <1>3, <1>5 DEF Arm, Written, C
  <2>2. QED
    BY <1>0, <1>4, <2>1, NoneTidy
<1>6. CASE e.kind = "UnavailableGuild"
  <2> DEFINE W == {guild_key(g)}
  <2>1. Arm(e) = C \o Set(W) /\ Written(e) = W
    BY <1>6 DEF Arm, Written, C
  <2>2. W \in SUBSET AnyKeys /\ W \subseteq Written(e) \cup Updated(e) /\ W \cap Expiring = {}
    BY <1>0, <1>2, <2>1 DEF AnyKeys
  <2> HIDE DEF W
  <2>3. Tidy(e, Set(W)) /\ Stored(W) \subseteq AllWrites(e, Set(W))
    BY <2>2, SetTidy
  <2>4. QED
    BY <1>4, <2>1, <2>3
<1>7. CASE e.kind = "GuildCreate"
  <2> DEFINE W == {k \in K : Cached(k)} \cup {guild_key(g)}
             X == IF state_member THEN Of("member", K) ELSE {}
             t == Set(W) \o Expire(X)
  <2>1. Written(e) = W
    BY <1>7 DEF Written
  <2>2. W \in SUBSET AnyKeys /\ X \in SUBSET AnyKeys /\ W \subseteq Written(e) \cup Updated(e)
    BY <1>0, <2>1 DEF AnyKeys, Of
  <2>3. W \cap Expiring \subseteq X
    <3>1. \A k \in K : k[1] # "message"
      BY <1>7 DEF WellFormed, GuildItems
    <3>2. \A k \in W \cap Expiring : k \in K /\ k[1] \in {"message", "member"}
                                  /\ (k[1] = "member" => state_member)
      BY <1>2, KeyKinds DEF Expiring
    <3>3. QED
      BY <3>1, <3>2 DEF Of
  <2>4. Arm(e) = C \o t
    <3> DEFINE A == Set(W)
               B == IF state_member THEN Expire(Of("member", K)) ELSE <<>>
    <3>1. Arm(e) = (C \o A) \o B
      BY <1>7 DEF Arm, C
    <3>2. B = Expire(X)
      BY DEF Expire, Some
    <3>3. A \in Seq(Op) /\ Expire(X) \in Seq(Op)
      <4> HIDE DEF W, X
      <4>1. Do("set", W) \in Op /\ Do("expire", X) \in Op
        BY <2>2, DoType DEF OpNames
      <4>2. QED
        BY <4>1 DEF Set, Expire, Some
    <3> HIDE DEF A, B, X
    <3>4. (C \o A) \o Expire(X) = C \o (A \o Expire(X))
      BY <1>3, <3>3, ConcatAssociative
    <3>5. QED
      BY <3>1, <3>2, <3>4 DEF A
  <2>5. Tidy(e, t) /\ Stored(W) \subseteq AllWrites(e, t)
    <3> HIDE DEF W, X
    <3>1. QED
      BY <2>2, <2>3, SetExpire DEF Tidy
  <2> HIDE DEF t, W
  <2>6. QED
    BY <1>4, <2>1, <2>4, <2>5
<1>8. QED
  BY <1>5, <1>6, <1>7 DEF ClearKinds

\* The updates of a guild's emojis, of a member that leaves, and of Ready.
LEMMA OtherScript ==
    ASSUME NEW e \in Event, WellFormed(e), Handled(e),
           e.kind \in {"GuildEmojisUpdate", "MemberRemove", "Ready"}
    PROVE  ScriptOK(e, Arm(e))
<1> DEFINE K == e.keys
<1>0. /\ K \in SUBSET EventKeys /\ K \in SUBSET AnyKeys
      /\ Stored({}) = {}
      /\ \A r \in Seq(Op) : r \o <<>> = r
      /\ \A r \in Seq(Op) : <<>> \o r = r
  BY EventKeysOf, ConcatEmptySeq DEF Stored
<1>1. Updated(e) = {}
  BY DEF Updated
<1>2. CASE e.kind = "GuildEmojisUpdate"
  <2> DEFINE G == {guild_key(e.guild)}
             c == Do("emoji_keys", G)
             E == GuildKeysOf("emoji", e.guild)
             u == Then("emoji_keys", G, <<>>)
  <2>1. /\ G \in SUBSET AnyKeys /\ G # {}
        /\ K \subseteq E
        /\ "emoji_keys" \in OpNames
    BY <1>2, KeysType DEF WellFormed, AnyKeys, OpNames
  <2>2. c.op = "emoji_keys" /\ c \in Op
    BY <2>1, DoType
  <2>3. Written(e) = K /\ Erased(e) = E
    BY <1>2 DEF Written, Erased
  <2>4. Stored(K) = K /\ Stored(E) = E
    BY <2>1, EmojisArePlain
  <2>5. Arm(e) = u
    <3>1. Some("emoji_keys", G) \in Seq(Op)
      BY <2>2 DEF Some
    <3>2. QED
      BY <1>0, <1>2, <3>1 DEF Arm, Then
  <2> HIDE DEF c, G
  <2>6. Fits(e, c) /\ First(e, c, <<>>)
    BY <1>2, <2>2 DEF Fits, First, Puts
  <2>7. Joined(e, c, <<>>, u) /\ u \in Seq(Op) /\ Orderly(e, u)
    BY <2>1, <2>6, NoneProper, SomeEffect DEF c
  <2>8. Writes(e, c) = Stored(K) /\ Removes(e, c) = E \ K /\ c.op \in ReadOps
    BY <2>2 DEF Writes, Removes, ReadOps
  <2> HIDE DEF u, E
  <2>9. QED
    BY <1>1, <2>3, <2>4, <2>5, <2>7, <2>8 DEF ScriptOK, Joined
<1>3. CASE e.kind = "MemberRemove"
  <2> DEFINE M == Of("member", K)
             P == IF state_presence THEN Of("presence", K) ELSE {}
             p == Then("del", P, <<>>)
             d == Then("del", M, p)
             u == IF state_member THEN Old(M) \o d ELSE p
  <2>1. M \in SUBSET AnyKeys /\ P \in SUBSET AnyKeys /\ M \subseteq K /\ P \subseteq K
    BY <1>0 DEF Of
  <2>2. Written(e) = {} /\ Erased(e) = P \cup (IF state_member THEN M ELSE {})
    <3>1. \A k \in K : k[1] \in {"member", "presence"}
      BY <1>3 DEF WellFormed, member_key, presence_key
    <3>2. Erased(e) = {k \in K : IF k[1] = "member" THEN state_member ELSE state_presence}
      BY <1>3 DEF Erased
    <3>3. QED
      BY <1>3, <3>1, <3>2 DEF Written, Of
  <2>3. /\ state_old /\ state_member => OldOf(e) = M
        /\ ~state_old \/ ~state_member => OldOf(e) = {}
    <3>1. OldOf(e) = IF state_old THEN Of("member", Erased(e)) ELSE {}
      BY <1>3 DEF OldOf
    <3>2. \A k \in P : k[1] = "presence"
      BY DEF Of
    <3>3. QED
      BY <2>2, <3>1, <3>2 DEF Of
  <2>4. Stored(P) \subseteq Stored(Erased(e)) /\ (state_member => Stored(M) \subseteq Stored(Erased(e)))
        /\ Stored(Erased(e)) = Stored(P) \cup (IF state_member THEN Stored(M) ELSE {})
    BY <2>2 DEF Stored
  <2>5. Arm(e) = u
    <3> DEFINE B == IF state_presence THEN Del(Of("presence", K)) ELSE <<>>
    <3>1. Arm(e) = (IF state_member THEN Old(M) \o Del(M) ELSE <<>>) \o B
      BY <1>3 DEF Arm
    <3>2. Do("del", P) \in Op /\ Do("del", M) \in Op /\ Do("get", M) \in Op
      BY <2>1, DoType DEF OpNames
    <3> HIDE DEF M
    <3>3. Del(P) \in Seq(Op) /\ Del(M) \in Seq(Op) /\ Old(M) \in Seq(Op)
      BY <3>2 DEF Del, Some, Old
    <3>4. B = Del(P)
      BY DEF Del, Some
    <3> HIDE DEF B, P
    <3>5. p = Del(P)
      BY <1>0, <3>3 DEF Then, Del
    <3>6. d = Del(M) \o Del(P)
      BY <3>5 DEF Then, Del
    <3>7. CASE state_member
      <4>1. (Old(M) \o Del(M)) \o Del(P) = Old(M) \o (Del(M) \o Del(P))
        BY <3>3, ConcatAssociative
      <4>2. QED
        BY <3>1, <3>4, <3>6, <3>7, <4>1
    <3>8. CASE ~state_member
      BY <1>0, <3>1, <3>3, <3>4, <3>5, <3>8
    <3>9. QED
      BY <3>7, <3>8
  <2>6. Tidy(e, p) /\ Stored(P) \subseteq AllRemoves(e, p)
    <3> HIDE DEF P
    <3>1. QED
      BY <2>1, <2>4, NoneTidy, DelTidy
  <2> HIDE DEF p, P, M
  <2>7. CASE state_member
    <3>1. /\ Tidy(e, d)
          /\ Stored(M) \subseteq AllRemoves(e, d)
          /\ AllRemoves(e, p) \subseteq AllRemoves(e, d)
      BY <2>1, <2>4, <2>6, <2>7, DelTidy
    <3> DEFINE x == Old(M) \o d
    <3>2. /\ x \in Seq(Op)
          /\ Orderly(e, x)
          /\ AllRemoves(e, d) \subseteq AllRemoves(e, x)
          /\ state_old /\ M # {} => Reading(x)
      <4> HIDE DEF d
      <4>1. QED
        BY <2>1, <2>3, <2>7, <3>1, OldOrderly
    <3>3. Arm(e) = x
      BY <2>5, <2>7
    <3> HIDE DEF x, d
    <3>4. QED
      BY <1>0, <1>1, <2>2, <2>3, <2>4, <2>6, <2>7, <3>1, <3>2, <3>3 DEF ScriptOK
  <2>8. CASE ~state_member
    <3>1. Arm(e) = p
      BY <2>5, <2>8
    <3>2. QED
      BY <1>0, <1>1, <2>2, <2>3, <2>4, <2>6, <2>8, <3>1 DEF ScriptOK, Tidy
  <2>9. QED
    BY <2>7, <2>8
<1>4. CASE e.kind = "Ready"
  <2> DEFINE B == {bot_user_key}
             t == Set(K)
             c == Do("set", B)
             u == Then("set", B, t)
  <2>1. Arm(e) = u /\ Written(e) = K \cup B /\ Erased(e) = {} /\ OldOf(e) = {}
    BY <1>4 DEF Arm, Written, Erased, OldOf, Then, Set
  <2>2. Tidy(e, t) /\ Stored(K) \subseteq AllWrites(e, t)
    BY <1>0, <1>4, <2>1, EventKeysOf, SetTidy
  <2>3. B \in SUBSET AnyKeys /\ B # {} /\ B \cap Expiring = {} /\ "set" \in OpNames
    BY KeysType, KeyKinds DEF AnyKeys, Expiring, OpNames
  <2>4. c.op = "set" /\ c.keys = B
    BY <2>3, DoType
  <2> HIDE DEF c
  <2>5. Fits(e, c)
    BY <2>1, <2>4 DEF Fits
  <2>6. Puts(c) = {}
    BY <2>3, <2>4 DEF Puts
  <2>7. \A i \in 1 .. Len(t) : t[i].op = "set"
    <3>1. Do("set", K).op = "set"
      BY <1>0, DoType DEF OpNames
    <3>2. t = <<>> \/ t = <<Do("set", K)>>
      BY DEF Set, Some
    <3> HIDE DEF t
    <3>3. QED
      BY <3>1, <3>2
  <2> HIDE DEF t
  <2>8. First(e, c, t)
    BY <2>4, <2>6, <2>7 DEF First, Before, Removes
  <2>9. Joined(e, c, t, u) /\ u \in Seq(Op) /\ Orderly(e, u)
    <3> HIDE DEF B
    <3>1. QED
      BY <2>2, <2>3, <2>5, <2>8, SomeEffect DEF Tidy, c
  <2>10. Writes(e, c) = Stored(B) /\ Stored(Written(e)) = Stored(K) \cup Stored(B)
    BY <2>1, <2>4 DEF Writes, Stored
  <2> HIDE DEF u, B
  <2>11. QED
    BY <1>0, <1>1, <2>1, <2>2, <2>9, <2>10 DEF ScriptOK, Joined
<1>5. QED
  BY <1>2, <1>3, <1>4

\* The script of every event is in order and does what the event means.
LEMMA ScriptOrderly ==
    ASSUME NEW e \in Event, WellFormed(e), e.kind # "none"
    PROVE  ScriptOK(e, Script(e))
<1>1. CASE Handled(e)
  <2>1. Script(e) = Arm(e)
    BY <1>1 DEF Script
  <2>2. QED
    BY <1>1, <2>1, ObjectScript, GuildScript, OtherScript DEF ClearKinds
<1>2. CASE ~Handled(e)
  <2>1. Script(e) = <<>> /\ Written(e) = {} /\ Erased(e) = {} /\ Updated(e) = {} /\ OldOf(e) = {}
    BY <1>2 DEF Script, Written, Erased, Updated, OldOf
  <2>2. QED
    BY <2>1, NoneProper DEF ScriptOK, Stored
<1>3. QED
  BY <1>1, <1>2
-----------------------------------------------------------------------------
(* Types. *)

\* What a worker holds hangs together: its event is well formed, its operations are ones
\* the event calls for, and it is in the middle of a set_all only of keys of its event.
RecOK(r) ==
    /\ EventOK(r.ev)
    /\ r.ev.kind # "none" => r.n > 0
    /\ r.rest \in Seq(Plan(r.ev))
    /\ \/ r.cur \in Plan(r.ev)
       \/ r.cur.op = "srem"
       \/ r.cur.op = "sadd" /\ r.cur.keys \subseteq EventKeys /\ r.ev.kind # "none"

TypeInv == TypeOK /\ \A w \in Workers : RecOK(work[w])
-----------------------------------------------------------------------------
\* Going on with planned operations leaves a worker that hangs together.
LEMMA GoOnOK ==
    ASSUME TypeInv, NEW w \in Workers, NEW ops \in Seq(Plan(work[w].ev))
    PROVE  /\ GoOn(w, ops) \in Work
           /\ RecOK(GoOn(w, ops))
           /\ GoOn(w, ops).ev = work[w].ev
           /\ GoOn(w, ops).n = work[w].n
           /\ GoOn(w, ops).old = work[w].old
           /\ GoOn(w, ops).prior = work[w].prior
           /\ GoOn(w, ops).cur \in Plan(work[w].ev)
<1> DEFINE r == work[w]
           c == IF ops = <<>> THEN Nop ELSE Head(ops)
           t == IF ops = <<>> THEN <<>> ELSE Tail(ops)
<1>1. r \in Work /\ RecOK(r)
  BY DEF TypeInv, TypeOK
<1>2. c \in Plan(r.ev) /\ t \in Seq(Plan(r.ev))
  <2>1. CASE ops = <<>>
    BY <2>1, NopPlanned
  <2>2. CASE ops # <<>>
    BY <2>2, HeadTailProperties
  <2>3. QED
    BY <2>1, <2>2
<1>3. c \in Op /\ t \in Seq(Op)
  <2>1. Plan(r.ev) \subseteq Op
    BY DEF Plan
  <2>2. QED
    BY <1>2, <2>1
<1>4. GoOn(w, ops) = [r EXCEPT !.cur = c, !.rest = t]
  BY DEF GoOn
<1> HIDE DEF c, t, r
<1>5. QED
  BY <1>1, <1>2, <1>3, <1>4 DEF RecOK, Work, r

\* So does going on with the helper sets of a set_all or del_all.
LEMMA RemainingOK ==
    ASSUME TypeInv, NEW w \in Workers, NEW op \in {"sadd", "srem"},
           NEW left \in SUBSET Indexes,
           op = "sadd" => work[w].cur.keys \subseteq EventKeys /\ work[w].ev.kind # "none"
    PROVE  /\ Remaining(w, op, left) \in Work
           /\ RecOK(Remaining(w, op, left))
           /\ Remaining(w, op, left).ev = work[w].ev
           /\ Remaining(w, op, left).n = work[w].n
           /\ left = {} => Remaining(w, op, left).cur \in Plan(work[w].ev)
           /\ left # {} => Remaining(w, op, left).cur =
                              [op |-> op, keys |-> work[w].cur.keys, left |-> left]
<1> DEFINE r == work[w]
           c == [op |-> op, keys |-> r.cur.keys, left |-> left]
<1>1. r \in Work /\ RecOK(r)
  BY DEF TypeInv, TypeOK
<1>2. CASE left = {}
  <2>1. r.rest \in Seq(Plan(r.ev))
    BY <1>1 DEF RecOK
  <2>2. QED
    BY <1>2, <2>1, GoOnOK DEF Remaining
<1>3. CASE left # {}
  <2>1. Remaining(w, op, left) = [r EXCEPT !.cur = c]
    BY <1>3 DEF Remaining
  <2>2. c \in Op
    BY <1>1 DEF Work, Op, OpNames
  <2>3. QED
    BY <1>1, <1>3, <2>1, <2>2 DEF Work, RecOK
<1>4. QED
  BY <1>2, <1>3

\* Replacing what one worker holds by something that hangs together keeps TypeInv.
LEMMA WorkStep ==
    ASSUME TypeInv, NEW w \in Workers, NEW r \in Work, RecOK(r),
           work' = [work EXCEPT ![w] = r]
    PROVE  /\ work' \in [Workers -> Work]
           /\ \A v \in Workers : RecOK(work'[v])
BY DEF TypeInv, TypeOK

\* An idle worker hangs together.
LEMMA IdleOK == Idle \in Work /\ RecOK(Idle)
<1>1. Nop \in Op
  BY NopPlanned DEF Plan
<1>2. QED
  BY <1>1, NoEventOK, NopPlanned DEF Idle, Work, RecOK, EventOK

\* An operation that is not under way was planned.
LEMMA CurPlanned ==
    ASSUME TypeInv, NEW w \in Workers, work[w].cur.op \notin {"sadd", "srem"}
    PROVE  /\ work[w].cur \in Plan(work[w].ev)
           /\ work[w].rest \in Seq(Plan(work[w].ev))
           /\ work[w].cur.keys \in SUBSET AnyKeys
           /\ EventOK(work[w].ev)
<1>1. RecOK(work[w])
  BY DEF TypeInv
<1>2. QED
  BY <1>1 DEF RecOK, Plan, Op

\* A worker's keys are known keys, and so are the keys it stores.
LEMMA CurKeys ==
    ASSUME TypeInv, NEW w \in Workers
    PROVE  /\ work[w] \in Work
           /\ work[w].cur.keys \in SUBSET AnyKeys
           /\ work[w].cur.left \in SUBSET Indexes
           /\ Stored(work[w].cur.keys) \in SUBSET StoredKeys
           /\ Footprint(work[w].ev) \in SUBSET StoredKeys
<1>1. work[w] \in Work /\ RecOK(work[w])
  BY DEF TypeInv, TypeOK
<1>2. QED
  BY <1>1, StoredType, FootprintType DEF RecOK, Work, Op

\* A read for an old value keeps TypeInv.
LEMMA ReadOldType ==
    ASSUME TypeInv, NEW w \in Workers, NEW r \in SUBSET (StoredKeys \X Nat),
           NEW ops \in Seq(Plan(work[w].ev)), ReadOld(w, r, ops)
    PROVE  TypeInv'
<1> DEFINE g == GoOn(w, ops)
           x == [g EXCEPT !.old = r]
<1>1. g \in Work /\ RecOK(g)
  BY GoOnOK
<1>2. x \in Work /\ RecOK(x)
  <2> HIDE DEF g
  <2>1. QED
    BY <1>1 DEF Work, RecOK
<1>3. work' = [work EXCEPT ![w] = x]
  BY DEF ReadOld
<1> HIDE DEF x
<1>4. work' \in [Workers -> Work] /\ \A v \in Workers : RecOK(work'[v])
  BY <1>2, <1>3, WorkStep
<1>5. UNCHANGED <<store, idx, expiry, received, guild_events, ref, raced, drift, untracked>>
  BY DEF ReadOld, redis, aux
<1>6. QED
  BY <1>4, <1>5 DEF TypeInv, TypeOK

\* The reads of `update`.
Reads(w) ==
    \/ Get(w) \/ GetAll(w) \/ Modify(w) \/ GetMembers(w) \/ ClearGet(w)
    \/ GetEmojiKeys(w) \/ GetEmojis(w)

\* They leave Redis alone and go on with planned operations.
LEMMA ReadsPlanned ==
    ASSUME TypeInv, NEW w \in Workers, Reads(w)
    PROVE  \E r \in SUBSET (StoredKeys \X Nat), ops \in Seq(Plan(work[w].ev)) :
              ReadOld(w, r, ops)
<1> DEFINE K == work[w].cur.keys
<1>0. /\ work[w] \in Work
      /\ K \in SUBSET AnyKeys
      /\ RecOK(work[w])
      /\ TypeOK
  BY CurKeys DEF TypeInv
<1> DEFINE P == Seq(Plan(work[w].ev))
           V == SUBSET (StoredKeys \X Nat)
<1>1. store \in [StoredKeys -> Nat]
  BY <1>0 DEF TypeOK
<1>2. Found(store, K) \in V /\ {} \in V
  BY <1>0, <1>1, HoldsType
<1>3. work[w].rest \in P
  BY <1>0 DEF RecOK
<1>4. Del(K) \in P /\ Del(K) \o work[w].rest \in P
  BY <1>0, <1>3, SetDelPlanned, ConcatPlanned
<1>5. <<>> \in P
  OBVIOUS
<1>6. SUFFICES \E r \in V, ops \in P : ReadOld(w, r, ops)
  OBVIOUS
<1>7. work[w].ev.keys \in SUBSET EventKeys
  BY <1>0 DEF RecOK, EventOK, Event
<1> HIDE DEF P, V
<1>8. CASE Get(w)
  BY <1>8, <1>2, <1>3 DEF Get
<1>9. CASE GetAll(w)
  BY <1>9, <1>2, <1>3 DEF GetAll
<1>10. CASE Modify(w)
  BY <1>10, <1>2, <1>3, <1>5 DEF Modify
<1>11. CASE GetMembers(w)
  <2> DEFINE M == idx[<<"guild", work[w].ev.guild>>]
  <2>1. work[w].ev.guild \in Guilds
    BY <1>11, CurPlanned DEF GetMembers, At, Plan
  <2>2. M \in SUBSET AnyKeys
    BY <1>0, <2>1 DEF TypeOK, Indexes, AnyKeys
  <2>3. Del(M) \o work[w].rest \in P
    BY <2>2, <1>3, SetDelPlanned, ConcatPlanned DEF P
  <2>4. QED
    BY <1>11, <2>3, <1>2 DEF GetMembers
<1>12. CASE ClearGet(w)
  BY <1>12, <1>2, <1>4 DEF ClearGet
<1>13. CASE GetEmojiKeys(w)
  <2> DEFINE M == Of("emoji", idx[<<"guild", work[w].ev.guild>>])
  <2>1. work[w].ev.guild \in Guilds /\ work[w].ev.kind # "none"
    BY <1>13, CurPlanned DEF GetEmojiKeys, At, Plan
  <2>2. M \in SUBSET AnyKeys
    BY <1>0, <2>1 DEF TypeOK, Indexes, AnyKeys, Of
  <2>3. Set(work[w].ev.keys) \in P
    BY <2>1, <1>7, SetDelPlanned DEF P
  <2>4. Do("emojis", M) \in Plan(work[w].ev)
    BY <2>1, <2>2, SomePlanned DEF OpNames
  <2>5. <<Do("emojis", M)>> \in P
    BY <2>4 DEF P
  <2>6. QED
    BY <1>13, <2>3, <2>5, <1>2 DEF GetEmojiKeys
<1>14. CASE GetEmojis(w)
  <2> DEFINE F == {k \in K : store[k] # Nil}
  <2>1. work[w].ev.kind # "none"
    BY <1>14, CurPlanned DEF GetEmojis, At, Plan
  <2>2. F \in SUBSET AnyKeys /\ F \ work[w].ev.keys \in SUBSET AnyKeys
    BY <1>0
  <2>3. Del(F \ work[w].ev.keys) \o Set(work[w].ev.keys) \in P
    BY <2>1, <2>2, <1>7, SetDelPlanned, ConcatPlanned DEF P
  <2>4. Found(store, F) \in V
    BY <1>1, <2>2, HoldsType DEF V
  <2>5. QED
    BY <1>14, <2>3, <2>4, <1>2 DEF GetEmojis
<1>15. QED
  BY <1>8, <1>9, <1>10, <1>11, <1>12, <1>13, <1>14 DEF Reads

\* Every command keeps TypeInv.
LEMMA CommandType ==
    ASSUME TypeInv, NEW w \in Workers, Command(w)
    PROVE  TypeInv'
<1> DEFINE K == work[w].cur.keys
<1>0. /\ work[w] \in Work
      /\ K \in SUBSET AnyKeys
      /\ work[w].cur.left \in SUBSET Indexes
      /\ Stored(K) \in SUBSET StoredKeys
      /\ RecOK(work[w])
      /\ TypeOK
      /\ work[w].n \in Nat
  BY CurKeys DEF TypeInv, Work
<1>1. CASE Mset(w)
  <2>1. K \subseteq EventKeys /\ work[w].ev.kind # "none"
    BY <1>1, CurPlanned DEF Mset, At, Plan
  <2>2. Remaining(w, "sadd", MemberIndexes(K)) \in Work
        /\ RecOK(Remaining(w, "sadd", MemberIndexes(K)))
    BY <2>1, <1>0, MemberIndexesType, RemainingOK
  <2>3. work' \in [Workers -> Work] /\ \A v \in Workers : RecOK(work'[v])
    BY <1>1, <2>2, WorkStep DEF Mset
  <2>4. store' \in [StoredKeys -> Nat]
    BY <1>0, <1>1 DEF Mset, TypeOK
  <2>5. drift' \in SUBSET StoredKeys /\ raced' \in SUBSET StoredKeys
        /\ untracked' \in SUBSET StoredKeys
    BY <1>0, <1>1 DEF Mset, TypeOK, StillAdrift
  <2>6. QED
    BY <1>0, <1>1, <2>3, <2>4, <2>5 DEF Mset, TypeInv, TypeOK
<1>2. CASE Sadd(w)
  <2>1. PICK i \in work[w].cur.left :
            /\ idx' = [idx EXCEPT ![i] = @ \cup MembersFor(K, i)]
            /\ work' = [work EXCEPT ![w] = Remaining(w, "sadd", work[w].cur.left \ {i})]
    BY <1>2 DEF Sadd
  <2>2. K \subseteq EventKeys /\ work[w].ev.kind # "none"
    BY <1>0, <1>2 DEF Sadd, At, RecOK, Plan
  <2>3. Remaining(w, "sadd", work[w].cur.left \ {i}) \in Work
        /\ RecOK(Remaining(w, "sadd", work[w].cur.left \ {i}))
    BY <2>2, <1>0, RemainingOK
  <2>4. work' \in [Workers -> Work] /\ \A v \in Workers : RecOK(work'[v])
    BY <2>1, <2>3, WorkStep
  <2>5. idx' \in [Indexes -> SUBSET StoredKeys]
    BY <1>0, <2>1, MembersForType DEF TypeOK
  <2>6. QED
    BY <1>0, <1>2, <2>4, <2>5 DEF Sadd, aux, TypeInv, TypeOK
<1>3. CASE Delete(w)
  <2>1. Remaining(w, "srem", MemberIndexes(K)) \in Work
        /\ RecOK(Remaining(w, "srem", MemberIndexes(K)))
    BY <1>0, MemberIndexesType, RemainingOK
  <2>2. work' \in [Workers -> Work] /\ \A v \in Workers : RecOK(work'[v])
    BY <1>3, <2>1, WorkStep DEF Delete
  <2>3. store' \in [StoredKeys -> Nat]
    BY <1>0, <1>3 DEF Delete, TypeOK, Nil
  <2>4. drift' \in SUBSET StoredKeys /\ raced' \in SUBSET StoredKeys
    BY <1>0, <1>3 DEF Delete, TypeOK, StillAdrift
  <2>5. QED
    BY <1>0, <1>3, <2>2, <2>3, <2>4 DEF Delete, TypeInv, TypeOK
<1>4. CASE Srem(w)
  <2>1. PICK i \in work[w].cur.left :
            /\ idx' = [idx EXCEPT ![i] = @ \ MembersFor(K, i)]
            /\ work' = [work EXCEPT ![w] = Remaining(w, "srem", work[w].cur.left \ {i})]
    BY <1>4 DEF Srem
  <2>2. Remaining(w, "srem", work[w].cur.left \ {i}) \in Work
        /\ RecOK(Remaining(w, "srem", work[w].cur.left \ {i}))
    BY <1>0, RemainingOK
  <2>3. work' \in [Workers -> Work] /\ \A v \in Workers : RecOK(work'[v])
    BY <2>1, <2>2, WorkStep
  <2>4. idx' \in [Indexes -> SUBSET StoredKeys]
    BY <1>0, <2>1 DEF TypeOK
  <2>5. QED
    BY <1>0, <1>4, <2>3, <2>4 DEF Srem, aux, TypeInv, TypeOK
<1>5. CASE Hset(w) \/ Hdel(w)
  <2>1. work' = [work EXCEPT ![w] = GoOn(w, work[w].rest)]
    BY <1>5 DEF Hset, Hdel
  <2>2. GoOn(w, work[w].rest) \in Work /\ RecOK(GoOn(w, work[w].rest))
    BY <1>0, GoOnOK DEF RecOK
  <2>3. work' \in [Workers -> Work] /\ \A v \in Workers : RecOK(work'[v])
    BY <2>1, <2>2, WorkStep
  <2>4. expiry' \in [ExpiryKeys -> ExpiryStates]
    BY <1>0, <1>5 DEF Hset, Hdel, TypeOK, ExpiryStates
  <2>5. /\ UNCHANGED <<store, idx, received, guild_events, ref, raced, drift>>
        /\ untracked' \in SUBSET StoredKeys
    BY <1>0, <1>5 DEF Hset, Hdel, aux, TypeOK
  <2>6. QED
    BY <1>0, <2>3, <2>4, <2>5 DEF TypeInv, TypeOK
<1>6. CASE Reads(w)
  BY <1>6, ReadsPlanned, ReadOldType
<1>7. QED
  BY <1>1, <1>2, <1>3, <1>4, <1>5, <1>6 DEF Command, Reads

\* The failure of a command keeps TypeInv.
LEMMA FailType ==
    ASSUME TypeInv, NEW w \in Workers, Fail(w)
    PROVE  TypeInv'
<1> DEFINE g == GoOn(w, work[w].rest)
           h == GoOn(w, <<>>)
           x == IF At(w, "members") \/ At(w, "clear") THEN g ELSE [h EXCEPT !.old = {}]
<1>1. TypeOK /\ RecOK(work[w])
  BY DEF TypeInv
<1>2. <<>> \in Seq(Plan(work[w].ev)) /\ work[w].rest \in Seq(Plan(work[w].ev))
  BY <1>1 DEF RecOK
<1>3. g \in Work /\ RecOK(g) /\ h \in Work /\ RecOK(h)
  BY <1>2, GoOnOK
<1> HIDE DEF g, h
<1>4. x \in Work /\ RecOK(x)
  BY <1>3 DEF Work, RecOK
<1>5. work' = [work EXCEPT ![w] = x]
  BY DEF Fail, g, h
<1>6. work' \in [Workers -> Work] /\ \A v \in Workers : RecOK(work'[v])
  <2> HIDE DEF x
  <2>1. QED
    BY <1>4, <1>5, WorkStep
<1>7. /\ drift' \in SUBSET StoredKeys
      /\ untracked' \in SUBSET StoredKeys
      /\ raced' \in SUBSET StoredKeys
  BY <1>1, CurKeys DEF Fail, CutShort, LostExpiry, Unfinished, TypeOK
<1>8. QED
  BY <1>1, <1>6, <1>7 DEF Fail, redis, TypeInv, TypeOK

\* A restart keeps TypeInv.
LEMMA RestartType ==
    ASSUME TypeInv, Restart
    PROVE  TypeInv'
<1>1. TypeOK
  BY DEF TypeInv
<1>2. work' \in [Workers -> Work] /\ \A v \in Workers : RecOK(work'[v])
  BY IdleOK DEF Restart
<1>3. \A w \in Workers : /\ CutShort(w) \in SUBSET StoredKeys
                          /\ LostExpiry(w) \in SUBSET StoredKeys
                          /\ Unfinished(w) \in SUBSET StoredKeys
  BY CurKeys DEF CutShort, LostExpiry, Unfinished
<1>4. /\ drift' \in SUBSET StoredKeys
      /\ untracked' \in SUBSET StoredKeys
      /\ raced' \in SUBSET StoredKeys
  BY <1>1, <1>3 DEF Restart, TypeOK
<1>5. QED
  BY <1>1, <1>2, <1>4 DEF Restart, redis, TypeInv, TypeOK

\* Taking an event off the stream keeps TypeInv.
LEMMA ReceiveType ==
    ASSUME TypeInv, NEW e \in Events, Receive(e)
    PROVE  TypeInv'
<1>1. TypeOK /\ received \in Nat /\ received + 1 \in Nat /\ received + 1 > 0
  BY DEF TypeInv, TypeOK
<1>2. EventOK(e) /\ e.kind # "none" /\ e \in Event
  BY WellFormedOK, StateCacheAssumption DEF Events, AllKinds
<1> DEFINE ops == Script(e)
           c == IF ops = <<>> THEN Nop ELSE Head(ops)
           t == IF ops = <<>> THEN <<>> ELSE Tail(ops)
           p == Holds(ref, OldOf(e))
           x == [ev |-> e, n |-> received + 1, cur |-> c, rest |-> t, old |-> {}, prior |-> p]
<1>3. c \in Plan(e) /\ t \in Seq(Plan(e))
  <2>1. ops \in Seq(Plan(e))
    BY <1>2, ScriptPlanned
  <2> HIDE DEF ops
  <2>2. CASE ops = <<>>
    BY <2>2, NopPlanned
  <2>3. CASE ops # <<>>
    BY <2>1, <2>3, HeadTailProperties
  <2>4. QED
    BY <2>2, <2>3
<1>4. Plan(e) \subseteq Op
  BY DEF Plan
<1>5. p \in SUBSET (StoredKeys \X Nat)
  BY <1>1, <1>2, OldOfType, HoldsType DEF TypeOK, AnyKeys
<1>6. PICK w \in Workers : work' = [work EXCEPT ![w] = x]
  BY DEF Receive, Runners, Workers
<1> HIDE DEF c, t, p
<1>7. x \in Work /\ RecOK(x)
  BY <1>1, <1>2, <1>3, <1>4, <1>5 DEF Work, RecOK
<1> HIDE DEF x
<1>8. work' \in [Workers -> Work] /\ \A v \in Workers : RecOK(work'[v])
  BY <1>6, <1>7, WorkStep
<1>9. ref' \in [StoredKeys -> Nat]
  BY <1>1, AppliedType DEF Receive, TypeOK
<1>10. raced' \in SUBSET StoredKeys
  BY <1>1, <1>2, FootprintType DEF Receive, TypeOK
<1>11. QED
  BY <1>1, <1>8, <1>9, <1>10 DEF Receive, redis, TypeInv, TypeOK

\* The end of an update keeps TypeInv.
LEMMA FinishType ==
    ASSUME TypeInv, NEW w \in Workers, Finish(w)
    PROVE  TypeInv'
<1>1. TypeOK /\ work[w].n \in Nat
  BY CurKeys DEF TypeInv, Work
<1>2. work' \in [Workers -> Work] /\ \A v \in Workers : RecOK(work'[v])
  BY IdleOK, WorkStep DEF Finish
<1>3. guild_events' \in SUBSET ({"Join", "Leave"} \X Nat)
  BY <1>1 DEF Finish, TypeOK
<1>4. QED
  BY <1>1, <1>2, <1>3 DEF Finish, redis, aux, TypeInv, TypeOK

\* The keys that expire are keys of the handlers.
LEMMA ExpiryKeysType == ExpiryKeys \subseteq EventKeys /\ ExpiryKeys \subseteq AnyKeys
BY DEF ExpiryKeys, EventKeys, AnyKeys

\* The scan of the purge keeps TypeInv.
LEMMA ScanType ==
    ASSUME TypeInv, Scan
    PROVE  TypeInv'
<1> DEFINE K == {k \in ExpiryKeys : expiry[k] = "expired"}
           x == [Idle EXCEPT !.cur = Do("del", K), !.rest = <<Do("hdel", K)>>]
<1>1. K \in SUBSET AnyKeys
  BY ExpiryKeysType
<1>2. work' = [work EXCEPT ![Purge] = x] /\ Purge \in Workers
  BY DEF Scan, Workers
<1> HIDE DEF K
<1>3. Do("del", K) \in Plan(NoEvent) /\ Do("hdel", K) \in Plan(NoEvent)
  BY <1>1, SomePlanned, NoEventOK DEF OpNames
<1>4. Plan(NoEvent) \subseteq Op
  BY DEF Plan
<1>5. x \in Work /\ RecOK(x)
  <2>1. x.ev = NoEvent /\ x.n = 0 /\ x.cur = Do("del", K) /\ x.rest = <<Do("hdel", K)>>
        /\ x.old = {} /\ x.prior = {}
    BY DEF Idle
  <2>2. x \in Work
    <3>1. ASSUME NEW r \in Work, NEW c \in Op, NEW t \in Seq(Op)
          PROVE  [r EXCEPT !.cur = c, !.rest = t] \in Work
      BY DEF Work
    <3>2. Do("del", K) \in Op /\ <<Do("hdel", K)>> \in Seq(Op)
      BY <1>3, <1>4
    <3>3. QED
      BY <3>1, <3>2, IdleOK
  <2>3. QED
    BY <1>3, <2>1, <2>2, NoEventOK DEF RecOK
<1> HIDE DEF x
<1>6. work' \in [Workers -> Work] /\ \A v \in Workers : RecOK(work'[v])
  BY <1>2, <1>5, WorkStep
<1>7. QED
  BY <1>6 DEF Scan, redis, aux, TypeInv, TypeOK

\* The initial state satisfies TypeInv.
LEMMA InitType == Init => TypeInv
BY IdleOK DEF Init, TypeInv, TypeOK, Nil, ExpiryStates

\* Every step keeps TypeInv.
LEMMA NextType == TypeInv /\ [Next]_vars => TypeInv'
<1> SUFFICES ASSUME TypeInv, [Next]_vars PROVE TypeInv'
  OBVIOUS
<1>1. ASSUME NEW e \in Events, Receive(e) PROVE TypeInv'
  BY <1>1, ReceiveType
<1>2. ASSUME NEW w \in Workers, Command(w) \/ Fail(w) \/ Finish(w) PROVE TypeInv'
  BY <1>2, CommandType, FailType, FinishType
<1>3. CASE Scan
  BY <1>3, ScanType
<1>4. ASSUME NEW k \in ExpiryKeys, Elapse(k) PROVE TypeInv'
  BY <1>4 DEF Elapse, aux, TypeInv, TypeOK, ExpiryStates
<1>5. CASE Restart
  BY <1>5, RestartType
<1>6. CASE UNCHANGED vars
  BY <1>6 DEF vars, TypeInv, TypeOK
<1>7. QED
  BY <1>1, <1>2, <1>3, <1>4, <1>5, <1>6 DEF Next

\* Type correctness of the cache and its workers, for every key space, number of tasks,
\* bound on the events and setting: no handler ever plans an operation on an unknown key
\* or reads the keys of no guild.
THEOREM TypeCorrect == Spec => []TypeOK
<1>1. TypeInv => TypeOK
  BY DEF TypeInv
<1>2. QED
  BY <1>1, InitType, NextType, PTL DEF Spec
-----------------------------------------------------------------------------
(* Ready runs in the loop. *)

\* Nothing is newer than the last event received; the update of Ready runs in the loop,
\* and its event is the last one received until it is over.
ReadyInv ==
    /\ TypeInv
    /\ \A s \in StoredKeys : store[s] <= received
    /\ \A w \in Workers : work[w].n <= received
    /\ \A w \in Workers : work[w].ev.kind = "Ready" => w = Loop /\ work[w].n = received

\* A step of a worker that keeps its event, and writes nothing newer, keeps ReadyInv.
LEMMA ReadyStep ==
    ASSUME ReadyInv, TypeInv', received' = received,
           \A s \in StoredKeys : store'[s] = store[s] \/ store'[s] <= received,
           \A w \in Workers : \/ work'[w].ev = work[w].ev /\ work'[w].n = work[w].n
                              \/ work'[w].ev = NoEvent /\ work'[w].n = 0
    PROVE  ReadyInv'
BY NoEventOK DEF ReadyInv, TypeInv, TypeOK

\* Every command of a worker keeps its event and its number.
LEMMA CommandKeepsEvent ==
    ASSUME TypeInv, NEW w \in Workers, Command(w) \/ Fail(w)
    PROVE  /\ \A v \in Workers : work'[v].ev = work[v].ev /\ work'[v].n = work[v].n
           /\ received' = received
           /\ \A s \in StoredKeys : store'[s] = store[s] \/ store'[s] = work[w].n
                                                        \/ store'[s] = Nil
<1> DEFINE P == Seq(Plan(work[w].ev))
           K == work[w].cur.keys
           Same(x) == x.ev = work[w].ev /\ x.n = work[w].n
<1>0. /\ work \in [Workers -> Work]
      /\ RecOK(work[w])
      /\ work[w].rest \in P
      /\ <<>> \in P
      /\ K \in SUBSET AnyKeys
      /\ work[w].cur.left \in SUBSET Indexes
  BY CurKeys DEF TypeInv, TypeOK, RecOK
<1>1. \A ops \in P : GoOn(w, ops) \in Work /\ Same(GoOn(w, ops))
  BY GoOnOK
<1>2. SUFFICES /\ \E x : Same(x) /\ work' = [work EXCEPT ![w] = x]
               /\ received' = received
               /\ \A s \in StoredKeys : store'[s] = store[s] \/ store'[s] = work[w].n
                                                            \/ store'[s] = Nil
  BY <1>0
<1>3. CASE Mset(w)
  <2>1. K \subseteq EventKeys /\ work[w].ev.kind # "none"
    BY <1>3, CurPlanned DEF Mset, At, Plan
  <2>2. Same(Remaining(w, "sadd", MemberIndexes(K)))
    BY <1>0, <2>1, MemberIndexesType, RemainingOK
  <2>3. QED
    BY <1>3, <2>2 DEF Mset
<1>4. CASE Delete(w)
  <2>1. Same(Remaining(w, "srem", MemberIndexes(K)))
    BY <1>0, MemberIndexesType, RemainingOK
  <2>2. QED
    BY <1>4, <2>1 DEF Delete
<1>5. CASE Sadd(w)
  <2>1. PICK i \in work[w].cur.left :
            work' = [work EXCEPT ![w] = Remaining(w, "sadd", work[w].cur.left \ {i})]
    BY <1>5 DEF Sadd
  <2>2. K \subseteq EventKeys /\ work[w].ev.kind # "none"
    BY <1>0, <1>5 DEF Sadd, At, RecOK, Plan
  <2>3. Same(Remaining(w, "sadd", work[w].cur.left \ {i}))
    BY <1>0, <2>2, RemainingOK
  <2>4. QED
    BY <1>5, <2>1, <2>3 DEF Sadd
<1>6. CASE Srem(w)
  <2>1. PICK i \in work[w].cur.left :
            work' = [work EXCEPT ![w] = Remaining(w, "srem", work[w].cur.left \ {i})]
    BY <1>6 DEF Srem
  <2>2. Same(Remaining(w, "srem", work[w].cur.left \ {i}))
    BY <1>0, RemainingOK
  <2>3. QED
    BY <1>6, <2>1, <2>2 DEF Srem
<1>7. CASE Hset(w) \/ Hdel(w)
  BY <1>0, <1>1, <1>7 DEF Hset, Hdel
<1>8. CASE Reads(w)
  <2>1. PICK r \in SUBSET (StoredKeys \X Nat), ops \in P : ReadOld(w, r, ops)
    BY <1>8, ReadsPlanned
  <2> DEFINE g == GoOn(w, ops)
             x == [g EXCEPT !.old = r]
  <2>2. g \in Work /\ Same(g)
    BY <1>1
  <2>3. Same(x)
    <3> HIDE DEF g
    <3>1. QED
      BY <2>2 DEF Work
  <2>4. work' = [work EXCEPT ![w] = x]
    BY <2>1 DEF ReadOld
  <2> HIDE DEF x
  <2>5. QED
    BY <2>1, <2>3, <2>4 DEF ReadOld, redis
<1>9. CASE Fail(w)
  <2> DEFINE g == GoOn(w, work[w].rest)
             h == GoOn(w, <<>>)
             x == IF At(w, "members") \/ At(w, "clear") THEN g ELSE [h EXCEPT !.old = {}]
  <2>1. g \in Work /\ Same(g) /\ h \in Work /\ Same(h)
    BY <1>0, <1>1
  <2>2. Same(x)
    <3> HIDE DEF g, h
    <3>1. QED
      BY <2>1 DEF Work
  <2>3. work' = [work EXCEPT ![w] = x]
    BY <1>9 DEF Fail
  <2> HIDE DEF x
  <2>4. QED
    BY <1>9, <2>2, <2>3 DEF Fail, redis
<1>10. QED
  BY <1>3, <1>4, <1>5, <1>6, <1>7, <1>8, <1>9 DEF Command, Reads

\* ReadyInv holds initially.
LEMMA InitReady == Init => ReadyInv
<1> SUFFICES ASSUME Init PROVE ReadyInv
  OBVIOUS
<1>1. TypeInv
  BY InitType
<1>2. received = 0 /\ \A s \in StoredKeys : store[s] = 0
  BY DEF Init, Nil
<1>3. \A w \in Workers : work[w].n = 0 /\ work[w].ev.kind = "none"
  BY NoEventOK DEF Init, Idle
<1>4. QED
  BY <1>1, <1>2, <1>3 DEF ReadyInv

\* Taking an event off the stream keeps ReadyInv: the loop is then idle.
LEMMA ReceiveReady ==
    ASSUME ReadyInv, TypeInv', NEW e \in Events, Receive(e)
    PROVE  ReadyInv'
<1>1. received \in Nat /\ received' = received + 1 /\ store' = store
  BY DEF ReadyInv, TypeInv, TypeOK, Receive, redis
<1>2. work \in [Workers -> Work] /\ store \in [StoredKeys -> Nat]
  BY DEF ReadyInv, TypeInv, TypeOK
<1>3. \A w \in Workers : work[w].ev.kind # "Ready"
  BY NoEventOK DEF ReadyInv, Receive, Idle
<1>4. PICK w \in Workers :
        /\ e.kind = "Ready" => w = Loop
        /\ work'[w].ev = e
        /\ work'[w].n = received + 1
        /\ \A v \in Workers \ {w} : work'[v] = work[v]
  <2>1. PICK w \in (IF e.kind = "Ready" THEN {Loop} ELSE Tasks) :
          work' = [work EXCEPT ![w] =
                     [ev |-> e, n |-> received + 1,
                      cur |-> IF Script(e) = <<>> THEN Nop ELSE Head(Script(e)),
                      rest |-> IF Script(e) = <<>> THEN <<>> ELSE Tail(Script(e)),
                      old |-> {}, prior |-> Holds(ref, OldOf(e))]]
    BY DEF Receive, Runners
  <2>2. w \in Workers /\ (e.kind = "Ready" => w = Loop)
    BY DEF Workers
  <2>3. QED
    BY <1>2, <2>1, <2>2
<1>5. \A v \in Workers : work[v].n \in Nat
  BY <1>2 DEF Work
<1>6. \A s \in StoredKeys : store'[s] <= received'
  BY <1>1, <1>2 DEF ReadyInv
<1>7. \A v \in Workers : work'[v].n <= received'
  BY <1>1, <1>4, <1>5 DEF ReadyInv
<1>8. \A v \in Workers : work'[v].ev.kind = "Ready" => v = Loop /\ work'[v].n = received'
  BY <1>1, <1>3, <1>4
<1>9. QED
  BY <1>6, <1>7, <1>8 DEF ReadyInv

\* Every step keeps ReadyInv.
LEMMA NextReady == ReadyInv /\ [Next]_vars => ReadyInv'
<1> SUFFICES ASSUME ReadyInv, [Next]_vars PROVE ReadyInv'
  OBVIOUS
<1>1. TypeInv /\ TypeInv' /\ received \in Nat
  BY NextType DEF ReadyInv, TypeInv, TypeOK
<1>2. ASSUME NEW e \in Events, Receive(e) PROVE ReadyInv'
  BY <1>1, <1>2, ReceiveReady
<1>3. ASSUME NEW w \in Workers, Command(w) \/ Fail(w) PROVE ReadyInv'
  <2>1. \A s \in StoredKeys : store'[s] = store[s] \/ store'[s] <= received
    BY <1>1, <1>3, CommandKeepsEvent DEF ReadyInv, Nil
  <2>2. QED
    BY <1>1, <1>3, <2>1, CommandKeepsEvent, ReadyStep
<1>4. ASSUME NEW w \in Workers, Finish(w) PROVE ReadyInv'
  <2>1. work'[w] = Idle /\ \A v \in Workers \ {w} : work'[v] = work[v]
    BY <1>1, <1>4 DEF Finish, TypeInv, TypeOK
  <2>2. \A v \in Workers : \/ work'[v].ev = work[v].ev /\ work'[v].n = work[v].n
                           \/ work'[v].ev = NoEvent /\ work'[v].n = 0
    <3>1. Idle.ev = NoEvent /\ Idle.n = 0
      BY DEF Idle
    <3>2. QED
      BY <2>1, <3>1
  <2>3. received' = received /\ store' = store
    BY <1>4 DEF Finish, redis
  <2>4. QED
    BY <1>1, <2>2, <2>3, ReadyStep
<1>5. CASE Scan
  <2> DEFINE K == {k \in ExpiryKeys : expiry[k] = "expired"}
             x == [Idle EXCEPT !.cur = Do("del", K), !.rest = <<Do("hdel", K)>>]
  <2>1. x.ev = NoEvent /\ x.n = 0
    BY DEF Idle
  <2>2. work' = [work EXCEPT ![Purge] = x]
    BY <1>5 DEF Scan
  <2> HIDE DEF x
  <2>3. \A v \in Workers : \/ work'[v].ev = work[v].ev /\ work'[v].n = work[v].n
                           \/ work'[v].ev = NoEvent /\ work'[v].n = 0
    <3>1. work'[Purge] = x /\ \A v \in Workers \ {Purge} : work'[v] = work[v]
      BY <1>1, <2>2 DEF TypeInv, TypeOK, Workers
    <3>2. QED
      BY <2>1, <3>1
  <2>4. received' = received /\ store' = store
    BY <1>5 DEF Scan, redis
  <2>5. QED
    BY <1>1, <2>3, <2>4, ReadyStep
<1>6. ASSUME NEW k \in ExpiryKeys, Elapse(k) PROVE ReadyInv'
  <2>1. received' = received /\ store' = store /\ work' = work
    BY <1>6 DEF Elapse
  <2>2. QED
    BY <1>1, <2>1, ReadyStep
<1>7. CASE UNCHANGED vars
  <2>1. received' = received /\ store' = store /\ work' = work
    BY <1>7 DEF vars
  <2>2. QED
    BY <1>1, <2>1, ReadyStep
<1>8. CASE Restart
  <2>1. Idle.ev = NoEvent /\ Idle.n = 0
    BY DEF Idle
  <2>2. \A v \in Workers : work'[v] = Idle
    BY <1>8 DEF Restart
  <2>3. received' = received /\ store' = store
    BY <1>8 DEF Restart, redis
  <2>4. QED
    BY <1>1, <2>1, <2>2, <2>3, ReadyStep
<1>9. QED
  BY <1>2, <1>3, <1>4, <1>5, <1>6, <1>7, <1>8 DEF Next

\* Ready overwrites only what earlier events wrote, whatever the handlers of the other
\* events in flight do: the loop receives nothing while it applies Ready.
THEOREM ReadyIsSafe == Spec => ReadyNeverClobbers
<1> DEFINE A == \A s \in StoredKeys, w \in Workers :
                  work[w].ev.kind = "Ready" /\ store'[s] # store[s] /\ store'[s] = work[w].n
                    => store[s] < store'[s]
<1>1. ReadyInv /\ [Next]_vars => [A]_vars
  <2> SUFFICES ASSUME ReadyInv,
                      NEW s \in StoredKeys, NEW w \in Workers,
                      work[w].ev.kind = "Ready", store'[s] # store[s],
                      store'[s] = work[w].n
               PROVE  store[s] < store'[s]
    OBVIOUS
  <2>1. store[s] \in Nat /\ received \in Nat
    BY DEF ReadyInv, TypeInv, TypeOK
  <2>2. store[s] <= received /\ work[w].n = received
    BY DEF ReadyInv
  <2>3. QED
    BY <2>1, <2>2
<1>2. QED
  BY <1>1, InitReady, NextReady, PTL DEF Spec, ReadyNeverClobbers
-----------------------------------------------------------------------------
(* The helper sets and the store agree, except for keys adrift. *)

\* A del_all under way on a key that is not adrift has left the key absent: nobody has
\* written it since the DEL.
RemovedIsGone ==
    \A w \in Workers, s \in StoredKeys :
        At(w, "srem") /\ s \in Stored(work[w].cur.keys) /\ s \notin drift => store[s] = Nil

\* A set_all under way on a key that is not adrift has left the key present.
AddedIsThere ==
    \A w \in Workers, s \in StoredKeys :
        At(w, "sadd") /\ s \in Stored(work[w].cur.keys) /\ s \notin drift => store[s] # Nil

\* The inductive invariant.
IndexInv ==
    /\ TypeInv
    /\ RemovedIsGone
    /\ AddedIsThere
    /\ IndexCoversStore
    /\ IndexHasNoGhosts

UnderWay == {"sadd", "srem"}

\* A step that touches neither the store nor the helper sets, and begins and ends no
\* set_all or del_all without declaring its keys adrift.
Quiet ==
    /\ UNCHANGED <<store, idx>>
    /\ drift \subseteq drift'
    /\ \A v \in Workers :
          \/ work'[v].cur = work[v].cur
          \/ /\ work'[v].cur.op \notin UnderWay
             /\ \/ work[v].cur.op \notin UnderWay
                \/ Stored(work[v].cur.keys) \subseteq drift'
-----------------------------------------------------------------------------
\* A planned operation is not under way.
LEMMA PlannedNotUnderWay ==
    ASSUME NEW e, NEW c \in Plan(e)
    PROVE  c.op \notin UnderWay
BY DEF Plan, UnderWay

\* A quiet step keeps the invariant.
LEMMA QuietStep ==
    ASSUME IndexInv, TypeInv', Quiet
    PROVE  IndexInv'
<1>1. RemovedIsGone'
  BY DEF IndexInv, Quiet, RemovedIsGone, At, UnderWay
<1>2. AddedIsThere'
  BY DEF IndexInv, Quiet, AddedIsThere, At, UnderWay
<1>3. IndexCoversStore'
  <2> SUFFICES ASSUME NEW k \in EventKeys, NEW i \in IndexesOf(k),
                      store'[StoredKey(k)] # Nil, StoredKey(k) \notin drift',
                      StoredKey(k) \notin idx'[i]
               PROVE  \E w \in Workers : WillAdd(w, i, StoredKey(k))'
    BY DEF IndexCoversStore
  <2>1. PICK w \in Workers : WillAdd(w, i, StoredKey(k))
    BY DEF IndexInv, IndexCoversStore, Quiet
  <2>2. StoredKey(k) \in Stored(work[w].cur.keys)
    BY <2>1, CurKeys, MembersForType DEF WillAdd, IndexInv
  <2>3. work'[w].cur = work[w].cur
    BY <2>1, <2>2 DEF WillAdd, At, Quiet, UnderWay
  <2>4. QED
    BY <2>1, <2>3 DEF WillAdd, At
<1>4. IndexHasNoGhosts'
  <2> SUFFICES ASSUME NEW s \in StoredKeys, NEW i \in IndexesOf(s),
                      s \in idx'[i], s \notin drift', store'[s] = Nil
               PROVE  \E w \in Workers : WillRemove(w, i, s)'
    BY DEF IndexHasNoGhosts
  <2>1. PICK w \in Workers : WillRemove(w, i, s)
    BY DEF IndexInv, IndexHasNoGhosts, Quiet
  <2>2. s \in Stored(work[w].cur.keys)
    BY <2>1, CurKeys, MembersForType DEF WillRemove, IndexInv
  <2>3. work'[w].cur = work[w].cur
    BY <2>1, <2>2 DEF WillRemove, At, Quiet, UnderWay
  <2>4. QED
    BY <2>1, <2>3 DEF WillRemove, At
<1>5. QED
  BY <1>1, <1>2, <1>3, <1>4 DEF IndexInv

\* The reads, the updates of expiry_keys, failures and the end of an update are quiet.
LEMMA WorkerQuiet ==
    ASSUME TypeInv, NEW w \in Workers,
           Hset(w) \/ Hdel(w) \/ Reads(w) \/ Fail(w) \/ Finish(w)
    PROVE  Quiet
<1> DEFINE P == Seq(Plan(work[w].ev))
<1>0. work \in [Workers -> Work] /\ RecOK(work[w]) /\ work[w].rest \in P /\ <<>> \in P
  BY DEF TypeInv, TypeOK, RecOK
<1>1. \A ops \in P : GoOn(w, ops) \in Work /\ GoOn(w, ops).cur.op \notin UnderWay
  BY GoOnOK, PlannedNotUnderWay
<1>2. CASE Hset(w) \/ Hdel(w)
  <2>1. work' = [work EXCEPT ![w] = GoOn(w, work[w].rest)]
    BY <1>2 DEF Hset, Hdel
  <2>2. work[w].cur.op \notin UnderWay
    BY <1>2 DEF Hset, Hdel, At, UnderWay
  <2>3. QED
    BY <1>0, <1>1, <1>2, <2>1, <2>2 DEF Quiet, Hset, Hdel, aux
<1>3. CASE Reads(w)
  <2>1. PICK r \in SUBSET (StoredKeys \X Nat), ops \in P : ReadOld(w, r, ops)
    BY <1>3, ReadsPlanned
  <2> DEFINE g == GoOn(w, ops)
  <2>2. work' = [work EXCEPT ![w] = [g EXCEPT !.old = r]]
    BY <2>1 DEF ReadOld
  <2>3. g \in Work /\ g.cur.op \notin UnderWay
    BY <1>1
  <2>4. work[w].cur.op \notin UnderWay
    BY <1>3 DEF Reads, Get, GetAll, Modify, GetMembers, ClearGet, GetEmojiKeys, GetEmojis,
                At, UnderWay
  <2>5. UNCHANGED <<store, idx, drift>>
    BY <2>1 DEF ReadOld, redis, aux
  <2> HIDE DEF g
  <2>6. work'[w].cur = g.cur /\ \A v \in Workers \ {w} : work'[v] = work[v]
    BY <1>0, <2>2, <2>3 DEF Work
  <2>7. QED
    BY <2>3, <2>4, <2>5, <2>6 DEF Quiet
<1>4. CASE Fail(w)
  <2> DEFINE g == GoOn(w, work[w].rest)
             h == GoOn(w, <<>>)
             x == IF At(w, "members") \/ At(w, "clear") THEN g ELSE [h EXCEPT !.old = {}]
  <2>1. work' = [work EXCEPT ![w] = x]
    BY <1>4 DEF Fail
  <2>2. /\ g \in Work /\ g.cur.op \notin UnderWay
        /\ h \in Work /\ h.cur.op \notin UnderWay
    BY <1>0, <1>1
  <2> HIDE DEF g, h
  <2>3. x.cur.op \notin UnderWay
    BY <2>2 DEF Work
  <2>4. /\ drift \subseteq drift'
        /\ work[w].cur.op \in UnderWay => Stored(work[w].cur.keys) \subseteq drift'
    BY <1>4 DEF Fail, CutShort, At, UnderWay
  <2> HIDE DEF x
  <2>5. QED
    BY <1>0, <1>4, <2>1, <2>3, <2>4 DEF Quiet, Fail, redis
<1>5. CASE Finish(w)
  <2>1. work'[w].cur = work[w].cur /\ \A v \in Workers \ {w} : work'[v] = work[v]
    BY <1>0, <1>5 DEF Finish, Idle
  <2>2. QED
    BY <1>5, <2>1 DEF Quiet, Finish, redis, aux
<1>6. QED
  BY <1>2, <1>3, <1>4, <1>5

\* Taking an event off the stream is quiet: the worker was idle.
LEMMA ReceiveQuiet ==
    ASSUME TypeInv, NEW e \in Events, Receive(e)
    PROVE  Quiet
<1> DEFINE ops == Script(e)
           c == IF ops = <<>> THEN Nop ELSE Head(ops)
<1>1. EventOK(e) /\ e.kind # "none"
  BY WellFormedOK, StateCacheAssumption DEF Events, AllKinds
<1>2. c \in Plan(e)
  <2>1. ops \in Seq(Plan(e))
    BY <1>1, ScriptPlanned
  <2> HIDE DEF ops
  <2>2. CASE ops = <<>>
    BY <2>2, NopPlanned
  <2>3. CASE ops # <<>>
    BY <2>1, <2>3, HeadTailProperties
  <2>4. QED
    BY <2>2, <2>3
<1>3. c.op \notin UnderWay /\ Idle.cur.op \notin UnderWay
  BY <1>2, PlannedNotUnderWay, NopPlanned DEF Idle
<1>4. PICK w \in Workers :
        /\ work[w] = Idle
        /\ work' = [work EXCEPT ![w] =
                      [ev |-> e, n |-> received + 1, cur |-> c,
                       rest |-> IF ops = <<>> THEN <<>> ELSE Tail(ops),
                       old |-> {}, prior |-> Holds(ref, OldOf(e))]]
  BY DEF Receive, Runners, Workers
<1> HIDE DEF c, ops
<1>5. work'[w].cur = c /\ \A v \in Workers \ {w} : work'[v] = work[v]
  BY <1>4 DEF TypeInv, TypeOK
<1>6. QED
  BY <1>3, <1>4, <1>5 DEF Receive, redis, Quiet

\* A restart is quiet: it leaves Redis alone, and declares what it cuts short adrift.
LEMMA RestartQuiet ==
    ASSUME TypeInv, Restart
    PROVE  Quiet
<1>1. Idle.cur.op \notin UnderWay
  BY NopPlanned DEF Idle, UnderWay
<1>2. \A v \in Workers : work'[v].cur.op \notin UnderWay
  BY <1>1 DEF Restart
<1>3. \A v \in Workers :
          work[v].cur.op \in UnderWay => Stored(work[v].cur.keys) \subseteq drift'
  BY DEF Restart, CutShort, At, UnderWay
<1>4. QED
  BY <1>2, <1>3 DEF Restart, redis, Quiet

\* So is the scan of the purge.
LEMMA ScanQuiet ==
    ASSUME TypeInv, Scan
    PROVE  Quiet
<1> DEFINE K == {k \in ExpiryKeys : expiry[k] = "expired"}
           x == [Idle EXCEPT !.cur = Do("del", K), !.rest = <<Do("hdel", K)>>]
<1>1. x.cur.op = "del" /\ Idle.cur.op = "nop"
  BY DEF Idle, Do, Nop
<1>2. work[Purge] = Idle /\ work' = [work EXCEPT ![Purge] = x] /\ Purge \in Workers
  BY DEF Scan, Workers
<1> HIDE DEF x
<1>3. work'[Purge] = x /\ \A v \in Workers \ {Purge} : work'[v] = work[v]
  BY <1>2 DEF TypeInv, TypeOK
<1>4. QED
  BY <1>1, <1>2, <1>3 DEF Scan, redis, aux, Quiet, UnderWay
-----------------------------------------------------------------------------
(* The commands of set_all and del_all. *)

\* After its MSET or DEL, or one of its SADDs or SREMs, a worker has the helper sets
\* `left` to update, or is no longer under way; the other workers are as before.
LEMMA RemainingStep ==
    ASSUME TypeInv, NEW w \in Workers, NEW op \in UnderWay, NEW left \in SUBSET Indexes,
           op = "sadd" => work[w].cur.keys \subseteq EventKeys /\ work[w].ev.kind # "none",
           work' = [work EXCEPT ![w] = Remaining(w, op, left)]
    PROVE  /\ left = {} => work'[w].cur.op \notin UnderWay
           /\ left # {} => /\ work'[w].cur.op = op
                           /\ work'[w].cur.keys = work[w].cur.keys
                           /\ work'[w].cur.left = left
           /\ \A v \in Workers \ {w} : work'[v] = work[v]
<1> DEFINE r == Remaining(w, op, left)
<1>1. /\ left = {} => r.cur \in Plan(work[w].ev)
      /\ left # {} => r.cur = [op |-> op, keys |-> work[w].cur.keys, left |-> left]
  BY RemainingOK DEF UnderWay
<1>2. work \in [Workers -> Work]
  BY DEF TypeInv, TypeOK
<1> HIDE DEF r
<1>3. work'[w] = r /\ \A v \in Workers \ {w} : work'[v] = work[v]
  BY <1>2 DEF r
<1>4. QED
  BY <1>1, <1>3, PlannedNotUnderWay

\* MSET keeps the invariant.
LEMMA MsetStep ==
    ASSUME IndexInv, TypeInv', NEW w \in Workers, Mset(w)
    PROVE  IndexInv'
<1> DEFINE K == work[w].cur.keys
           L == MemberIndexes(K)
           clash == {s \in Stored(K) : Removing(w, s)}
<1>1. /\ TypeInv
      /\ work[w].cur.op = "set"
      /\ K \in SUBSET AnyKeys
      /\ K \subseteq EventKeys
      /\ work[w].ev.kind # "none"
      /\ work[w].n \in Nat
      /\ work[w].n > 0
  BY CurPlanned, CurKeys DEF IndexInv, Mset, At, Plan, TypeInv, RecOK, Work
<1>2. /\ L = {} => work'[w].cur.op \notin UnderWay
      /\ L # {} => /\ work'[w].cur.op = "sadd"
                   /\ work'[w].cur.keys = K
                   /\ work'[w].cur.left = L
      /\ \A v \in Workers \ {w} : work'[v] = work[v]
  BY <1>1, MemberIndexesType, RemainingStep DEF Mset, UnderWay
<1>3. /\ \A s \in StoredKeys : store'[s] = IF s \in Stored(K) THEN work[w].n ELSE store[s]
      /\ idx' = idx
      /\ clash \subseteq drift'
      /\ \A s \in StoredKeys \ Stored(K) : s \in drift' <=> s \in drift
  BY DEF Mset, StillAdrift
<1> HIDE DEF K, L
<1>4. RemovedIsGone'
  <2> SUFFICES ASSUME NEW v \in Workers, NEW s \in StoredKeys, work'[v].cur.op = "srem",
                      s \in Stored(work'[v].cur.keys), s \notin drift'
               PROVE  store'[s] = Nil
    BY DEF RemovedIsGone, At
  <2>1. v # w /\ work'[v] = work[v]
    BY <1>2 DEF UnderWay
  <2>2. s \notin Stored(K)
    BY <1>3, <2>1 DEF Removing, At
  <2>3. QED
    BY <1>3, <2>1, <2>2 DEF IndexInv, RemovedIsGone, At
<1>5. AddedIsThere'
  <2> SUFFICES ASSUME NEW v \in Workers, NEW s \in StoredKeys, work'[v].cur.op = "sadd",
                      s \in Stored(work'[v].cur.keys), s \notin drift'
               PROVE  store'[s] # Nil
    BY DEF AddedIsThere, At
  <2>1. CASE s \in Stored(K)
    BY <1>1, <1>3, <2>1 DEF Nil
  <2>2. CASE s \notin Stored(K)
    <3>1. v # w /\ work'[v] = work[v]
      BY <1>2, <2>2 DEF UnderWay
    <3>2. QED
      BY <1>3, <2>2, <3>1 DEF IndexInv, AddedIsThere, At
  <2>3. QED
    BY <2>1, <2>2
<1>6. IndexCoversStore'
  <2> SUFFICES ASSUME NEW k \in EventKeys, NEW i \in IndexesOf(k),
                      store'[StoredKey(k)] # Nil, StoredKey(k) \notin drift',
                      StoredKey(k) \notin idx'[i]
               PROVE  \E v \in Workers : WillAdd(v, i, StoredKey(k))'
    BY DEF IndexCoversStore
  <2>0. StoredKey(k) \in StoredKeys
    BY StoredKeyType DEF AnyKeys
  <2>1. CASE StoredKey(k) \in Stored(K)
    <3>1. k \in K
      BY <1>1, <2>1, StoredKeyInjective DEF Stored
    <3>2. i \in L /\ StoredKey(k) \in MembersFor(K, i)
      BY <3>1 DEF L, MemberIndexes, MembersFor
    <3>3. WillAdd(w, i, StoredKey(k))'
      BY <1>2, <3>2 DEF WillAdd, At
    <3>4. QED
      BY <3>3
  <2>2. CASE StoredKey(k) \notin Stored(K)
    <3>1. PICK v \in Workers : WillAdd(v, i, StoredKey(k))
      BY <1>3, <2>0, <2>2 DEF IndexInv, IndexCoversStore
    <3>2. v # w
      BY <1>1, <3>1 DEF WillAdd, At
    <3>3. QED
      BY <1>2, <3>1, <3>2 DEF WillAdd, At
  <2>3. QED
    BY <2>1, <2>2
<1>7. IndexHasNoGhosts'
  <2> SUFFICES ASSUME NEW s \in StoredKeys, NEW i \in IndexesOf(s),
                      s \in idx'[i], s \notin drift', store'[s] = Nil
               PROVE  \E v \in Workers : WillRemove(v, i, s)'
    BY DEF IndexHasNoGhosts
  <2>1. s \notin Stored(K)
    BY <1>1, <1>3 DEF Nil
  <2>2. PICK v \in Workers : WillRemove(v, i, s)
    BY <1>3, <2>1 DEF IndexInv, IndexHasNoGhosts
  <2>3. v # w
    BY <1>1, <2>2 DEF WillRemove, At
  <2>4. QED
    BY <1>2, <2>2, <2>3 DEF WillRemove, At
<1>8. QED
  BY <1>4, <1>5, <1>6, <1>7 DEF IndexInv

\* DEL keeps the invariant.
LEMMA DeleteStep ==
    ASSUME IndexInv, TypeInv', NEW w \in Workers, Delete(w)
    PROVE  IndexInv'
<1> DEFINE K == work[w].cur.keys
           L == MemberIndexes(K)
           clash == {s \in Stored(K) : Adding(w, s)}
<1>1. /\ TypeInv
      /\ work[w].cur.op = "del"
      /\ K \in SUBSET AnyKeys
  BY CurKeys DEF IndexInv, Delete, At
<1>2. /\ L = {} => work'[w].cur.op \notin UnderWay
      /\ L # {} => /\ work'[w].cur.op = "srem"
                   /\ work'[w].cur.keys = K
                   /\ work'[w].cur.left = L
      /\ \A v \in Workers \ {w} : work'[v] = work[v]
  BY <1>1, MemberIndexesType, RemainingStep DEF Delete, UnderWay
<1>3. /\ \A s \in StoredKeys : store'[s] = IF s \in Stored(K) THEN Nil ELSE store[s]
      /\ idx' = idx
      /\ clash \subseteq drift'
      /\ \A s \in StoredKeys \ Stored(K) : s \in drift' <=> s \in drift
  BY DEF Delete, StillAdrift
<1> HIDE DEF K, L
<1>4. RemovedIsGone'
  <2> SUFFICES ASSUME NEW v \in Workers, NEW s \in StoredKeys, work'[v].cur.op = "srem",
                      s \in Stored(work'[v].cur.keys), s \notin drift', s \notin Stored(K)
               PROVE  store'[s] = Nil
    BY <1>3 DEF RemovedIsGone, At
  <2>1. v # w /\ work'[v] = work[v]
    BY <1>2 DEF UnderWay
  <2>2. QED
    BY <1>3, <2>1 DEF IndexInv, RemovedIsGone, At
<1>5. AddedIsThere'
  <2> SUFFICES ASSUME NEW v \in Workers, NEW s \in StoredKeys, work'[v].cur.op = "sadd",
                      s \in Stored(work'[v].cur.keys), s \notin drift'
               PROVE  store'[s] # Nil
    BY DEF AddedIsThere, At
  <2>1. v # w /\ work'[v] = work[v]
    BY <1>2 DEF UnderWay
  <2>2. s \notin Stored(K)
    BY <1>3, <2>1 DEF Adding, At
  <2>3. QED
    BY <1>3, <2>1, <2>2 DEF IndexInv, AddedIsThere, At
<1>6. IndexCoversStore'
  <2> SUFFICES ASSUME NEW k \in EventKeys, NEW i \in IndexesOf(k),
                      store'[StoredKey(k)] # Nil, StoredKey(k) \notin drift',
                      StoredKey(k) \notin idx'[i]
               PROVE  \E v \in Workers : WillAdd(v, i, StoredKey(k))'
    BY DEF IndexCoversStore
  <2>1. StoredKey(k) \in StoredKeys
    BY StoredKeyType DEF AnyKeys
  <2>2. PICK v \in Workers : WillAdd(v, i, StoredKey(k))
    BY <1>3, <2>1 DEF IndexInv, IndexCoversStore
  <2>3. v # w
    BY <1>1, <2>2 DEF WillAdd, At
  <2>4. QED
    BY <1>2, <2>2, <2>3 DEF WillAdd, At
<1>7. IndexHasNoGhosts'
  <2> SUFFICES ASSUME NEW s \in StoredKeys, NEW i \in IndexesOf(s),
                      s \in idx'[i], s \notin drift', store'[s] = Nil
               PROVE  \E v \in Workers : WillRemove(v, i, s)'
    BY DEF IndexHasNoGhosts
  <2>1. CASE s \in Stored(K)
    <3>1. PICK d \in K : s = StoredKey(d)
      BY <2>1 DEF Stored
    <3>2. i \in IndexesOf(d)
      BY <1>1, <3>1, StoredIndexes
    <3>3. i \in L /\ s \in MembersFor(K, i)
      BY <3>1, <3>2 DEF L, MemberIndexes, MembersFor
    <3>4. WillRemove(w, i, s)'
      BY <1>2, <3>3 DEF WillRemove, At
    <3>5. QED
      BY <3>4
  <2>2. CASE s \notin Stored(K)
    <3>1. PICK v \in Workers : WillRemove(v, i, s)
      BY <1>3, <2>2 DEF IndexInv, IndexHasNoGhosts
    <3>2. v # w
      BY <1>1, <3>1 DEF WillRemove, At
    <3>3. QED
      BY <1>2, <3>1, <3>2 DEF WillRemove, At
  <2>3. QED
    BY <2>1, <2>2
<1>8. QED
  BY <1>4, <1>5, <1>6, <1>7 DEF IndexInv

\* SADD keeps the invariant.
LEMMA SaddStep ==
    ASSUME IndexInv, TypeInv', NEW w \in Workers, Sadd(w)
    PROVE  IndexInv'
<1> DEFINE K == work[w].cur.keys
<1>1. /\ TypeInv
      /\ work[w].cur.op = "sadd"
      /\ K \in SUBSET AnyKeys
      /\ work[w].cur.left \in SUBSET Indexes
      /\ K \subseteq EventKeys
      /\ work[w].ev.kind # "none"
      /\ idx \in [Indexes -> SUBSET StoredKeys]
  BY CurKeys DEF IndexInv, Sadd, At, TypeInv, TypeOK, RecOK, Plan
<1>2. PICK j \in work[w].cur.left :
          /\ idx' = [idx EXCEPT ![j] = @ \cup MembersFor(K, j)]
          /\ work' = [work EXCEPT ![w] = Remaining(w, "sadd", work[w].cur.left \ {j})]
  BY DEF Sadd
<1> DEFINE L == work[w].cur.left \ {j}
<1>3. /\ L = {} => work'[w].cur.op \notin UnderWay
      /\ L # {} => /\ work'[w].cur.op = "sadd"
                   /\ work'[w].cur.keys = K
                   /\ work'[w].cur.left = L
      /\ \A v \in Workers \ {w} : work'[v] = work[v]
  <2>1. L \in SUBSET Indexes /\ work' = [work EXCEPT ![w] = Remaining(w, "sadd", L)]
    BY <1>1, <1>2
  <2> HIDE DEF L
  <2>2. QED
    BY <1>1, <2>1, RemainingStep DEF UnderWay
<1>4. UNCHANGED <<store, drift>>
  BY DEF Sadd, aux
<1>5. \A i \in Indexes : /\ idx[i] \subseteq idx'[i]
                          /\ idx'[i] \subseteq idx[i] \cup Stored(K)
  BY <1>1, <1>2, MembersForType
<1>6. MembersFor(K, j) \subseteq idx'[j]
  BY <1>1, <1>2
<1>7. RemovedIsGone'
  BY <1>3, <1>4 DEF IndexInv, RemovedIsGone, At, UnderWay
<1>8. AddedIsThere'
  BY <1>1, <1>3, <1>4 DEF IndexInv, AddedIsThere, At, UnderWay
<1>9. IndexCoversStore'
  <2> SUFFICES ASSUME NEW k \in EventKeys, NEW i \in IndexesOf(k),
                      store'[StoredKey(k)] # Nil, StoredKey(k) \notin drift',
                      StoredKey(k) \notin idx'[i]
               PROVE  \E v \in Workers : WillAdd(v, i, StoredKey(k))'
    BY DEF IndexCoversStore
  <2>0. i \in Indexes
    BY DEF Indexes, MemberIndexes, AnyKeys
  <2>1. PICK v \in Workers : WillAdd(v, i, StoredKey(k))
    BY <1>4, <1>5, <2>0 DEF IndexInv, IndexCoversStore
  <2>2. CASE v = w
    <3>1. i # j
      BY <1>6, <2>1, <2>2 DEF WillAdd
    <3>2. QED
      BY <1>3, <2>1, <2>2, <3>1 DEF WillAdd, At
  <2>3. CASE v # w
    BY <1>3, <2>1, <2>3 DEF WillAdd, At
  <2>4. QED
    BY <2>2, <2>3
<1>10. IndexHasNoGhosts'
  <2> SUFFICES ASSUME NEW s \in StoredKeys, NEW i \in IndexesOf(s),
                      s \in idx'[i], s \notin drift', store'[s] = Nil
               PROVE  \E v \in Workers : WillRemove(v, i, s)'
    BY DEF IndexHasNoGhosts
  <2>0. i \in Indexes
    BY DEF Indexes, MemberIndexes, AnyKeys
  <2>1. s \notin Stored(K)
    BY <1>1, <1>4 DEF IndexInv, AddedIsThere, At
  <2>2. s \in idx[i]
    BY <1>5, <2>0, <2>1
  <2>3. PICK v \in Workers : WillRemove(v, i, s)
    BY <1>4, <2>2 DEF IndexInv, IndexHasNoGhosts
  <2>4. v # w
    BY <1>1, <2>3 DEF WillRemove, At
  <2>5. QED
    BY <1>3, <2>3, <2>4 DEF WillRemove, At
<1>11. QED
  BY <1>7, <1>8, <1>9, <1>10 DEF IndexInv

\* SREM keeps the invariant.
LEMMA SremStep ==
    ASSUME IndexInv, TypeInv', NEW w \in Workers, Srem(w)
    PROVE  IndexInv'
<1> DEFINE K == work[w].cur.keys
<1>1. /\ TypeInv
      /\ work[w].cur.op = "srem"
      /\ K \in SUBSET AnyKeys
      /\ work[w].cur.left \in SUBSET Indexes
      /\ idx \in [Indexes -> SUBSET StoredKeys]
  BY CurKeys DEF IndexInv, Srem, At, TypeInv, TypeOK
<1>2. PICK j \in work[w].cur.left :
          /\ idx' = [idx EXCEPT ![j] = @ \ MembersFor(K, j)]
          /\ work' = [work EXCEPT ![w] = Remaining(w, "srem", work[w].cur.left \ {j})]
  BY DEF Srem
<1> DEFINE L == work[w].cur.left \ {j}
<1>3. /\ L = {} => work'[w].cur.op \notin UnderWay
      /\ L # {} => /\ work'[w].cur.op = "srem"
                   /\ work'[w].cur.keys = K
                   /\ work'[w].cur.left = L
      /\ \A v \in Workers \ {w} : work'[v] = work[v]
  <2>1. L \in SUBSET Indexes /\ work' = [work EXCEPT ![w] = Remaining(w, "srem", L)]
    BY <1>1, <1>2
  <2> HIDE DEF L
  <2>2. QED
    BY <1>1, <2>1, RemainingStep DEF UnderWay
<1>4. UNCHANGED <<store, drift>>
  BY DEF Srem, aux
<1>5. \A i \in Indexes : /\ idx'[i] \subseteq idx[i]
                          /\ idx[i] \subseteq idx'[i] \cup Stored(K)
  BY <1>1, <1>2, MembersForType
<1>6. MembersFor(K, j) \cap idx'[j] = {}
  BY <1>1, <1>2
<1>7. RemovedIsGone'
  BY <1>1, <1>3, <1>4 DEF IndexInv, RemovedIsGone, At, UnderWay
<1>8. AddedIsThere'
  BY <1>3, <1>4 DEF IndexInv, AddedIsThere, At, UnderWay
<1>9. IndexCoversStore'
  <2> SUFFICES ASSUME NEW k \in EventKeys, NEW i \in IndexesOf(k),
                      store'[StoredKey(k)] # Nil, StoredKey(k) \notin drift',
                      StoredKey(k) \notin idx'[i]
               PROVE  \E v \in Workers : WillAdd(v, i, StoredKey(k))'
    BY DEF IndexCoversStore
  <2>0. i \in Indexes /\ StoredKey(k) \in StoredKeys
    BY StoredKeyType DEF Indexes, MemberIndexes, AnyKeys
  <2>1. StoredKey(k) \notin Stored(K)
    BY <1>1, <1>4, <2>0 DEF IndexInv, RemovedIsGone, At
  <2>2. StoredKey(k) \notin idx[i]
    BY <1>5, <2>0, <2>1
  <2>3. PICK v \in Workers : WillAdd(v, i, StoredKey(k))
    BY <1>4, <2>2 DEF IndexInv, IndexCoversStore
  <2>4. v # w
    BY <1>1, <2>3 DEF WillAdd, At
  <2>5. QED
    BY <1>3, <2>3, <2>4 DEF WillAdd, At
<1>10. IndexHasNoGhosts'
  <2> SUFFICES ASSUME NEW s \in StoredKeys, NEW i \in IndexesOf(s),
                      s \in idx'[i], s \notin drift', store'[s] = Nil
               PROVE  \E v \in Workers : WillRemove(v, i, s)'
    BY DEF IndexHasNoGhosts
  <2>0. i \in Indexes
    BY DEF Indexes, MemberIndexes, AnyKeys
  <2>1. PICK v \in Workers : WillRemove(v, i, s)
    BY <1>4, <1>5, <2>0 DEF IndexInv, IndexHasNoGhosts
  <2>2. CASE v = w
    <3>1. i # j
      BY <1>6, <2>1, <2>2 DEF WillRemove
    <3>2. QED
      BY <1>3, <2>1, <2>2, <3>1 DEF WillRemove, At
  <2>3. CASE v # w
    BY <1>3, <2>1, <2>3 DEF WillRemove, At
  <2>4. QED
    BY <2>2, <2>3
<1>11. QED
  BY <1>7, <1>8, <1>9, <1>10 DEF IndexInv
-----------------------------------------------------------------------------
\* Nothing is in the store, in a helper set or under way at the start.
LEMMA InitIndex == Init => IndexInv
<1> SUFFICES ASSUME Init PROVE IndexInv
  OBVIOUS
<1>1. TypeInv
  BY InitType
<1>2. \A w \in Workers : work[w].cur.op = "nop"
  BY NopPlanned DEF Init, Idle
<1>3. /\ \A s \in StoredKeys : store[s] = Nil
      /\ \A i \in Indexes : idx[i] = {}
  BY DEF Init
<1>4. RemovedIsGone /\ AddedIsThere
  BY <1>2 DEF RemovedIsGone, AddedIsThere, At
<1>5. IndexCoversStore
  BY <1>3, StoredKeyType DEF IndexCoversStore, AnyKeys
<1>6. IndexHasNoGhosts
  <2>1. ASSUME NEW s \in StoredKeys, NEW i \in IndexesOf(s) PROVE i \in Indexes
    BY <2>1 DEF Indexes, MemberIndexes, AnyKeys
  <2>2. QED
    BY <1>3, <2>1 DEF IndexHasNoGhosts
<1>7. QED
  BY <1>1, <1>4, <1>5, <1>6 DEF IndexInv

\* Every step keeps the invariant.
LEMMA NextIndex == IndexInv /\ [Next]_vars => IndexInv'
<1> SUFFICES ASSUME IndexInv, [Next]_vars PROVE IndexInv'
  OBVIOUS
<1>1. TypeInv /\ TypeInv'
  BY NextType DEF IndexInv
<1>2. ASSUME NEW e \in Events, Receive(e) PROVE IndexInv'
  BY <1>1, <1>2, ReceiveQuiet, QuietStep
<1>3. ASSUME NEW w \in Workers, Command(w) \/ Fail(w) \/ Finish(w) PROVE IndexInv'
  <2>1. CASE Mset(w)
    BY <1>1, <2>1, MsetStep
  <2>2. CASE Sadd(w)
    BY <1>1, <2>2, SaddStep
  <2>3. CASE Delete(w)
    BY <1>1, <2>3, DeleteStep
  <2>4. CASE Srem(w)
    BY <1>1, <2>4, SremStep
  <2>5. CASE Hset(w) \/ Hdel(w) \/ Reads(w) \/ Fail(w) \/ Finish(w)
    BY <1>1, <2>5, WorkerQuiet, QuietStep
  <2>6. QED
    BY <1>3, <2>1, <2>2, <2>3, <2>4, <2>5 DEF Command, Reads
<1>4. CASE Scan
  BY <1>1, <1>4, ScanQuiet, QuietStep
<1>5. ASSUME NEW k \in ExpiryKeys, Elapse(k) PROVE IndexInv'
  <2>1. Quiet
    BY <1>5 DEF Elapse, aux, Quiet
  <2>2. QED
    BY <1>1, <2>1, QuietStep
<1>6. CASE Restart
  BY <1>1, <1>6, RestartQuiet, QuietStep
<1>7. CASE UNCHANGED vars
  <2>1. Quiet
    BY <1>7 DEF vars, Quiet
  <2>2. QED
    BY <1>1, <2>1, QuietStep
<1>8. QED
  BY <1>2, <1>3, <1>4, <1>5, <1>6, <1>7 DEF Next

\* A cached key is missing from a helper set only if it is adrift: set_all and del_all of
\* one key overlapped, or one of them was cut short by a failure.
THEOREM StoreIsIndexed == Spec => []IndexCoversStore
<1>1. IndexInv => IndexCoversStore
  BY DEF IndexInv
<1>2. QED
  BY <1>1, InitIndex, NextIndex, PTL DEF Spec

\* A helper set that the stored form of a key tells names an absent key only if that key
\* is adrift or a worker is about to remove it.
THEOREM NoGhosts == Spec => []IndexHasNoGhosts
<1>1. IndexInv => IndexHasNoGhosts
  BY DEF IndexInv
<1>2. QED
  BY <1>1, InitIndex, NextIndex, PTL DEF Spec
=============================================================================
