---------------------------- MODULE CacheUpdate -----------------------------
(***************************************************************************)
(* `cache::update` as a table: for each kind of event, the operations on   *)
(* Redis its arm of the match performs, in order (Arm), and apart from     *)
(* that the effect the event is meant to have on the cache (Applied).      *)
(***************************************************************************)
EXTENDS GatewayEvents

CONSTANTS
    Bot,              \* the id of the bot's own user
    state_enabled, state_member, state_message, state_presence,
    state_emoji, state_voice, state_old     \* the STATE_* settings

ASSUME SettingsAssumption ==
    {state_enabled, state_member, state_message, state_presence,
     state_emoji, state_voice, state_old} \subseteq BOOLEAN

Nil == 0                                  \* an absent value
Of(kind, K) == {k \in K : k[1] = kind}    \* the keys of one kind

-----------------------------------------------------------------------------
(* Operations.  "set", "del" and "expire" are set_all, del_all, expire_all: *)
(* they send nothing when given no key.  "sadd" and "srem" are the rest of  *)
(* a set_all or del_all: the helper sets in `left` are still to be updated. *)

OpNames == { "nop", "set", "sadd", "del", "srem", "expire", "hdel", "get", "get_all",
             "modify", "members", "clear", "emoji_keys", "emojis" }

Op == [op : OpNames, keys : SUBSET AnyKeys, left : SUBSET Indexes]

Do(op, K) == [op |-> op, keys |-> K, left |-> {}]
Nop == Do("nop", {})

Some(op, K) == IF K = {} THEN <<>> ELSE <<Do(op, K)>>

\* Mutants: expire_all sends nothing; the test of state_old is inverted.
ExpireNothing(K) == <<>>
OldInverted(K) == IF state_old THEN <<>> ELSE Some("get", K)

Set(K) == Some("set", K)
Del(K) == Some("del", K)
Expire(K) == Some("expire", K)
Old(K) == IF state_old THEN Some("get", K) ELSE <<>>

\* Mutant of ClearGuild: the guild's own record is left.
ClearGuildItems(g) == <<Do("members", {guild_key(g)})>>

\* clear_guild: SMEMBERS and del_all of what it returns, GET and del of the guild.
ClearGuild(g) == <<Do("members", {guild_key(g)}), Do("clear", {guild_key(g)})>>

\* What GuildCreate keeps of its items, given the settings.
Cached(k) ==
    CASE k[1] = "emoji" -> state_emoji
      [] k[1] = "voice" -> state_voice
      [] k[1] = "member" -> state_member \/ k[3] = Bot
      [] k[1] = "presence" -> state_presence
      [] OTHER -> TRUE

\* The settings under which an event touches the cache at all.
Handled(e) ==
    /\ state_enabled
    /\ e.kind \in {"MessageCreate", "MessageDelete", "MessageDeleteBulk", "MessageUpdate"}
            => state_message
    /\ e.kind \in {"MemberAdd", "MemberChunk"} => state_member
    /\ e.kind = "MemberUpdate" => state_member \/ \A k \in e.keys : k[3] = Bot
    /\ e.kind = "PresenceUpdate" => state_presence
    /\ e.kind = "GuildEmojisUpdate" => state_emoji
    /\ e.kind = "VoiceStateUpdate" => state_voice

\* The arms of the match of cache::update.
Arm(e) ==
    LET K == e.keys IN
    CASE e.kind \in {"ChannelCreate", "RoleCreate"} -> Set(K)
      [] e.kind \in {"ChannelDelete", "RoleDelete", "MessageDelete"} -> Old(K) \o Del(K)
      [] e.kind \in {"ChannelUpdate", "GuildUpdate", "PresenceUpdate", "RoleUpdate",
                     "UserUpdate"} -> Old(K) \o Set(K)
      [] e.kind = "ChannelPinsUpdate" -> Some("modify", K) \o Set(K)
      [] e.kind = "GuildCreate" ->
            ClearGuild(e.guild)
            \o Set({k \in K : Cached(k)} \cup {guild_key(e.guild)})
            \o (IF state_member THEN Expire(Of("member", K)) ELSE <<>>)
      [] e.kind = "GuildDelete" -> ClearGuild(e.guild)
      [] e.kind = "UnavailableGuild" -> ClearGuild(e.guild) \o Set({guild_key(e.guild)})
      [] e.kind = "GuildEmojisUpdate" -> Some("emoji_keys", {guild_key(e.guild)})
      [] e.kind \in {"MemberAdd", "MemberChunk", "MessageCreate"} -> Set(K) \o Expire(K)
      [] e.kind \in {"MemberUpdate", "MessageUpdate"} ->
            Some("modify", K) \o Set(K) \o Expire(K)
      [] e.kind = "MemberRemove" ->
            (IF state_member THEN Old(Of("member", K)) \o Del(Of("member", K)) ELSE <<>>)
            \o (IF state_presence THEN Del(Of("presence", K)) ELSE <<>>)
      [] e.kind = "MessageDeleteBulk" -> Some("get_all", K) \o Del(K)
      [] e.kind = "Ready" -> Set({bot_user_key}) \o Set(K)
      [] e.kind = "VoiceStateUpdate" -> Old(K) \o (IF e.flag THEN Set(K) ELSE Del(K))
      [] OTHER -> <<>>

Script(e) == IF Handled(e) THEN Arm(e) ELSE <<>>
-----------------------------------------------------------------------------
(* What an event means, told apart from how `update` carries it out: the    *)
(* keys it erases, those it writes, and those it writes if they exist.      *)

Erased(e) ==
    IF ~Handled(e) THEN {} ELSE
    CASE e.kind \in {"ChannelDelete", "RoleDelete", "MessageDelete", "MessageDeleteBulk"}
            -> e.keys
      [] e.kind \in {"GuildCreate", "GuildDelete", "UnavailableGuild"} ->
            GuildItems(e.guild) \cup {guild_key(e.guild)}
      [] e.kind = "GuildEmojisUpdate" -> GuildKeysOf("emoji", e.guild)
      [] e.kind = "MemberRemove" ->
            {k \in e.keys : IF k[1] = "member" THEN state_member ELSE state_presence}
      [] e.kind = "VoiceStateUpdate" -> IF e.flag THEN {} ELSE e.keys
      [] OTHER -> {}

Written(e) ==
    IF ~Handled(e) THEN {} ELSE
    CASE e.kind = "GuildCreate" -> {k \in e.keys : Cached(k)} \cup {guild_key(e.guild)}
      [] e.kind = "UnavailableGuild" -> {guild_key(e.guild)}
      [] e.kind = "Ready" -> e.keys \cup {bot_user_key}
      [] e.kind \in {"ChannelCreate", "ChannelUpdate", "GuildEmojisUpdate", "GuildUpdate",
                     "MemberAdd", "MemberChunk", "MessageCreate", "PresenceUpdate",
                     "RoleCreate", "RoleUpdate", "UserUpdate"} -> e.keys
      [] e.kind = "VoiceStateUpdate" -> IF e.flag THEN e.keys ELSE {}
      [] OTHER -> {}

Updated(e) ==
    IF Handled(e) /\ e.kind \in {"ChannelPinsUpdate", "MemberUpdate", "MessageUpdate"}
    THEN e.keys ELSE {}

Footprint(e) == Stored(Erased(e) \cup Written(e) \cup Updated(e))

\* The cache r after event e, the n-th, applied in one step.
Applied(r, e, n) ==
    [s \in StoredKeys |->
        CASE s \in Stored(Written(e)) -> n
          [] s \in Stored(Erased(e)) \ Stored(Written(e)) -> Nil
          [] s \in Stored(Updated(e)) /\ r[s] # Nil -> n
          [] OTHER -> r[s]]

\* The objects whose previous value `update` returns as `old`.
OldOf(e) ==
    IF ~Handled(e) THEN {}
    ELSE IF e.kind \in {"GuildCreate", "GuildDelete", "UnavailableGuild"} THEN {guild_key(e.guild)}
    ELSE IF ~state_old THEN {} ELSE
    CASE e.kind = "GuildEmojisUpdate" -> GuildKeysOf("emoji", e.guild)
      [] e.kind = "MemberRemove" -> Of("member", Erased(e))
      [] e.kind \in {"ChannelCreate", "ChannelPinsUpdate", "MemberAdd", "MemberChunk",
                     "MessageCreate", "Ready", "RoleCreate"} -> {}
      [] OTHER -> e.keys

\* The objects of K that cache r holds, with their values.
Holds(r, K) == {<<s, r[s]>> : s \in {x \in Stored(K) : r[x] # Nil}}

\* What `get` and `get_all` find of K.  Unlike set_all and del_all they take a key as it
\* is, so they find nothing under the event form of a guild's channel.
Found(r, K) == Holds(r, K \cap StoredKeys)
=============================================================================
