------------------------------ MODULE Keyspace ------------------------------
(***************************************************************************)
(* The Redis key space of the state cache.                                 *)
(*                                                                         *)
(* cache.rs looks at a key only through `key.split(':')`, so a key is      *)
(* modelled as the tuple of its parts: "role:1:7" is <<"role", 1, 7>>.     *)
(* A key exists in two forms.  Its event form is what the functions of     *)
(* constants.rs build and what the handlers pass to set_all and del_all;   *)
(* its stored form is what Redis holds.  They differ for the channels of a *)
(* guild only, which lose their guild: "channel:1:5" is stored as          *)
(* "channel:5".                                                            *)
(*                                                                         *)
(* The helper sets of the cache are named by tuples too: <<"role">> is the *)
(* set "role_keys" and <<"guild", 1>> is the set "guild_keys:1".           *)
(***************************************************************************)
EXTENDS Integers, Sequences

CONSTANTS
    Guilds,     \* guild ids
    Channels,   \* channel ids, of guilds and private
    Roles,      \* role ids
    Emojis,     \* emoji ids
    Users,      \* user ids
    Messages,   \* message ids
    GuildOf,    \* the guild of a channel, or NoGuild for a private channel
    NoGuild     \* Option::None for a guild id

ASSUME KeyspaceAssumption ==
    /\ NoGuild \notin Guilds
    /\ GuildOf \in [Channels -> Guilds \cup {NoGuild}]

guild_key(g) == <<"guild", g>>
role_key(g, r) == <<"role", g, r>>
emoji_key(g, e) == <<"emoji", g, e>>
member_key(g, u) == <<"member", g, u>>
presence_key(g, u) == <<"presence", g, u>>
voice_key(g, u) == <<"voice", g, u>>
message_key(c, m) == <<"message", c, m>>
bot_user_key == <<"bot_user">>

channel_key(c) ==
    IF GuildOf[c] = NoGuild THEN <<"channel", c>> ELSE <<"channel", GuildOf[c], c>>

GuildKeys == {guild_key(g) : g \in Guilds}
ChannelKeys == {channel_key(c) : c \in Channels}
RoleKeys == {role_key(g, r) : g \in Guilds, r \in Roles}
EmojiKeys == {emoji_key(g, e) : g \in Guilds, e \in Emojis}
MemberKeys == {member_key(g, u) : g \in Guilds, u \in Users}
PresenceKeys == {presence_key(g, u) : g \in Guilds, u \in Users}
VoiceKeys == {voice_key(g, u) : g \in Guilds, u \in Users}
MessageKeys == {message_key(c, m) : c \in Channels, m \in Messages}

\* The keys the handlers can name, in their event form.
EventKeys ==
    {bot_user_key} \cup GuildKeys \cup ChannelKeys \cup RoleKeys \cup EmojiKeys
    \cup MemberKeys \cup PresenceKeys \cup VoiceKeys \cup MessageKeys

\* new_key of set_all and del_all: the key Redis holds.
StoredKey(k) == IF Len(k) > 2 /\ k[1] = "channel" THEN <<k[1], k[3]>> ELSE k

Stored(K) == {StoredKey(k) : k \in K}

StoredKeys == Stored(EventKeys)

\* del_all is also given stored keys, the ones clear_guild reads back.
AnyKeys == EventKeys \cup StoredKeys

\* The helper sets that set_all and del_all derive from the parts of a key.
IndexesOf(k) ==
    (IF Len(k) > 1 THEN {<<k[1]>>} ELSE {})
    \cup (IF Len(k) > 2
          THEN {<<IF k[1] # "message" THEN "guild" ELSE "channel", k[2]>>}
          ELSE {})

\* Mutant of MembersFor: the helper sets list the event form of a key.
MembersForEventForm(K, i) == {x \in K : i \in IndexesOf(x)}

\* The `members` map of set_all and del_all: its keys, and the value of one.
MemberIndexes(K) == UNION {IndexesOf(k) : k \in K}
MembersFor(K, i) == {StoredKey(k) : k \in {x \in K : i \in IndexesOf(x)}}

\* The helper sets; that of a guild can be read before it has any member.
Indexes == MemberIndexes(AnyKeys) \cup {<<"guild", g>> : g \in Guilds}

\* The keys that belong to a guild, its own record aside.
GuildItems(g) == {k \in EventKeys : Len(k) > 2 /\ k[1] # "message" /\ k[2] = g}
=============================================================================
