--------------------------- MODULE GatewayEvents ----------------------------
(***************************************************************************)
(* The gateway events that change the state cache, reduced to what         *)
(* `cache::update` reads of them: the kind, the guild, the objects carried *)
(* (named by their keys) and, for two kinds, a flag: GuildDelete's         *)
(* `unavailable`, and whether a voice state has a channel.                 *)
(***************************************************************************)
EXTENDS Keyspace

AllKinds == { "ChannelCreate", "ChannelDelete", "ChannelPinsUpdate", "ChannelUpdate",
              "GuildCreate", "GuildDelete", "GuildEmojisUpdate", "GuildUpdate",
              "MemberAdd", "MemberRemove", "MemberUpdate", "MemberChunk",
              "MessageCreate", "MessageDelete", "MessageDeleteBulk", "MessageUpdate",
              "PresenceUpdate", "Ready", "RoleCreate", "RoleDelete", "RoleUpdate",
              "UnavailableGuild", "UserUpdate", "VoiceStateUpdate" }

Event == [kind : AllKinds \cup {"none"}, guild : Guilds \cup {NoGuild},
          keys : SUBSET EventKeys, flag : BOOLEAN]

Ev(kind, g, K, flag) == [kind |-> kind, guild |-> g, keys |-> K, flag |-> flag]
NoEvent == Ev("none", NoGuild, {}, FALSE)

GuildKeysOf(kind, g) == {k \in GuildItems(g) : k[1] = kind}
MessagesIn(c) == {message_key(c, m) : m \in Messages}

\* What an event of each kind carries.
WellFormed(e) ==
    /\ e.flag => e.kind \in {"GuildDelete", "VoiceStateUpdate"}
    /\ e.kind \in {"GuildCreate", "GuildDelete", "GuildEmojisUpdate", "GuildUpdate",
                   "MemberAdd", "MemberChunk", "MemberRemove", "MemberUpdate",
                   "PresenceUpdate", "RoleCreate", "RoleDelete", "RoleUpdate",
                   "UnavailableGuild"} => e.guild \in Guilds
    /\ e.kind \in {"MessageCreate", "MessageDelete", "MessageDeleteBulk", "MessageUpdate",
                   "Ready", "UserUpdate"} => e.guild = NoGuild
    /\ CASE e.kind \in {"ChannelCreate", "ChannelDelete", "ChannelPinsUpdate",
                        "ChannelUpdate"} ->
                \E c \in Channels : e.guild = GuildOf[c] /\ e.keys = {channel_key(c)}
         [] e.kind = "GuildCreate" -> e.keys \subseteq GuildItems(e.guild)
         [] e.kind = "GuildUpdate" -> e.keys = {guild_key(e.guild)}
         [] e.kind = "GuildEmojisUpdate" -> e.keys \subseteq GuildKeysOf("emoji", e.guild)
         [] e.kind \in {"MemberAdd", "MemberUpdate"} ->
                \E u \in Users : e.keys = {member_key(e.guild, u)}
         [] e.kind = "MemberRemove" ->
                \E u \in Users : e.keys = {member_key(e.guild, u), presence_key(e.guild, u)}
         [] e.kind = "MemberChunk" -> e.keys \subseteq GuildKeysOf("member", e.guild)
         [] e.kind \in {"MessageCreate", "MessageDelete", "MessageUpdate"} ->
                \E k \in MessageKeys : e.keys = {k}
         [] e.kind = "MessageDeleteBulk" -> \E c \in Channels : e.keys \subseteq MessagesIn(c)
         [] e.kind = "PresenceUpdate" -> \E u \in Users : e.keys = {presence_key(e.guild, u)}
         [] e.kind = "Ready" -> e.keys \subseteq GuildKeys
         [] e.kind \in {"RoleCreate", "RoleDelete", "RoleUpdate"} ->
                \E r \in Roles : e.keys = {role_key(e.guild, r)}
         [] e.kind = "UserUpdate" -> e.keys = {bot_user_key}
         [] e.kind = "VoiceStateUpdate" ->
                IF e.guild = NoGuild THEN e.keys = {}
                ELSE \E u \in Users : e.keys = {voice_key(e.guild, u)}
         [] OTHER -> e.keys = {}
=============================================================================
