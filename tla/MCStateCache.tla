---------------------------- MODULE MCStateCache ----------------------------
(***************************************************************************)
(* Instances of StateCache for TLC: which channels belong to a guild, the  *)
(* kinds of event of each run, and the symmetry of interchangeable tasks.  *)
(***************************************************************************)
EXTENDS StateCache, TLC

\* One guild; every channel belongs to it.
OneGuild == [c \in Channels |-> CHOOSE g \in Guilds : TRUE]

\* Every channel is private.
Private == [c \in Channels |-> NoGuild]

\* The kinds that create, replace and clear a guild with its channels.
GuildKinds == {"Ready", "GuildCreate", "GuildDelete", "UnavailableGuild",
               "ChannelCreate", "ChannelDelete"}

\* The kinds that write, modify and delete one channel.
ChannelKinds == {"ChannelCreate", "ChannelUpdate", "ChannelPinsUpdate", "ChannelDelete"}

\* The kinds that write, modify and delete one member of a guild.
MemberKinds == {"MemberAdd", "MemberRemove", "MemberUpdate"}

\* The kinds that write, modify and delete one message.
MessageKinds == {"MessageCreate", "MessageDelete", "MessageUpdate"}

\* A mix of kinds whose updates have several steps, any of which may fail.
FaultKinds == {"GuildCreate", "GuildDelete", "MemberUpdate", "MemberRemove"}

\* The kinds that the handler may count as a join or a leave.
MembershipKinds == {"GuildCreate", "GuildDelete"}

TaskSymmetry == Permutations(Tasks)
=============================================================================
