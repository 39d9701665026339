SPECIFICATION Spec
CONSTANTS
    g1 = g1
    c1 = c1
    t1 = t1
    NoGuild = NoGuild
    Bot = Bot
    Guilds = {g1}
    Channels = {c1}
    Roles = {}
    Emojis = {}
    Users = {}
    Messages = {}
    GuildOf <- OneGuild
    Tasks = {t1}
    MaxEvents = 3
    Kinds <- ChannelKinds
    Faults = FALSE
    state_enabled = TRUE
    state_member = TRUE
    state_message = TRUE
    state_presence = TRUE
    state_emoji = TRUE
    state_voice = TRUE
    state_old = TRUE
CHECK_DEADLOCK FALSE
INVARIANTS
    OldIsPrevious
