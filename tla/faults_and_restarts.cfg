SPECIFICATION Spec
CONSTANTS
    g1 = g1
    u1 = u1
    t1 = t1
    NoGuild = NoGuild
    Bot = Bot
    Guilds = {g1}
    Channels = {}
    Roles = {}
    Emojis = {}
    Users = {u1}
    Messages = {}
    GuildOf <- OneGuild
    Tasks = {t1}
    MaxEvents = 2
    Kinds <- FaultKinds
    Faults = TRUE
    state_enabled = TRUE
    state_member = TRUE
    state_message = TRUE
    state_presence = TRUE
    state_emoji = TRUE
    state_voice = TRUE
    state_old = TRUE
CHECK_DEADLOCK FALSE
INVARIANTS
    IndexCoversStore
    ConvergesToReference
