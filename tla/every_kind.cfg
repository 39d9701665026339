SPECIFICATION Spec
CONSTANTS
    g1 = g1
    c1 = c1
    r1 = r1
    e1 = e1
    u1 = u1
    m1 = m1
    t1 = t1
    NoGuild = NoGuild
    Bot = Bot
    Guilds = {g1}
    Channels = {c1}
    Roles = {r1}
    Emojis = {e1}
    Users = {u1}
    Messages = {m1}
    GuildOf <- Private
    Tasks = {t1}
    MaxEvents = 2
    Kinds <- AllKinds
    Faults = FALSE
    state_enabled = TRUE
    state_member = TRUE
    state_message = TRUE
    state_presence = TRUE
    state_emoji = TRUE
    state_voice = TRUE
    state_old = TRUE
CHECK_DEADLOCK FALSE
INVARIANTS
    ConvergesToReference
    OldIsPrevious
