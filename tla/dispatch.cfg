SPECIFICATION FairSpec
CONSTANTS
    Kinds = {"Ready", "Event", "Hello", "Garbage", "Reconnecting"}
    MaxMessages = 3
    Faults = TRUE
    state_enabled = TRUE
    state_old = TRUE
CHECK_DEADLOCK FALSE
INVARIANTS
    TypeOK
    DispatchesOnce
    CountedIsPublished
    ReadyIsBarrier
PROPERTIES
    KeepsFeed
    EventuallyPublished
