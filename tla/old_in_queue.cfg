SPECIFICATION Spec
CONSTANTS
    Kinds = {"Event"}
    MaxMessages = 2
    Faults = FALSE
    state_enabled = TRUE
    state_old = TRUE
CHECK_DEADLOCK FALSE
INVARIANTS
    OldInQueue
