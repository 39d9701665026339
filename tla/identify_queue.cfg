SPECIFICATION FairSpec
CONSTANTS
    Shards = {0, 1, 2}
    Concurrency = 2
    Wait = 2
    MaxQueue = 3
INVARIANTS
    TypeOK
    OneLiveRequest
PROPERTIES
    Spaced
    InTurn
    EveryRequestAnswered
