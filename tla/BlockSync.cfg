CONSTANTS
    ForkAt = 1
    ForkTip = 3
    StartTip = 8
    MaxTip = 9
    Pow = {1, 2, 3, 4, 8, 9}
    nLimit = 3
    KnownMax = 6
    MaxOrphanBlocks = 0
    Dense = 1
    StakeAge = 1
    Recent = 2
    MaxReconnects = 1
    MaxToSend = 3
SPECIFICATION FairSpec
INVARIANTS TypeOK BatchStartsAtKnownBlock
PROPERTY SyncCompletes
CHECK_DEADLOCK FALSE
