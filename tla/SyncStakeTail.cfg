CONSTANTS
    ForkAt = 1
    ForkTip = 1
    StartTip = 8
    MaxTip = 8
    Pow = {1, 2, 3}
    nLimit = 3
    KnownMax = 6
    MaxOrphanBlocks = 750
    Dense = 1
    StakeAge = 1
    Recent = 2
    MaxReconnects = 0
    MaxToSend = 3
SPECIFICATION FairSpec
PROPERTY SyncCompletes
CHECK_DEADLOCK FALSE
