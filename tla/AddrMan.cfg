CONSTANTS
    Service <- MCService
    Source = {"s", "t"}
    Gossip <- MCGossip
    GetNewBucket <- MCNewBucket
    GetTriedBucket <- MCTriedBucket
    NewBuckets = 2
    TriedBuckets = 1
    NewBucketSize = 1
    TriedBucketSize = 2
    PerAddress = 2
    InspectOnEvict = 2
    GetAddrPct = 75
    GetAddrMax = 2
    MaxId = 4
    Time = {1}
SPECIFICATION Spec
INVARIANTS TablesAgree ReloadKeepsTables
