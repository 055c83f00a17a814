CONSTANTS
    t1 = t1
    t2 = t2
    t3 = t3
    Threads <- MCThreads
    Loader = t1
    NoThread = NoThread
    LoadForks = FALSE
SPECIFICATION FairSpec
INVARIANTS TypeOK ResizeExclusive CountExact
PROPERTIES ResizeCompletes
