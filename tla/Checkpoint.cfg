CONSTANTS
    MCBlocks = {"G", "A1", "A2", "A3", "B1", "B2", "B3", "C2", "C3", "C4"}
    MCBad = {"C3"}
    Block <- MCBlocks
    Genesis = "G"
    NoBlock = "null"
    Prev <- MCPrev
    Anc <- MCAnc
    Height <- MCHeight
    ChainTrust <- MCHeight
    Tx <- MCTx
    TxIn <- MCTxIn
    NOut <- MCNOut
    CoinStakes = {}
    Vtx <- MCVtx
    Fails <- MCFails
    CoinbaseMaturity = 1
    Signed = {"B1", "B3", "C2"}
    Upgrades = 1
    Faults = {"none", "deaths", "errors"}
SPECIFICATION FairSpec
INVARIANTS TypeOK CheckpointOnBestChain DiskDescribesBest MemoryIsDisk CheckpointIsAccepted
PROPERTIES NoReorgBelowCheckpoint CheckpointIsReached
