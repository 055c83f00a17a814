CONSTANTS
    MCBlocks = {"G", "P1", "A2", "A3", "B2", "B3", "B4", "D3", "F4", "X3", "X4"}
    Block <- MCBlocks
    Genesis = "G"
    NoBlock = "null"
    Prev <- MCPrev
    Anc <- MCAnc
    Height <- MCHeight
    ChainTrust <- MCTrust
    Tx <- MCTx
    TxIn <- MCTxIn
    NOut <- MCNOut
    CoinStakes <- MCCoinStakes
    Vtx <- MCVtx
    Fails <- MCFails
    CoinbaseMaturity = 1
    NoTx = "notx"
    Stakes = {"s1", "s2"}
    NoStake = "none"
    Stake <- MCStake
    Loose = {"t1", "r", "k", "l1", "l2"}
    MaxOrphanBlocks = 1
    Crashes = TRUE
    WriteErrors = TRUE
SPECIFICATION Spec
INVARIANTS TypeOK DiskIsLedger DiskLinksBestChain BestChainIsValid NoForkSpendsTwice MemoryIsDisk BestIsHeaviest PoolIsConsistent PoolIsUnconfirmed
PROPERTY StoresAtomically
