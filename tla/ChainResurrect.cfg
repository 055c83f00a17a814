CONSTANTS
    MCBlocks = {"G", "P1", "A2", "A3", "B2", "B3", "B4"}
    Block <- MCBlocks
    Genesis = "G"
    NoBlock = "null"
    Prev <- MCPrev
    Anc <- MCAnc
    Height <- MCHeight
    ChainTrust <- MCTrust
    Tx <- MCTx
    TxIn <- MCTxIn
    NOut <- MCNOut
    CoinStakes <- MCCoinStakes
    Vtx <- MCVtx
    Fails <- MCFails
    CoinbaseMaturity = 1
    NoTx = "notx"
    Stakes = {"s1", "s2"}
    NoStake = "none"
    Stake <- MCStake
    Loose = {}
    MaxOrphanBlocks = 1
    Crashes = FALSE
    WriteErrors = FALSE
SPECIFICATION FairSpec
PROPERTIES ResurrectedIntoPool
CHECK_DEADLOCK FALSE
