CONSTANTS
    MCTx = {"c1", "a", "b", "d", "f"}
    Has1 = {"b", "d", "f"}
    Has2 = {"a", "b"}
    Block <- MCBlocks
    Genesis = "G"
    NoBlock = "null"
    Prev <- MCPrev
    Anc <- MCAnc
    Height <- MCHeight
    ChainTrust <- MCHeight
    Tx <- MCTx
    TxIn <- MCTxIn
    NOut <- MCNOut
    CoinStakes = {}
    Vtx <- MCVtx
    Fails <- MCFails
    CoinbaseMaturity = 0
    NoTx = "notx"
    Peer <- MCPeer
    PeerHas <- MCPeerHas
    FirstBlock = "P1"
    Mined = {}
    Local = {}
    Large = {}
    NoTrickle = {"b"}
    MaxOrphanTx = 2
    Retry = 2
    Now = 3
    MaxClock = 4
    Losses = FALSE
SPECIFICATION FairSpec
CHECK_DEADLOCK FALSE
PROPERTIES AllReachPool AllAreTold
