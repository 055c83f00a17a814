CONSTANTS
    MCTx = {"c1", "a", "b", "d", "e", "f", "g"}
    Has1 = {"a", "b", "f"}
    Has2 = {"d", "e", "g"}
    Block <- MCBlocks
    Genesis = "G"
    NoBlock = "null"
    Prev <- MCPrev
    Anc <- MCAnc
    Height <- MCHeight
    ChainTrust <- MCHeight
    Tx <- MCTx
    TxIn <- MCTxIn
    NOut <- MCNOut
    CoinStakes = {}
    Vtx <- MCVtx
    Fails <- MCFails
    CoinbaseMaturity = 0
    NoTx = "notx"
    Peer <- MCPeer
    PeerHas <- MCPeerHas
    FirstBlock = "P1"
    Mined = {"P2"}
    Local = {"d"}
    Large = {"g"}
    NoTrickle = {"a"}
    MaxOrphanTx = 2
    Retry = 2
    Now = 3
    MaxClock = 3
    Losses = TRUE
SPECIFICATION Spec
CHECK_DEADLOCK FALSE
INVARIANTS TypeOK OrphanMapsAgree OrphansWait OrphansNotInPool PoolIsClosed
