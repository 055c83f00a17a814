-------------------------- MODULE ChainStateProofs --------------------------
(***************************************************************************)
(* The database always describes a valid chain, whatever blocks arrive in   *)
(* whatever order, whichever writes fail and whenever the process dies:     *)
(* ChainInv is inductive, for every block tree.                             *)
(***************************************************************************)
EXTENDS ChainState, LedgerProofs

-----------------------------------------------------------------------------
(* Types.                                                                   *)

\* The block that Reorganize connects next exists and continues the batch's chain.
LEMMA NextToConnectOK ==
    ASSUME ChainInv, phase = "connect", tip # cur
    PROVE  NextToConnect \in Anc[cur] \ {Genesis} /\ Prev[NextToConnect] = tip
<1>1. cur \in Block /\ tip \in Anc[cur]
  BY DEF ChainInv, TypeOK, TipOnTheWay
<1>2. \E c \in Anc[cur] \ {Genesis} : Prev[c] = tip
  BY <1>1, ChildExists
<1> QED BY <1>2 DEF NextToConnect

\* Every step keeps the types.
LEMMA TypeStep == ChainInv /\ [Next]_vars => TypeOK'
<1> SUFFICES ASSUME ChainInv, [Next]_vars PROVE TypeOK'
  OBVIOUS
<1>1. TypeOK
  BY DEF ChainInv
<1>2. \A S : StakesOf(S) \subseteq { Stake[b] : b \in S } \ {NoStake}
  BY DEF StakesOf
<1>3. \A S \in SUBSET Block : StakesOf(S) \subseteq Stakes
  BY ChainAssumption DEF StakesOf
<1>4. ASSUME NEW b \in Block \ {Genesis}, WriteToDisk(b)
      PROVE  /\ mapBlockIndex' \subseteq Block /\ pnext' \in [Block -> Block \cup {NoBlock}]
             /\ pindexBest' \in Block /\ setStakeSeen' \subseteq Stakes /\ mempool' \in Pools
             /\ disk' \in Views /\ batch' \in Views /\ phase' \in Phases /\ cur' \in Block
             /\ tip' \in Block /\ vResurrect' \subseteq TxPlaces(Block)
  <2>1. batch' \in Views
    BY <1>1, <1>4, ViewTypes DEF TypeOK, WriteToDisk
  <2>2. setStakeSeen' \subseteq Stakes
    BY <1>1, <1>3, <1>4 DEF TypeOK, WriteToDisk
  <2> QED BY <1>1, <1>4, <2>1, <2>2 DEF TypeOK, WriteToDisk, Phases
<1>5. ASSUME NEW b \in Block \ {Genesis}, ProcessBlock(b) PROVE TypeOK'
  BY <1>1, <1>4, <1>5 DEF TypeOK, ProcessBlock, orphans
<1>6. ASSUME NEW b \in Block \ {Genesis}, ProcessOrphanBlock(b) PROVE TypeOK'
  <2>1. PICK S \in PrunedOrphans(mapOrphanBlocks) : mapOrphanBlocks' = S \cup {b}
    BY <1>6 DEF ProcessOrphanBlock
  <2>2. S \subseteq mapOrphanBlocks
    BY <2>1 DEF PrunedOrphans
  <2>3. setStakeSeenOrphan' \subseteq Stakes
    BY <1>1, <1>3, <1>6 DEF TypeOK, ProcessOrphanBlock
  <2> QED BY <1>1, <1>6, <2>1, <2>2, <2>3 DEF TypeOK, ProcessOrphanBlock, memory
<1>7. ASSUME NEW b \in Block \ {Genesis}, ProcessOrphanChild(b) PROVE TypeOK'
  <2>1. mapOrphanBlocks' \subseteq Block /\ setStakeSeenOrphan' \subseteq Stakes
        /\ vWorkQueue' \in Seq(Block)
    BY <1>1, <1>7 DEF TypeOK, ProcessOrphanChild
  <2>2. CASE WriteToDisk(b)
    BY <1>4, <2>1, <2>2 DEF TypeOK
  <2>3. CASE UNCHANGED <<memory, mempool, disk, batch, phase, cur, tip, vResurrect>>
    BY <1>1, <2>1, <2>3 DEF TypeOK, memory
  <2> QED BY <1>7, <2>2, <2>3 DEF ProcessOrphanChild
<1>8. ASSUME NextInWorkQueue PROVE TypeOK'
  BY <1>1, <1>8 DEF TypeOK, NextInWorkQueue, memory, orphans, Phases
<1>9. ASSUME DisconnectBlock PROVE TypeOK'
  <2>1. tip # Genesis
    BY <1>1, <1>9, AncBasic DEF ChainInv, TipOnTheWay, DisconnectBlock, TypeOK
  <2>2. batch' \in Views /\ tip' \in Block
    BY <1>1, <1>9, <2>1, ViewTypes, Parent DEF TypeOK, DisconnectBlock
  <2> QED BY <1>1, <1>9, <2>2 DEF TypeOK, DisconnectBlock, memory, orphans, Phases
<1>10. ASSUME ConnectBlock PROVE TypeOK'
  <2>1. NextToConnect \in Block \ {Genesis}
    BY <1>1, <1>10, NextToConnectOK, AncBasic DEF ConnectBlock, TypeOK
  <2>2. batch' \in Views /\ tip' \in Block
    BY <1>1, <1>10, <2>1, ViewTypes DEF TypeOK, ConnectBlock
  <2> QED BY <1>1, <1>10, <2>2 DEF TypeOK, ConnectBlock, memory, orphans
<1>11. ASSUME SetBestChainInner PROVE TypeOK'
  <2>1. batch' \in Views /\ mempool' \in Pools
    BY <1>1, <1>11, ViewTypes, PoolTypes DEF TypeOK, SetBestChainInner
  <2> QED BY <1>1, <1>11, <2>1 DEF TypeOK, SetBestChainInner, orphans, Phases
<1>12. ASSUME Reorganize PROVE TypeOK'
  <2>1. batch' \in Views
    BY <1>1, <1>12, ViewTypes DEF TypeOK, Reorganize
  <2>2. Anc[cur] \subseteq Block /\ Anc[pindexBest] \subseteq Block
    BY <1>1, AncBasic DEF TypeOK
  <2>3. ASSUME NEW b \in Block PROVE Relinked[b] \in Block \cup {NoBlock}
    <3>1. CASE \E c \in vConnect : Prev[c] = b
      BY <2>2, <3>1 DEF Relinked, vConnect
    <3>2. CASE ~\E c \in vConnect : Prev[c] = b
      BY <1>1, <3>2 DEF Relinked, TypeOK
    <3> QED BY <3>1, <3>2
  <2>4. pnext' \in [Block -> Block \cup {NoBlock}]
    BY <1>12, <2>3 DEF Reorganize, Relinked
  <2>5. vResurrect' \subseteq TxPlaces(Block)
    BY <1>12, <2>2 DEF Reorganize, vDisconnect, TxPlaces
  <2> QED BY <1>1, <1>12, <2>1, <2>4, <2>5 DEF TypeOK, Reorganize, orphans, Phases
<1>13. ASSUME ResurrectTransaction PROVE TypeOK'
  <2>1. PICK x \in vResurrect : /\ mempool' = Accepted(mempool, disk, pindexBest, Vtx[x[1]][x[2]])
                                /\ vResurrect' = vResurrect \ {x}
    BY <1>13 DEF ResurrectTransaction
  <2>2. mempool' \in Pools
    <3>1. \/ mempool' = mempool
          \/ mempool' = addUnchecked(mempool, Vtx[x[1]][x[2]])
      BY <2>1 DEF Accepted
    <3>2. Vtx[x[1]][x[2]] \in Tx
      BY <1>1, TxAssumption DEF TypeOK, TxPlaces
    <3> QED BY <1>1, <3>1, <3>2, PoolTypes DEF TypeOK
  <2> QED BY <1>1, <1>13, <2>1, <2>2 DEF TypeOK, ResurrectTransaction, memory, orphans
<1>14. ASSUME SetBestChain PROVE TypeOK'
  <2>1. mempool' \in Pools
    BY <1>1, <1>14, PoolTypes DEF TypeOK, SetBestChain, removeConflicts
  <2> QED BY <1>1, <1>14, <2>1 DEF TypeOK, SetBestChain, orphans, Phases
<1>15. ASSUME TxnCommit PROVE TypeOK'
  BY <1>1, <1>15 DEF TypeOK, TxnCommit, memory, orphans, Phases
<1>16. ASSUME TxnAbort PROVE TypeOK'
  BY <1>1, <1>16 DEF TypeOK, TxnAbort, memory, orphans, Phases
<1>17. ASSUME NEW t \in Loose, AcceptTransaction(t) PROVE TypeOK'
  <2>1. mempool' \in Pools
    BY <1>1, <1>17, PoolTypes, ChainAssumption DEF TypeOK, AcceptTransaction
  <2> QED BY <1>1, <1>17, <2>1 DEF TypeOK, AcceptTransaction, memory, orphans
<1>18. ASSUME LoadBlockIndex PROVE TypeOK'
  <2>1. setStakeSeen' \subseteq Stakes
    BY <1>1, <1>3, <1>18 DEF TypeOK, LoadBlockIndex, Views
  <2> QED BY <1>1, <1>18, <2>1, PoolTypes DEF TypeOK, LoadBlockIndex, Views, Phases
<1>19. CASE UNCHANGED vars
  BY <1>1, <1>19 DEF TypeOK, vars, memory, orphans
<1> QED
  BY <1>5, <1>6, <1>7, <1>8, <1>9, <1>10, <1>11, <1>12, <1>13, <1>14, <1>15, <1>16, <1>17,
     <1>18, <1>19 DEF Next, Receive, Handler

-----------------------------------------------------------------------------
(* ChainInv is inductive.                                                   *)

\* The database of a new node describes the chain of the genesis block.
LEMMA ChainInvInit == Init => ChainInv
<1> SUFFICES ASSUME Init PROVE ChainInv
  OBVIOUS
<1>1. Genesis \in Block
  BY TreeAssumption
<1>2. TypeOK
  <2>1. EmptyPool \in Pools
    BY DEF EmptyPool, Pools
  <2> QED BY <1>1, <2>1, GenesisViewType DEF Init, TypeOK, Phases
<1>3. Describes(disk, disk.best)
  BY DescribesGenesis DEF Init, GenesisView
<1>4. BatchDescribesTip /\ MemoryFollows /\ TipOnTheWay /\ IndexCoversDisk
  BY DEF Init, BatchDescribesTip, Working, MemoryFollows, TipOnTheWay, IndexCoversDisk, GenesisView
<1> QED BY <1>2, <1>3, <1>4 DEF ChainInv

\* AcceptBlock opens the batch: the block is new, so the batch still describes the
\* best chain.
LEMMA WriteToDiskStep ==
    ASSUME ChainInv, phase \in {"idle", "orphans"},
           NEW b \in Block \ {Genesis}, AcceptBlockChecks(b), WriteToDisk(b), TypeOK'
    PROVE  ChainInv'
<1>1. /\ TypeOK /\ b \notin disk.blocks /\ pindexBest = disk.best /\ pnext = disk.next
      /\ Describes(disk, disk.best) /\ disk.best \in Block /\ disk \in Views
  BY DEF ChainInv, MemoryFollows, IndexCoversDisk, AcceptBlockChecks, TypeOK, Views
<1>2. Describes(batch', disk.best) /\ batch'.next = disk.next
  BY <1>1, DescribesNew DEF WriteToDisk
<1>3. batch'.blocks = disk.blocks \cup {b} /\ batch'.best = disk.best
  BY <1>1 DEF WriteToDisk, WithNewBlock, Views
<1>4. Describes(disk', disk'.best)
  BY <1>1 DEF WriteToDisk
<1>5. BatchDescribesTip'
  BY <1>1, <1>2 DEF WriteToDisk, BatchDescribesTip
<1>6. MemoryFollows'
  BY <1>1, <1>2, <1>3 DEF WriteToDisk, MemoryFollows
<1>7. TipOnTheWay'
  BY <1>1, AncBasic DEF WriteToDisk, TipOnTheWay
<1>8. IndexCoversDisk'
  BY <1>3 DEF ChainInv, WriteToDisk, IndexCoversDisk
<1> QED BY <1>4, <1>5, <1>6, <1>7, <1>8 DEF ChainInv

\* The batch after one block less describes the shorter chain.
LEMMA DisconnectStep == ASSUME ChainInv, DisconnectBlock, TypeOK' PROVE ChainInv'
<1>1. /\ TypeOK /\ batch \in Views /\ tip \in Block /\ cur \in Block /\ pindexBest \in Block
      /\ tip \in Anc[pindexBest] \ Anc[cur] /\ Anc[pindexBest] \cap Anc[cur] \subseteq Anc[tip]
      /\ cur # Genesis /\ Describes(batch, tip)
  BY DEF ChainInv, TypeOK, TipOnTheWay, BatchDescribesTip, Working, DisconnectBlock
<1>2. tip # Genesis
  BY <1>1, AncBasic
<1>3. Describes(batch', tip') /\ batch'.blocks = batch.blocks
  BY <1>1, <1>2, DescribesDisconnect DEF DisconnectBlock, Disconnected, Views
<1>4. Prev[tip] \in Anc[pindexBest] /\ Anc[tip] = Anc[Prev[tip]] \cup {tip}
  BY <1>1, <1>2, AncTrans, Parent
<1>5. Describes(disk', disk'.best)
  BY DEF ChainInv, DisconnectBlock
<1>6. BatchDescribesTip'
  BY <1>1, <1>3 DEF BatchDescribesTip, DisconnectBlock
<1>7. MemoryFollows'
  BY DEF ChainInv, MemoryFollows, DisconnectBlock, memory
<1>8. TipOnTheWay'
  BY <1>1, <1>4 DEF TipOnTheWay, DisconnectBlock, memory
<1>9. IndexCoversDisk'
  BY <1>3 DEF ChainInv, IndexCoversDisk, DisconnectBlock, memory
<1> QED BY <1>5, <1>6, <1>7, <1>8, <1>9 DEF ChainInv

\* The block is above the fork, so that its pnext in memory is null.
LEMMA ConnectStep == ASSUME ChainInv, ConnectBlock, TypeOK' PROVE ChainInv'
<1> DEFINE c == NextToConnect
<1>1. /\ TypeOK /\ batch \in Views /\ tip \in Block /\ cur \in Block /\ pindexBest \in Block
      /\ tip \in Anc[cur] /\ Anc[pindexBest] \cap Anc[cur] \subseteq Anc[tip]
      /\ cur # Genesis /\ Describes(batch, tip) /\ Describes(disk, disk.best)
      /\ pindexBest = disk.best /\ pnext = disk.next
      /\ pnext \in [Block -> Block \cup {NoBlock}]
  BY DEF ChainInv, TypeOK, TipOnTheWay, BatchDescribesTip, MemoryFollows, Working, ConnectBlock
<1>2. c \in Anc[cur] \ {Genesis} /\ Prev[c] = tip /\ c \in Block
  BY <1>1, NextToConnectOK, AncBasic DEF ConnectBlock
<1>3. c \in batch.blocks /\ CanConnect(batch, c)
  BY DEF ConnectBlock, StepFails
<1>4. c \notin Anc[tip] /\ Anc[c] = Anc[tip] \cup {c}
  BY <1>2, Parent
<1>5. pnext[c] = NoBlock
  <2>1. c \notin Anc[pindexBest]
    BY <1>1, <1>2, <1>4
  <2> QED BY <1>1, <1>2, <2>1, OutsideUnlinked DEF Describes
<1> HIDE DEF c
<1>6. Describes(Connected(batch, c, pnext), c)
  BY <1>1, <1>2, <1>3, <1>5, DescribesConnect
<1>7. Describes(batch', tip') /\ tip' = c /\ batch'.blocks = batch.blocks
  BY <1>1, <1>6 DEF ConnectBlock, Connected, Views, c
<1>8. Describes(disk', disk'.best)
  BY DEF ChainInv, ConnectBlock
<1>9. BatchDescribesTip'
  BY <1>1, <1>7 DEF BatchDescribesTip, ConnectBlock
<1>10. MemoryFollows'
  BY DEF ChainInv, MemoryFollows, ConnectBlock, memory
<1>11. TipOnTheWay'
  BY <1>1, <1>2, <1>4, <1>7 DEF TipOnTheWay, ConnectBlock, memory
<1>12. IndexCoversDisk'
  BY <1>7 DEF ChainInv, IndexCoversDisk, ConnectBlock, memory
<1> QED BY <1>8, <1>9, <1>10, <1>11, <1>12 DEF ChainInv

\* When the whole branch is connected the batch describes the chain of cur.
LEMMA InnerStep == ASSUME ChainInv, SetBestChainInner, TypeOK' PROVE ChainInv'
<1>1. /\ TypeOK /\ batch \in Views /\ cur \in Block /\ tip = cur /\ cur # Genesis
      /\ Prev[cur] = disk.best /\ pnext = disk.next /\ pnext \in [Block -> Block \cup {NoBlock}]
      /\ Describes(batch, cur) /\ Describes(disk, disk.best) /\ disk.best \in Block
  BY DEF ChainInv, TypeOK, BatchDescribesTip, MemoryFollows, Working, SetBestChainInner, Views
<1>2. Describes(batch', cur) /\ batch'.best = cur /\ batch'.next = batch.next
      /\ batch'.blocks = batch.blocks
  BY <1>1, DescribesBest DEF SetBestChainInner, WithBest, Views
<1>3. pnext' = batch'.next
  <2>1. cur \notin Anc[disk.best]
    BY <1>1, Parent
  <2>2. pnext[cur] = NoBlock
    BY <1>1, <2>1, OutsideUnlinked DEF Describes
  <2>3. LinksOK([pnext EXCEPT ![cur] = NoBlock, ![Prev[cur]] = cur], cur)
    BY <1>1, ConnectLinks DEF Describes
  <2>4. [pnext EXCEPT ![cur] = NoBlock, ![Prev[cur]] = cur] = pnext'
    BY <1>1, <2>2 DEF SetBestChainInner
  <2>5. LinksOK(pnext', cur) /\ pnext' \in [Block -> Block \cup {NoBlock}]
    BY <2>3, <2>4 DEF TypeOK
  <2>6. LinksOK(batch.next, cur) /\ batch.next \in [Block -> Block \cup {NoBlock}]
    BY <1>1 DEF Describes, Views
  <2> QED BY <1>1, <1>2, <2>5, <2>6, LinksUnique
<1>4. Describes(disk', disk'.best)
  BY DEF ChainInv, SetBestChainInner
<1>5. BatchDescribesTip'
  BY <1>1, <1>2 DEF BatchDescribesTip, SetBestChainInner
<1>6. MemoryFollows'
  BY <1>1, <1>2, <1>3 DEF MemoryFollows, SetBestChainInner
<1>7. TipOnTheWay'
  BY DEF TipOnTheWay, SetBestChainInner
<1>8. IndexCoversDisk'
  BY <1>2 DEF ChainInv, IndexCoversDisk, SetBestChainInner
<1> QED BY <1>4, <1>5, <1>6, <1>7, <1>8 DEF ChainInv

\* The relinked pointers are the links of the new chain: both branches hang on the
\* fork, below which the old links stay.
LEMMA RelinkedOK ==
    ASSUME cur \in Block, pindexBest \in Block, pnext \in [Block -> Block \cup {NoBlock}],
           LinksOK(pnext, pindexBest)
    PROVE  LinksOK(Relinked, cur)
<1>1. /\ Anc[cur] \subseteq Block /\ Anc[pindexBest] \subseteq Block
      /\ Genesis \in Anc[cur] /\ Genesis \in Anc[pindexBest] /\ NoBlock \notin Block
  BY AncBasic, TreeAssumption
<1>2. ASSUME NEW c \in Anc[cur] \ {Genesis} PROVE Relinked[Prev[c]] = c
  <2>1. Prev[c] \in Block
    BY <1>1, Parent
  <2>2. \A d \in vConnect : Prev[d] = Prev[c] => d = c
    BY <1>1, OneChild DEF vConnect
  <2>3. CASE c \in vConnect
    <3>1. (CHOOSE d \in vConnect : Prev[d] = Prev[c]) = c
      BY <2>2, <2>3
    <3> QED BY <2>1, <2>3, <3>1 DEF Relinked
  <2>4. CASE c \in Anc[pindexBest]
    <3>1. ~\E d \in vConnect : Prev[d] = Prev[c]
      BY <2>2, <2>4 DEF vConnect
    <3>2. ~\E d \in vDisconnect : Prev[d] = Prev[c]
      BY <1>1, <2>4, OneChild DEF vDisconnect
    <3>3. pnext[Prev[c]] = c
      BY <2>4 DEF LinksOK
    <3> QED BY <2>1, <3>1, <3>2, <3>3 DEF Relinked
  <2> QED BY <2>3, <2>4 DEF vConnect
<1>3. ASSUME NEW b \in Block, Relinked[b] # NoBlock
      PROVE  Relinked[b] \in Anc[cur] \ {Genesis} /\ Prev[Relinked[b]] = b
  <2>1. CASE \E c \in vConnect : Prev[c] = b
    <3>1. Relinked[b] \in vConnect /\ Prev[Relinked[b]] = b
      BY <2>1 DEF Relinked
    <3> QED BY <1>1, <3>1 DEF vConnect
  <2>2. CASE ~\E c \in vConnect : Prev[c] = b
    <3>1. Relinked[b] = pnext[b] /\ ~\E d \in vDisconnect : Prev[d] = b
      BY <1>3, <2>2 DEF Relinked
    <3>2. pnext[b] \in Anc[pindexBest] \ {Genesis} /\ Prev[pnext[b]] = b
      BY <1>3, <3>1 DEF LinksOK
    <3> QED BY <3>1, <3>2 DEF vDisconnect
  <2> QED BY <2>1, <2>2
<1> QED BY <1>2, <1>3 DEF LinksOK

\* When the new branch is connected the relinked pointers are those of the batch.
LEMMA ReorganizeStep == ASSUME ChainInv, Reorganize, TypeOK' PROVE ChainInv'
<1>1. /\ TypeOK /\ batch \in Views /\ cur \in Block /\ tip = cur /\ cur # Genesis
      /\ pindexBest = disk.best /\ pnext = disk.next /\ pindexBest \in Block
      /\ pnext \in [Block -> Block \cup {NoBlock}]
      /\ Describes(batch, cur) /\ Describes(disk, disk.best)
  BY DEF ChainInv, TypeOK, BatchDescribesTip, MemoryFollows, Working, Reorganize
<1>2. Describes(batch', cur) /\ batch'.best = cur /\ batch'.next = batch.next
      /\ batch'.blocks = batch.blocks
  BY <1>1, DescribesBest DEF Reorganize, WithBest, Views
<1>3. pnext' = batch'.next
  <2>1. LinksOK(pnext', cur)
    BY <1>1, RelinkedOK DEF Reorganize, Describes
  <2>2. pnext' \in [Block -> Block \cup {NoBlock}]
    BY DEF TypeOK
  <2>3. LinksOK(batch.next, cur) /\ batch.next \in [Block -> Block \cup {NoBlock}]
    BY <1>1 DEF Describes, Views
  <2> QED BY <1>1, <1>2, <2>1, <2>2, <2>3, LinksUnique
<1>4. Describes(disk', disk'.best)
  BY DEF ChainInv, Reorganize
<1>5. BatchDescribesTip'
  BY <1>1, <1>2 DEF BatchDescribesTip, Reorganize
<1>6. MemoryFollows'
  BY <1>1, <1>2, <1>3 DEF MemoryFollows, Reorganize
<1>7. TipOnTheWay'
  BY DEF TipOnTheWay, Reorganize
<1>8. IndexCoversDisk'
  BY <1>2 DEF ChainInv, IndexCoversDisk, Reorganize
<1> QED BY <1>4, <1>5, <1>6, <1>7, <1>8 DEF ChainInv

\* Every step keeps ChainInv.
LEMMA ChainInvStep == ChainInv /\ [Next]_vars => ChainInv'
<1> SUFFICES ASSUME ChainInv, [Next]_vars PROVE ChainInv'
  OBVIOUS
<1> USE DEF ChainInv, BatchDescribesTip, Working, MemoryFollows, TipOnTheWay, IndexCoversDisk
<1>1. TypeOK'
  BY TypeStep
<1>2. ASSUME NEW b \in Block \ {Genesis}, ProcessBlock(b) PROVE ChainInv'
  BY <1>1, <1>2, WriteToDiskStep DEF ProcessBlock
<1>3. ASSUME NEW b \in Block \ {Genesis}, ProcessOrphanBlock(b) PROVE ChainInv'
  BY <1>1, <1>3 DEF ProcessOrphanBlock, memory
<1>4. ASSUME NEW b \in Block \ {Genesis}, ProcessOrphanChild(b) PROVE ChainInv'
  <2>1. CASE AcceptBlockChecks(b)
    BY <1>1, <1>4, <2>1, WriteToDiskStep DEF ProcessOrphanChild
  <2>2. CASE ~AcceptBlockChecks(b)
    BY <1>1, <1>4, <2>2 DEF ProcessOrphanChild, memory
  <2> QED BY <2>1, <2>2
<1>5. ASSUME NextInWorkQueue PROVE ChainInv'
  BY <1>1, <1>5 DEF NextInWorkQueue, memory
<1>6. ASSUME DisconnectBlock PROVE ChainInv'
  BY <1>1, <1>6, DisconnectStep
<1>7. ASSUME ConnectBlock PROVE ChainInv'
  BY <1>1, <1>7, ConnectStep
<1>8. ASSUME SetBestChainInner PROVE ChainInv'
  BY <1>1, <1>8, InnerStep
<1>9. ASSUME Reorganize PROVE ChainInv'
  BY <1>1, <1>9, ReorganizeStep
<1>10. ASSUME ResurrectTransaction PROVE ChainInv'
  BY <1>1, <1>10 DEF ResurrectTransaction, memory
<1>11. ASSUME SetBestChain PROVE ChainInv'
  BY <1>1, <1>11 DEF SetBestChain
<1>12. ASSUME TxnCommit PROVE ChainInv'
  BY <1>1, <1>12 DEF TxnCommit, memory
<1>13. ASSUME TxnAbort PROVE ChainInv'
  BY <1>1, <1>13 DEF TxnAbort, memory
<1>14. ASSUME NEW t \in Loose, AcceptTransaction(t) PROVE ChainInv'
  BY <1>1, <1>14 DEF AcceptTransaction, memory
<1>15. ASSUME LoadBlockIndex PROVE ChainInv'
  BY <1>1, <1>15 DEF LoadBlockIndex
<1>16. CASE UNCHANGED vars
  BY <1>1, <1>16 DEF vars, memory, orphans
<1> QED
  BY <1>2, <1>3, <1>4, <1>5, <1>6, <1>7, <1>8, <1>9, <1>10, <1>11, <1>12, <1>13, <1>14, <1>15,
     <1>16 DEF Next, Receive, Handler

\* The inductive invariant of the block chain holds for every block tree.
THEOREM ChainInvHolds == Spec => []ChainInv
  BY ChainInvInit, ChainInvStep, PTL DEF Spec

\* The committed transaction index is the replay of the committed best chain at
\* every moment the process may die, for every tree of blocks and transactions.
THEOREM DiskIsAlwaysLedger == Spec => []DiskIsLedger
<1>1. ChainInv => DiskIsLedger
  BY DEF ChainInv, Describes, DiskIsLedger
<1> QED BY ChainInvHolds, <1>1, PTL

\* The committed hashNext records thread the committed best chain over stored blocks.
THEOREM DiskAlwaysLinked == Spec => []DiskLinksBestChain
<1>1. ChainInv => DiskLinksBestChain
  BY DEF ChainInv, Describes, DiskLinksBestChain
<1> QED BY ChainInvHolds, <1>1, PTL

\* No chain with a double spend, a spend of an output that does not exist or of an
\* immature one is ever committed as the best chain.
THEOREM BestChainAlwaysValid == Spec => []BestChainIsValid
<1>1. ChainInv => BestChainIsValid
  BY DEF ChainInv, Describes, BestChainIsValid
<1> QED BY ChainInvHolds, <1>1, PTL

\* Between two handlers memory and database agree on the best chain.
THEOREM MemoryAlwaysDisk == Spec => []MemoryIsDisk
<1>1. ChainInv => MemoryIsDisk
  BY DEF ChainInv, MemoryFollows, IndexCoversDisk, MemoryIsDisk
<1> QED BY ChainInvHolds, <1>1, PTL

\* Every variable keeps its type.
THEOREM ChainTypes == Spec => []TypeOK
<1>1. ChainInv => TypeOK
  BY DEF ChainInv
<1> QED BY ChainInvHolds, <1>1, PTL

-----------------------------------------------------------------------------
(* Trust.                                                                   *)

\* The parent of a block that AcceptBlock takes is stored.
LEMMA ParentIsStored ==
    ASSUME ChainInv, phase \in {"idle", "orphans"}, NEW b \in Block \ {Genesis},
           AcceptBlockChecks(b)
    PROVE  Prev[b] \in disk.blocks
<1>1. /\ pindexBest \in Block /\ LinksOK(pnext, pindexBest) /\ Anc[pindexBest] \subseteq disk.blocks
      /\ pnext \in [Block -> Block \cup {NoBlock}] /\ NoBlock \notin Block /\ Genesis \in Block
  BY TreeAssumption DEF ChainInv, TypeOK, MemoryFollows, Describes
<1>2. IsInMainChain(pnext, pindexBest, Genesis)
  BY <1>1, MainChainOfLinks
<1>3. ASSUME NEW c \in Block, IsInMainChain(pnext, pindexBest, c) PROVE Anc[c] \subseteq disk.blocks
  <2>1. c \in Anc[pindexBest]
    BY <1>1, <1>3, MainChainOfLinks
  <2> QED BY <1>1, <2>1, AncTrans
<1> QED BY <1>2, <1>3, VerifiedParentStored DEF AcceptBlockChecks

\* TrustInv holds initially.
LEMMA TrustInit == Init => TrustInv
<1> SUFFICES ASSUME Init PROVE TrustInv
  OBVIOUS
<1>1. ChainTrust[Genesis] \in Nat
  BY TreeAssumption
<1>2. BestIsHeaviest
  BY <1>1 DEF Init, GenesisView, BestIsHeaviest
<1> QED BY <1>2 DEF Init, TrustInv, NothingPostponed, Working

\* A new block is heavier than the best block only when it is about to be connected.
LEMMA TrustWrite ==
    ASSUME ChainInv, TrustInv, phase \in {"idle", "orphans"},
           NEW b \in Block \ {Genesis}, AcceptBlockChecks(b), WriteToDisk(b)
    PROVE  TrustInv'
<1>1. /\ \A c \in Block : ChainTrust[c] \in Nat
      /\ disk \in Views /\ disk.best \in Block /\ disk.blocks \subseteq Block
      /\ pindexBest = disk.best
  BY TreeAssumption DEF ChainInv, TypeOK, Views, MemoryFollows
<1>2. batch'.blocks = disk.blocks \cup {b} /\ batch'.best = disk.best
  BY <1>1 DEF WriteToDisk, WithNewBlock, Views
<1>3. Prev[b] \in disk.blocks
  BY ParentIsStored
<1>4. BestIsHeaviest' /\ NothingPostponed'
  BY <1>1, <1>3 DEF TrustInv, BestIsHeaviest, NothingPostponed, WriteToDisk
<1>5. ASSUME ChainTrust[b] <= ChainTrust[pindexBest]
      PROVE  \A c \in batch'.blocks : ChainTrust[c] <= ChainTrust[batch'.best]
  BY <1>1, <1>2, <1>5 DEF TrustInv, BestIsHeaviest
<1>6. ~(ChainTrust[b] <= ChainTrust[pindexBest]) => ChainTrust[b] > ChainTrust[pindexBest]
  BY <1>1
<1> QED BY <1>1, <1>2, <1>4, <1>5, <1>6 DEF TrustInv, Working, WriteToDisk

\* Every step keeps TrustInv.
LEMMA TrustStep == ChainInv /\ TrustInv /\ [Next]_vars => TrustInv'
<1> SUFFICES ASSUME ChainInv, TrustInv, [Next]_vars PROVE TrustInv'
  OBVIOUS
<1> USE DEF TrustInv, BestIsHeaviest, NothingPostponed, Working
<1>1. /\ \A c \in Block : ChainTrust[c] \in Nat
      /\ disk \in Views /\ disk.best \in Block /\ disk.blocks \subseteq Block /\ cur \in Block
      /\ batch \in Views /\ pindexBest \in Block
  BY TreeAssumption DEF ChainInv, TypeOK, Views
<1>2. ASSUME NEW b \in Block \ {Genesis}, ProcessBlock(b) PROVE TrustInv'
  BY <1>2, TrustWrite DEF ProcessBlock
<1>3. ASSUME NEW b \in Block \ {Genesis}, ProcessOrphanBlock(b) PROVE TrustInv'
  BY <1>3 DEF ProcessOrphanBlock, memory
<1>4. ASSUME NEW b \in Block \ {Genesis}, ProcessOrphanChild(b) PROVE TrustInv'
  <2>1. CASE AcceptBlockChecks(b)
    BY <1>4, <2>1, TrustWrite DEF ProcessOrphanChild
  <2>2. CASE ~AcceptBlockChecks(b)
    BY <1>4, <2>2 DEF ProcessOrphanChild, memory
  <2> QED BY <2>1, <2>2
<1>5. ASSUME NextInWorkQueue PROVE TrustInv'
  BY <1>5 DEF NextInWorkQueue, memory
<1>6. ASSUME DisconnectBlock PROVE TrustInv'
  <2>1. batch'.blocks = batch.blocks
    BY <1>1, <1>6 DEF DisconnectBlock, Disconnected, Views
  <2> QED BY <1>6, <2>1 DEF DisconnectBlock, memory
<1>7. ASSUME ConnectBlock PROVE TrustInv'
  <2>1. batch'.blocks = batch.blocks
    BY <1>1, <1>7 DEF ConnectBlock, Connected, Views
  <2> QED BY <1>7, <2>1 DEF ConnectBlock, memory
<1>8. ASSUME SetBestChainInner PROVE TrustInv'
  <2>1. batch'.blocks = batch.blocks /\ batch'.best = cur
    BY <1>1, <1>8 DEF SetBestChainInner, WithBest, Views
  <2>2. \A b \in disk.blocks \cup {cur} : ChainTrust[b] <= ChainTrust[cur]
    BY <1>1, <1>8 DEF SetBestChainInner, ChainInv, MemoryFollows
  <2> QED BY <1>8, <2>1, <2>2 DEF SetBestChainInner
<1>9. ASSUME Reorganize PROVE TrustInv'
  <2>1. batch'.blocks = batch.blocks
    BY <1>1, <1>9 DEF Reorganize, WithBest, Views
  <2> QED BY <1>9, <2>1 DEF Reorganize
<1>10. ASSUME ResurrectTransaction PROVE TrustInv'
  BY <1>10 DEF ResurrectTransaction, memory
<1>11. ASSUME SetBestChain PROVE TrustInv'
  <2>1. \A b \in disk.blocks \cup {cur} : ChainTrust[b] <= ChainTrust[cur]
    BY <1>1, <1>11 DEF SetBestChain, ChainInv, MemoryFollows
  <2> QED BY <1>11, <2>1 DEF SetBestChain, ChainInv, MemoryFollows
<1>12. ASSUME TxnCommit PROVE TrustInv'
  BY <1>12 DEF TxnCommit, memory
<1>13. ASSUME TxnAbort PROVE TrustInv'
  BY <1>13 DEF TxnAbort, memory
<1>14. ASSUME NEW t \in Loose, AcceptTransaction(t) PROVE TrustInv'
  BY <1>14 DEF AcceptTransaction, memory
<1>15. ASSUME LoadBlockIndex PROVE TrustInv'
  BY <1>15 DEF LoadBlockIndex
<1>16. CASE UNCHANGED vars
  BY <1>16 DEF vars, memory, orphans
<1> QED
  BY <1>2, <1>3, <1>4, <1>5, <1>6, <1>7, <1>8, <1>9, <1>10, <1>11, <1>12, <1>13, <1>14, <1>15,
     <1>16 DEF Next, Receive, Handler

\* No stored block is heavier than the committed best block.
THEOREM BestAlwaysHeaviest == Spec => []BestIsHeaviest
<1>1. TrustInv => BestIsHeaviest
  BY DEF TrustInv
<1> QED BY ChainInvHolds, TrustInit, TrustStep, <1>1, PTL DEF Spec

-----------------------------------------------------------------------------
(* The memory pool stays consistent and holds no confirmed transaction,     *)
(* through every acceptance, reorganisation, resurrection, failed write and *)
(* restart.  PoolInv is inductive relative to ChainInv.                     *)

\* What a new best chain confirms was confirmed by the old one or is in one of the
\* blocks that were connected.
LEMMA ConfirmedByConnected ==
    ASSUME ChainInv, phase \in {"connect", "resurrect"}, tip = cur,
           NEW t \in Tx, ReadTxIndex(batch, t), ~ReadTxIndex(disk, t)
    PROVE  \E c \in vConnect : t \in TxsOf(c)
<1> DEFINE c == batch.txpos[t]
<1>1. LedgerOK(batch, cur) /\ LedgerOK(disk, pindexBest) /\ pindexBest \in Block /\ cur \in Block
  BY DEF ChainInv, TypeOK, Describes, BatchDescribesTip, Working, MemoryFollows
<1>2. c \in Anc[cur] /\ t \in TxsOf(c)
  BY <1>1 DEF LedgerOK, ReadTxIndex
<1>3. c \notin Anc[pindexBest]
  <2> SUFFICES ASSUME c \in Anc[pindexBest] PROVE FALSE
    OBVIOUS
  <2>1. disk.txpos[t] = c /\ c \in Block
    BY <1>1, <1>2, AncBasic DEF LedgerOK
  <2> QED BY <2>1, TreeAssumption DEF ReadTxIndex
<1> QED BY <1>2, <1>3 DEF vConnect

\* PoolInv holds initially.
LEMMA PoolInit == Init => PoolInv
<1> SUFFICES ASSUME Init PROVE PoolInv
  OBVIOUS
<1>1. PoolIsConsistent
  BY EmptyConsistent DEF Init, PoolIsConsistent
<1> QED BY <1>1 DEF Init, PoolInv, EmptyPool

\* AcceptBlock touches neither the pool nor the transaction index when it opens the
\* batch.
LEMMA PoolWrite ==
    ASSUME ChainInv, PoolInv, phase \in {"idle", "orphans"},
           NEW b \in Block \ {Genesis}, WriteToDisk(b)
    PROVE  PoolInv'
<1>1. batch'.txpos = disk.txpos
  BY DEF ChainInv, TypeOK, WriteToDisk, WithNewBlock, Views
<1> QED BY <1>1 DEF WriteToDisk, PoolInv, PoolIsConsistent, ReadTxIndex

\* The block extends the best chain: its transactions leave the pool.
LEMMA PoolInner == ASSUME ChainInv, PoolInv, SetBestChainInner PROVE PoolInv'
<1>1. /\ mempool \in Pools /\ batch'.txpos = batch.txpos /\ phase = "connect" /\ tip = cur
      /\ cur \in Block /\ cur # Genesis /\ Prev[cur] = pindexBest
  BY DEF ChainInv, TypeOK, BatchDescribesTip, Working, SetBestChainInner, WithBest, Views
<1>2. PoolIsConsistent'
  BY <1>1, RemoveConsistent DEF PoolInv, PoolIsConsistent, SetBestChainInner
<1>3. ASSUME NEW t \in mempool'.mapTx PROVE ~ReadTxIndex(batch', t)
  <2>1. t \in mempool.mapTx \ TxsOf(cur) /\ t \in Tx
    BY <1>1, <1>3 DEF SetBestChainInner, removeAll, Pools
  <2>2. ~ReadTxIndex(disk, t)
    BY <1>1, <2>1 DEF PoolInv
  <2>3. vConnect = {cur}
    BY <1>1, Parent DEF vConnect
  <2>4. ~ReadTxIndex(batch, t)
    BY <1>1, <2>1, <2>2, <2>3, ConfirmedByConnected
  <2> QED BY <1>1, <2>4 DEF ReadTxIndex
<1> QED BY <1>2, <1>3 DEF PoolInv, SetBestChainInner

\* A reorganisation: the transactions of the new branch leave the pool.
LEMMA PoolReorganized == ASSUME ChainInv, PoolInv, SetBestChain PROVE PoolInv'
<1> DEFINE vDelete == UNION { TxsOf(c) : c \in vConnect }
           p == removeAll(mempool, vDelete)
<1>1. mempool \in Pools /\ phase = "resurrect" /\ tip = cur /\ batch' = batch
  BY DEF ChainInv, TypeOK, MemoryFollows, SetBestChain
<1>2. p \in Pools /\ PoolConsistent(p)
  BY <1>1, PoolTypes, RemoveConsistent DEF PoolInv, PoolIsConsistent
<1>3. mempool' = removeConflicts(p, vDelete)
  BY DEF SetBestChain
<1>4. p.mapTx = mempool.mapTx \ vDelete
  BY DEF removeAll
<1> HIDE DEF p
<1>5. PoolIsConsistent'
  BY <1>2, <1>3, RemoveConsistent DEF removeConflicts, PoolIsConsistent
<1>6. mempool'.mapTx \subseteq p.mapTx
  BY <1>3 DEF removeConflicts, removeAll
<1>7. ASSUME NEW t \in mempool'.mapTx PROVE ~ReadTxIndex(batch', t)
  <2>1. t \in mempool.mapTx \ vDelete /\ t \in Tx
    BY <1>1, <1>4, <1>6, <1>7 DEF Pools
  <2>2. ~ReadTxIndex(disk, t)
    BY <1>1, <2>1 DEF PoolInv
  <2>3. ~ReadTxIndex(batch, t)
    BY <1>1, <2>1, <2>2, ConfirmedByConnected
  <2> QED BY <1>1, <2>3
<1> QED BY <1>5, <1>7 DEF PoolInv, SetBestChain

\* Every step keeps PoolInv.
LEMMA PoolStep == ChainInv /\ PoolInv /\ [Next]_vars => PoolInv'
<1> SUFFICES ASSUME ChainInv, PoolInv, [Next]_vars PROVE PoolInv'
  OBVIOUS
<1> USE DEF PoolInv, PoolIsConsistent
<1>1. mempool \in Pools /\ batch \in Views /\ disk \in Views
  BY DEF ChainInv, TypeOK
<1>2. ASSUME NEW b \in Block \ {Genesis}, ProcessBlock(b) PROVE PoolInv'
  BY <1>2, PoolWrite DEF ProcessBlock
<1>3. ASSUME NEW b \in Block \ {Genesis}, ProcessOrphanBlock(b) PROVE PoolInv'
  BY <1>3 DEF ProcessOrphanBlock
<1>4. ASSUME NEW b \in Block \ {Genesis}, ProcessOrphanChild(b) PROVE PoolInv'
  <2>1. CASE AcceptBlockChecks(b)
    BY <1>4, <2>1, PoolWrite DEF ProcessOrphanChild
  <2>2. CASE ~AcceptBlockChecks(b)
    BY <1>4, <2>2 DEF ProcessOrphanChild
  <2> QED BY <2>1, <2>2
<1>5. ASSUME NextInWorkQueue PROVE PoolInv'
  BY <1>5 DEF NextInWorkQueue
<1>6. ASSUME DisconnectBlock PROVE PoolInv'
  BY <1>6 DEF DisconnectBlock
<1>7. ASSUME ConnectBlock PROVE PoolInv'
  BY <1>7 DEF ConnectBlock
<1>8. ASSUME SetBestChainInner PROVE PoolInv'
  BY <1>8, PoolInner
<1>9. ASSUME Reorganize PROVE PoolInv'
  BY <1>9 DEF Reorganize
<1>10. ASSUME ResurrectTransaction PROVE PoolInv'
  <2>1. PICK x \in vResurrect : mempool' = Accepted(mempool, disk, pindexBest, Vtx[x[1]][x[2]])
    BY <1>10 DEF ResurrectTransaction
  <2>2. Vtx[x[1]][x[2]] \in Tx
    BY TxAssumption DEF ChainInv, TypeOK, TxPlaces
  <2>3. phase = "resurrect" /\ phase' = "resurrect" /\ disk' = disk
    BY <1>10 DEF ResurrectTransaction
  <2> QED BY <1>1, <2>1, <2>2, <2>3, AcceptedPool
<1>11. ASSUME SetBestChain PROVE PoolInv'
  BY <1>11, PoolReorganized
<1>12. ASSUME TxnCommit PROVE PoolInv'
  BY <1>12 DEF TxnCommit
<1>13. ASSUME TxnAbort PROVE PoolInv'
  BY <1>13 DEF TxnAbort
<1>14. ASSUME NEW t \in Loose, AcceptTransaction(t) PROVE PoolInv'
  <2>1. mempool' = Accepted(mempool, disk, pindexBest, t) /\ t \in Tx
    BY <1>14, ChainAssumption DEF AcceptTransaction, Accepted
  <2>2. phase = "idle" /\ phase' = "idle" /\ disk' = disk
    BY <1>14 DEF AcceptTransaction
  <2> QED BY <1>1, <2>1, <2>2, AcceptedPool
<1>15. ASSUME LoadBlockIndex PROVE PoolInv'
  <2>1. mempool'.mapTx = {} /\ phase' = "idle"
    BY <1>15 DEF LoadBlockIndex, EmptyPool
  <2>2. PoolConsistent(mempool')
    BY <1>15, EmptyConsistent DEF LoadBlockIndex
  <2> QED BY <2>1, <2>2
<1>16. CASE UNCHANGED vars
  BY <1>16 DEF vars
<1> QED
  BY <1>2, <1>3, <1>4, <1>5, <1>6, <1>7, <1>8, <1>9, <1>10, <1>11, <1>12, <1>13, <1>14, <1>15,
     <1>16 DEF Next, Receive, Handler

\* mapTx and mapNextTx agree, and no two pool transactions spend the same output.
THEOREM PoolAlwaysConsistent == Spec => []PoolIsConsistent
<1>1. PoolInv => PoolIsConsistent
  BY DEF PoolInv
<1> QED BY ChainInvHolds, PoolInit, PoolStep, <1>1, PTL DEF Spec

\* Between two handlers the pool holds no transaction of the best chain.
THEOREM PoolAlwaysUnconfirmed == Spec => []PoolIsUnconfirmed
<1>1. PoolInv => PoolIsUnconfirmed
  BY DEF PoolInv, PoolIsUnconfirmed
<1> QED BY ChainInvHolds, PoolInit, PoolStep, <1>1, PTL DEF Spec

-----------------------------------------------------------------------------
(* ChainState implements BestChain, for every block tree: TxnCommit stores  *)
(* the block of the open batch, and every other step leaves the database as *)
(* it is.                                                                   *)

\* CommitInv holds initially: no batch is open.
LEMMA CommitInit == Init => CommitInv
  BY DEF Init, CommitInv, Working

\* AcceptBlock opens a batch for a block that is not stored, on top of one that is.
LEMMA CommitWrite ==
    ASSUME ChainInv, phase \in {"idle", "orphans"},
           NEW b \in Block \ {Genesis}, AcceptBlockChecks(b), WriteToDisk(b)
    PROVE  CommitInv'
<1>1. /\ \A c \in Block : ChainTrust[c] \in Nat
      /\ disk \in Views /\ disk.best \in Block /\ pindexBest = disk.best
  BY TreeAssumption DEF ChainInv, TypeOK, Views, MemoryFollows
<1>2. b \notin disk.blocks
  BY DEF ChainInv, IndexCoversDisk, AcceptBlockChecks
<1>3. Prev[b] \in disk.blocks
  BY ParentIsStored
<1>4. disk' = disk /\ cur' = b /\ batch'.best = disk.best
  BY <1>1 DEF WriteToDisk, WithNewBlock, Views
<1>5. phase' = "commit" => ChainTrust[b] <= ChainTrust[disk.best]
  BY <1>1 DEF WriteToDisk
<1> QED BY <1>2, <1>3, <1>4, <1>5 DEF CommitInv

\* Every step keeps CommitInv.
LEMMA CommitStep == ChainInv /\ TrustInv /\ CommitInv /\ [Next]_vars => CommitInv'
<1> SUFFICES ASSUME ChainInv, TrustInv, CommitInv, [Next]_vars PROVE CommitInv'
  OBVIOUS
<1> USE DEF CommitInv, Working
<1>1. batch \in Views /\ phase # "commit" => pindexBest = disk.best
  BY DEF ChainInv, MemoryFollows
<1>2. ASSUME NEW b \in Block \ {Genesis}, ProcessBlock(b) PROVE CommitInv'
  BY <1>2, CommitWrite DEF ProcessBlock
<1>3. ASSUME NEW b \in Block \ {Genesis}, ProcessOrphanBlock(b) PROVE CommitInv'
  BY <1>3 DEF ProcessOrphanBlock
<1>4. ASSUME NEW b \in Block \ {Genesis}, ProcessOrphanChild(b) PROVE CommitInv'
  <2>1. CASE AcceptBlockChecks(b)
    BY <1>4, <2>1, CommitWrite DEF ProcessOrphanChild
  <2>2. CASE ~AcceptBlockChecks(b)
    BY <1>4, <2>2 DEF ProcessOrphanChild
  <2> QED BY <2>1, <2>2
<1>5. ASSUME NextInWorkQueue PROVE CommitInv'
  BY <1>5 DEF NextInWorkQueue
<1>6. ASSUME DisconnectBlock PROVE CommitInv'
  BY <1>6 DEF DisconnectBlock
<1>7. ASSUME ConnectBlock PROVE CommitInv'
  BY <1>7 DEF ConnectBlock
<1>8. ASSUME SetBestChainInner PROVE CommitInv'
  <2>1. batch'.best = cur
    BY <1>8 DEF SetBestChainInner, WithBest, ChainInv, TypeOK, Views
  <2>2. ChainTrust[cur] > ChainTrust[disk.best]
    BY <1>8 DEF SetBestChainInner, TrustInv, ChainInv, MemoryFollows
  <2> QED BY <1>8, <2>1, <2>2 DEF SetBestChainInner
<1>9. ASSUME Reorganize PROVE CommitInv'
  BY <1>9 DEF Reorganize
<1>10. ASSUME ResurrectTransaction PROVE CommitInv'
  BY <1>10 DEF ResurrectTransaction
<1>11. ASSUME SetBestChain PROVE CommitInv'
  <2>1. batch.best = cur /\ ChainTrust[cur] > ChainTrust[disk.best]
    BY <1>11 DEF SetBestChain, TrustInv, ChainInv, MemoryFollows
  <2> QED BY <1>11, <2>1 DEF SetBestChain
<1>12. ASSUME TxnCommit PROVE CommitInv'
  BY <1>12 DEF TxnCommit
<1>13. ASSUME TxnAbort PROVE CommitInv'
  BY <1>13 DEF TxnAbort
<1>14. ASSUME NEW t \in Loose, AcceptTransaction(t) PROVE CommitInv'
  BY <1>14 DEF AcceptTransaction
<1>15. ASSUME LoadBlockIndex PROVE CommitInv'
  BY <1>15 DEF LoadBlockIndex
<1>16. CASE UNCHANGED vars
  BY <1>16 DEF vars
<1> QED
  BY <1>2, <1>3, <1>4, <1>5, <1>6, <1>7, <1>8, <1>9, <1>10, <1>11, <1>12, <1>13, <1>14, <1>15,
     <1>16 DEF Next, Receive, Handler

\* The commit stores the block of the batch.
LEMMA CommitStores ==
    ASSUME ChainInv, TrustInv, CommitInv, TxnCommit PROVE Node!Next
<1>1. phase = "commit" /\ disk' = batch /\ cur \in Block \ {Genesis}
  BY DEF TxnCommit, ChainInv, TypeOK, BatchDescribesTip, Working
<1>2. cur \notin disk.blocks /\ Prev[cur] \in disk.blocks
  BY <1>1 DEF CommitInv, Working
<1>3. disk'.blocks = disk.blocks \cup {cur}
  BY <1>1 DEF TrustInv, Working
<1>4. batch.best = tip /\ ChainValid(tip)
  BY <1>1 DEF ChainInv, MemoryFollows, BatchDescribesTip, Working, Describes
<1>5. Node!StoreFork(cur) \/ Node!StoreBest(cur)
  <2>1. CASE ChainTrust[cur] > ChainTrust[disk.best] /\ batch.best = cur
    BY <1>1, <1>4, <2>1 DEF Node!StoreBest
  <2>2. CASE ChainTrust[cur] <= ChainTrust[disk.best] /\ batch.best = disk.best
    BY <1>1, <2>2 DEF Node!StoreFork
  <2> QED BY <1>1, <2>1, <2>2 DEF CommitInv
<1> QED BY <1>1, <1>2, <1>3, <1>5 DEF Node!Next, Node!Store

\* No other step changes the database.
LEMMA OnlyCommitWrites == [Next]_vars => TxnCommit \/ UNCHANGED disk
  BY DEF Next, vars, Receive, Handler, ProcessBlock, ProcessOrphanBlock, ProcessOrphanChild,
         WriteToDisk, NextInWorkQueue, DisconnectBlock, ConnectBlock, SetBestChainInner,
         Reorganize, ResurrectTransaction, SetBestChain, TxnAbort, AcceptTransaction,
         LoadBlockIndex

\* ChainState implements BestChain: SetBestChain and Reorganize, with every failure
\* and crash on the way, look to a reader of the database like one step that
\* stores a block and, if its chain is heavier and valid, makes it the best one.
THEOREM StoresBlocksAtomically == Spec => StoresAtomically
<1>1. Init => Node!Init
  BY DEF Init, GenesisView, Node!Init
<1>2. ASSUME ChainInv, TrustInv, CommitInv, [Next]_vars
      PROVE  [Node!Next]_(Node!vars)
  <2>1. CASE TxnCommit
    BY <1>2, <2>1, CommitStores
  <2>2. CASE UNCHANGED disk
    BY <2>2 DEF Node!vars
  <2> QED BY <1>2, <2>1, <2>2, OnlyCommitWrites
<1> QED
  BY <1>1, <1>2, ChainInvHolds, TrustInit, TrustStep, CommitInit, CommitStep, PTL
     DEF Spec, StoresAtomically, Node!Spec

-----------------------------------------------------------------------------
(* No fork spends an output twice.  ForkInv is inductive relative to        *)
(* ChainInv, TrustInv and CommitInv.                                        *)

\* ForkInv holds initially: the genesis block is alone.
LEMMA ForkInit == Init => ForkInv
  BY TreeAssumption DEF Init, ForkInv, NoForkSpendsTwice, SpendsOnce, GenesisView, Working

\* A block that AcceptBlock lets in has passed VerifyInputsUnspent against the
\* committed data.
LEMMA ForkWrite ==
    ASSUME ChainInv, ForkInv, phase \in {"idle", "orphans"},
           NEW b \in Block \ {Genesis}, AcceptBlockChecks(b), WriteToDisk(b)
    PROVE  ForkInv'
<1>1. /\ disk \in Views /\ disk.best \in Block /\ pindexBest = disk.best /\ pnext = disk.next
      /\ Describes(disk, disk.best)
  BY DEF ChainInv, TypeOK, Views, MemoryFollows
<1>2. VerifyInputsUnspent(disk, mapBlockIndex, disk.next, disk.best, b)
  BY <1>1 DEF AcceptBlockChecks
<1>3. \A d \in Anc[Prev[b]] : Spends(b) \cap Spends(d) = {}
  BY <1>1, <1>2, VerifyExcludesSpent DEF ForkInv, NoForkSpendsTwice
<1>4. disk' = disk /\ cur' = b
  BY DEF WriteToDisk
<1> QED BY <1>3, <1>4 DEF ForkInv, NoForkSpendsTwice

\* The commit adds one block to the stored ones, on top of one of them.
LEMMA ForkCommit ==
    ASSUME ChainInv, TrustInv, CommitInv, ForkInv, TxnCommit PROVE ForkInv'
<1>1. phase = "commit" /\ disk' = batch /\ phase' = "orphans" /\ cur \in Block \ {Genesis}
  BY DEF TxnCommit, ChainInv, TypeOK, BatchDescribesTip, Working
<1>2. disk'.blocks = disk.blocks \cup {cur} /\ Prev[cur] \in disk.blocks
  BY <1>1 DEF TrustInv, CommitInv, Working
<1>3. \A d \in Anc[Prev[cur]] : Spends(cur) \cap Spends(d) = {}
  BY <1>1 DEF ForkInv, Working
<1>4. Anc[cur] = Anc[Prev[cur]] \cup {cur}
  BY <1>1, TreeAssumption
<1>5. ASSUME NEW x \in disk'.blocks, NEW c \in Anc[x], NEW d \in Anc[x], c # d
      PROVE  Spends(c) \cap Spends(d) = {}
  <2>1. CASE x \in disk.blocks
    BY <1>5, <2>1 DEF ForkInv, NoForkSpendsTwice, SpendsOnce
  <2>2. CASE x = cur /\ c # cur /\ d # cur
    BY <1>2, <1>4, <1>5, <2>2 DEF ForkInv, NoForkSpendsTwice, SpendsOnce
  <2>3. CASE x = cur /\ (c = cur \/ d = cur)
    BY <1>3, <1>4, <1>5, <2>3
  <2> QED BY <1>2, <1>5, <2>1, <2>2, <2>3
<1> QED BY <1>1, <1>5 DEF ForkInv, NoForkSpendsTwice, SpendsOnce, Working

\* Every step keeps ForkInv.
LEMMA ForkStep == ChainInv /\ TrustInv /\ CommitInv /\ ForkInv /\ [Next]_vars => ForkInv'
<1> SUFFICES ASSUME ChainInv, TrustInv, CommitInv, ForkInv, [Next]_vars PROVE ForkInv'
  OBVIOUS
<1>1. ASSUME UNCHANGED disk, ~Working' \/ (Working /\ cur' = cur) PROVE ForkInv'
  BY <1>1 DEF ForkInv, NoForkSpendsTwice
<1>2. ASSUME NEW b \in Block \ {Genesis}, ProcessBlock(b) PROVE ForkInv'
  BY <1>2, ForkWrite DEF ProcessBlock
<1>3. ASSUME NEW b \in Block \ {Genesis}, ProcessOrphanBlock(b) PROVE ForkInv'
  BY <1>1, <1>3 DEF ProcessOrphanBlock, Working
<1>4. ASSUME NEW b \in Block \ {Genesis}, ProcessOrphanChild(b) PROVE ForkInv'
  <2>1. CASE AcceptBlockChecks(b)
    BY <1>4, <2>1, ForkWrite DEF ProcessOrphanChild
  <2>2. CASE ~AcceptBlockChecks(b)
    BY <1>1, <1>4, <2>2 DEF ProcessOrphanChild, Working
  <2> QED BY <2>1, <2>2
<1>5. ASSUME NextInWorkQueue PROVE ForkInv'
  BY <1>1, <1>5 DEF NextInWorkQueue, Working
<1>6. ASSUME DisconnectBlock PROVE ForkInv'
  BY <1>1, <1>6 DEF DisconnectBlock, Working
<1>7. ASSUME ConnectBlock PROVE ForkInv'
  BY <1>1, <1>7 DEF ConnectBlock, Working
<1>8. ASSUME SetBestChainInner PROVE ForkInv'
  BY <1>1, <1>8 DEF SetBestChainInner, Working
<1>9. ASSUME Reorganize PROVE ForkInv'
  BY <1>1, <1>9 DEF Reorganize, Working
<1>10. ASSUME ResurrectTransaction PROVE ForkInv'
  BY <1>1, <1>10 DEF ResurrectTransaction, Working
<1>11. ASSUME SetBestChain PROVE ForkInv'
  BY <1>1, <1>11 DEF SetBestChain, Working
<1>12. ASSUME TxnCommit PROVE ForkInv'
  BY <1>12, ForkCommit
<1>13. ASSUME TxnAbort PROVE ForkInv'
  BY <1>1, <1>13 DEF TxnAbort, Working
<1>14. ASSUME NEW t \in Loose, AcceptTransaction(t) PROVE ForkInv'
  BY <1>1, <1>14 DEF AcceptTransaction, Working
<1>15. ASSUME LoadBlockIndex PROVE ForkInv'
  BY <1>1, <1>15 DEF LoadBlockIndex, Working
<1>16. CASE UNCHANGED vars
  BY <1>1, <1>16 DEF vars, Working
<1> QED
  BY <1>2, <1>3, <1>4, <1>5, <1>6, <1>7, <1>8, <1>9, <1>10, <1>11, <1>12, <1>13, <1>14, <1>15,
     <1>16 DEF Next, Receive, Handler

\* No block that WriteToDisk ever commits, on the main chain or on a fork, spends an
\* output that its own chain has spent: VerifyInputsUnspent does what it is there for.
THEOREM ForksNeverSpendTwice == Spec => []NoForkSpendsTwice
<1>1. ForkInv => NoForkSpendsTwice
  BY DEF ForkInv
<1> QED
  BY <1>1, ChainInvHolds, TrustInit, TrustStep, CommitInit, CommitStep, ForkInit, ForkStep, PTL
     DEF Spec

=============================================================================
