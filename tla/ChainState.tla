----------------------------- MODULE ChainState -----------------------------
(***************************************************************************)
(* The block chain of a node: ProcessBlock (main.cpp), AcceptBlock,         *)
(* WriteToDisk, AddToBlockIndex, SetBestChain and Reorganize (block.cpp),   *)
(* and LoadBlockIndex (txdb-lmdb.cpp) after a crash.                         *)
(*                                                                          *)
(* A block is written in one LMDB batch.  The handler runs with cs_main     *)
(* held, so that no other handler runs between its steps, but the process   *)
(* may die at any of them: the steps below are one block disconnected or    *)
(* connected inside the batch, the change of the pointers in memory, and    *)
(* the commit.  batch is the view of the CTxDB that owns the batch and disk *)
(* what every other CTxDB sees; they are equal while no batch is open.       *)
(*                                                                          *)
(* This is acceptance without synchronised checkpoints: CheckSync and        *)
(* AcceptPendingSyncCheckpoint, which AcceptBlock calls, and the exemptions  *)
(* of WantedByPendingSyncCheckpoint in ProcessBlock are not in it.           *)
(* SyncCheckpoint has the first two.  A switch to a lighter checkpoint is    *)
(* what would leave a stored block with more trust than the best one, and    *)
(* reconnects for SetBestChain to postpone inside a batch.                   *)
(***************************************************************************)
EXTENDS TxMemPool

CONSTANTS
    Stakes,           \* the proofs (kernel outpoint and time) of the stakes
    NoStake,
    Stake,            \* GetProofOfStake of a block, NoStake for proof of work
    Loose,            \* the transactions that peers relay
    MaxOrphanBlocks,  \* -maxorphanblocks
    Crashes,          \* whether the process may die
    WriteErrors       \* whether a write into a batch may fail

ASSUME ChainAssumption ==
    /\ NoStake \notin Stakes
    /\ Stake \in [Block -> Stakes \cup {NoStake}]
    /\ Loose \subseteq Tx
    /\ MaxOrphanBlocks \in Nat
    /\ Crashes \in BOOLEAN
    /\ WriteErrors \in BOOLEAN

VARIABLES
    mapBlockIndex,       \* the blocks of the index in memory
    pnext,               \* the pnext pointers in memory
    pindexBest,          \* hashBestChain, nBestHeight and nBestChainTrust follow it
    setStakeSeen,
    mapOrphanBlocks,     \* mapOrphanBlocksByPrev holds the same blocks
    setStakeSeenOrphan,
    mempool,
    disk,                \* the committed database
    batch,               \* the database with the writes of the open batch
    phase,               \* where the handler is
    cur,                 \* the block AcceptBlock works on
    tip,                 \* the last block of the chain the batch describes
    vResurrect,          \* the places of the transactions to offer to the pool again
    vWorkQueue           \* the accepted blocks whose orphans are still to be tried

memory == <<mapBlockIndex, pnext, pindexBest, setStakeSeen>>
orphans == <<mapOrphanBlocks, setStakeSeenOrphan>>
vars == <<memory, orphans, mempool, disk, batch, phase, cur, tip, vResurrect,
          vWorkQueue>>

Phases == {"idle", "disconnect", "connect", "resurrect", "commit", "orphans"}

\* The places of the transactions of a set of blocks.
TxPlaces(S) == UNION { {b} \X DOMAIN Vtx[b] : b \in S }

TypeOK ==
    /\ mapBlockIndex \subseteq Block
    /\ pnext \in [Block -> Block \cup {NoBlock}]
    /\ pindexBest \in Block
    /\ setStakeSeen \subseteq Stakes
    /\ mapOrphanBlocks \subseteq Block
    /\ setStakeSeenOrphan \subseteq Stakes
    /\ mempool \in Pools
    /\ disk \in Views
    /\ batch \in Views
    /\ phase \in Phases
    /\ cur \in Block
    /\ tip \in Block
    /\ vResurrect \subseteq TxPlaces(Block)
    /\ vWorkQueue \in Seq(Block)

Init ==
    /\ mapBlockIndex = {Genesis}
    /\ pnext = [b \in Block |-> NoBlock]
    /\ pindexBest = Genesis
    /\ setStakeSeen = {}
    /\ mapOrphanBlocks = {}
    /\ setStakeSeenOrphan = {}
    /\ mempool = EmptyPool
    /\ disk = GenesisView
    /\ batch = GenesisView
    /\ phase = "idle"
    /\ cur = Genesis
    /\ tip = Genesis
    /\ vResurrect = {}
    /\ vWorkQueue = << >>

StakesOf(S) == { Stake[b] : b \in S } \ {NoStake}
HasOrphanChild(b) == \E o \in mapOrphanBlocks : o # Genesis /\ Prev[o] = b

-----------------------------------------------------------------------------
(* AcceptBlock up to the open batch of WriteToDisk.                         *)

\* The checks of AcceptBlock but for CheckSync, all of them before anything
\* changes.
AcceptBlockChecks(b) ==
    /\ b \notin mapBlockIndex
    /\ Prev[b] \in mapBlockIndex
    /\ VerifyInputsUnspent(disk, mapBlockIndex, pnext, pindexBest, b)
    /\ Fails[b] # "accept"

\* Mutant: AddToBlockIndex compares heights instead of trust.
WriteToDisk_ByHeight(b) ==
    /\ batch' = WithNewBlock(disk, b)
    /\ mapBlockIndex' = mapBlockIndex \cup {b}
    /\ setStakeSeen' = setStakeSeen \cup StakesOf({b})
    /\ cur' = b
    /\ tip' = pindexBest
    /\ phase' = IF Height[b] <= Height[pindexBest] THEN "commit"
                ELSE IF pindexBest \in Anc[b] THEN "connect" ELSE "disconnect"
    /\ UNCHANGED <<pnext, pindexBest, mempool, disk, vResurrect>>

\* WriteToDisk opens the batch and writes the block; AddToBlockIndex enters it
\* in the index in memory and in the batch, and calls SetBestChain when the new
\* chain has more trust.  Reorganize starts at the current best block.
WriteToDisk(b) ==
    /\ batch' = WithNewBlock(disk, b)
    /\ mapBlockIndex' = mapBlockIndex \cup {b}
    /\ setStakeSeen' = setStakeSeen \cup StakesOf({b})
    /\ cur' = b
    /\ tip' = pindexBest
    /\ phase' = IF ChainTrust[b] <= ChainTrust[pindexBest] THEN "commit"
                ELSE IF pindexBest \in Anc[b] THEN "connect" ELSE "disconnect"
    /\ UNCHANGED <<pnext, pindexBest, mempool, disk, vResurrect>>

-----------------------------------------------------------------------------
(* ProcessBlock.                                                            *)

\* Mutant: a duplicate stake is refused even when an orphan waits for the block.
ProcessBlockChecks_NoDuplicates(b) ==
    /\ b \notin mapBlockIndex /\ b \notin mapOrphanBlocks
    /\ Stake[b] \notin setStakeSeen
    /\ Fails[b] # "check"

\* Its tests for a known block, a duplicate stake and a malformed block.  A block
\* with too little proof after the last checkpoint is one that Fails its check.
ProcessBlockChecks(b) ==
    /\ b \notin mapBlockIndex /\ b \notin mapOrphanBlocks
    /\ Stake[b] \in setStakeSeen => HasOrphanChild(b)
    /\ Fails[b] # "check"

\* PruneOrphanBlocks drops one orphan that no other orphan waits for.
PrunedOrphans(S) ==
    IF Cardinality(S) <= MaxOrphanBlocks THEN {S}
    ELSE { S \ {o} : o \in { x \in S : ~\E y \in S : Prev[y] = x } }

\* Mutant: the proof of a proof-of-work block is recorded too.
ProcessOrphanBlock_AnyProof(b) ==
    /\ phase = "idle" /\ ProcessBlockChecks(b)
    /\ Prev[b] \notin mapBlockIndex
    /\ setStakeSeenOrphan' = setStakeSeenOrphan \cup {Stake[b]}
    /\ \E S \in PrunedOrphans(mapOrphanBlocks) : mapOrphanBlocks' = S \cup {b}
    /\ UNCHANGED <<memory, mempool, disk, batch, phase, cur, tip, vResurrect, vWorkQueue>>

\* The parent is not known: the block is kept as an orphan.
ProcessOrphanBlock(b) ==
    /\ phase = "idle" /\ ProcessBlockChecks(b)
    /\ Prev[b] \notin mapBlockIndex
    /\ Stake[b] \in setStakeSeenOrphan => HasOrphanChild(b)
    /\ setStakeSeenOrphan' = setStakeSeenOrphan \cup StakesOf({b})
    /\ \E S \in PrunedOrphans(mapOrphanBlocks) : mapOrphanBlocks' = S \cup {b}
    /\ UNCHANGED <<memory, mempool, disk, batch, phase, cur, tip, vResurrect, vWorkQueue>>

\* The parent is known: AcceptBlock.  A refused block changes nothing.
ProcessBlock(b) ==
    /\ phase = "idle" /\ ProcessBlockChecks(b)
    /\ AcceptBlockChecks(b)
    /\ WriteToDisk(b)
    /\ UNCHANGED <<orphans, vWorkQueue>>

\* The loop over vWorkQueue: one orphan child of the block at its head.
ProcessOrphanChild(b) ==
    /\ phase = "orphans" /\ vWorkQueue # << >>
    /\ b \in mapOrphanBlocks /\ Prev[b] = Head(vWorkQueue)
    /\ mapOrphanBlocks' = mapOrphanBlocks \ {b}
    /\ setStakeSeenOrphan' = setStakeSeenOrphan \ {Stake[b]}
    /\ IF AcceptBlockChecks(b) THEN WriteToDisk(b)
       ELSE UNCHANGED <<memory, mempool, disk, batch, phase, cur, tip, vResurrect>>
    /\ UNCHANGED vWorkQueue

\* No orphan waits for the head of the queue any more; at the end of the queue
\* ProcessBlock returns.
NextInWorkQueue ==
    /\ phase = "orphans" /\ vWorkQueue # << >>
    /\ ~HasOrphanChild(Head(vWorkQueue))
    /\ vWorkQueue' = Tail(vWorkQueue)
    /\ phase' = IF Tail(vWorkQueue) = << >> THEN "idle" ELSE "orphans"
    /\ UNCHANGED <<memory, orphans, mempool, disk, batch, cur, tip, vResurrect>>

-----------------------------------------------------------------------------
(* SetBestChain and Reorganize, inside the batch.                           *)

\* The two sides of the fork that Reorganize finds.
vDisconnect == Anc[pindexBest] \ Anc[cur]
vConnect == Anc[cur] \ Anc[pindexBest]

\* The next block of the branch of cur on top of tip.
NextToConnect == CHOOSE c \in Anc[cur] \ {Genesis} : Prev[c] = tip

\* The next step of SetBestChain returns false.
StepFails ==
    IF phase = "disconnect"
    THEN ~(tip \in disk.blocks /\ CanDisconnect(batch, tip))
    ELSE tip # cur /\ ~(NextToConnect \in batch.blocks /\ CanConnect(batch, NextToConnect))

\* Reorganize disconnects the last block of the old branch.
DisconnectBlock ==
    /\ phase = "disconnect" /\ ~StepFails
    /\ batch' = Disconnected(batch, tip)
    /\ tip' = Prev[tip]
    /\ phase' = IF Prev[tip] \in Anc[cur] THEN "connect" ELSE "disconnect"
    /\ UNCHANGED <<memory, orphans, mempool, disk, cur, vResurrect, vWorkQueue>>

\* SetBestChainInner or Reorganize connects the next block of the new branch.
ConnectBlock ==
    /\ phase = "connect" /\ tip # cur /\ ~StepFails
    /\ batch' = Connected(batch, NextToConnect, pnext)
    /\ tip' = NextToConnect
    /\ UNCHANGED <<memory, orphans, mempool, disk, phase, cur, vResurrect, vWorkQueue>>

\* Mutant: the old branch is not unlinked.
Relinked_KeepsOld ==
    [b \in Block |->
       IF \E c \in vConnect : Prev[c] = b THEN CHOOSE c \in vConnect : Prev[c] = b
       ELSE pnext[b]]

\* The memory pointers after the switch: the old branch is unlinked, then the new
\* branch is linked.
Relinked ==
    [b \in Block |->
       IF \E c \in vConnect : Prev[c] = b THEN CHOOSE c \in vConnect : Prev[c] = b
       ELSE IF \E d \in vDisconnect : Prev[d] = b THEN NoBlock
       ELSE pnext[b]]

\* SetBestChainInner: the block extends the best chain.  Its transactions leave the
\* pool; what conflicts with them stays.
SetBestChainInner ==
    /\ phase = "connect" /\ tip = cur
    /\ Prev[cur] = pindexBest
    /\ batch' = WithBest(batch, cur)
    /\ pnext' = [pnext EXCEPT ![Prev[cur]] = cur]
    /\ mempool' = removeAll(mempool, TxsOf(cur))
    /\ pindexBest' = cur
    /\ phase' = "commit"
    /\ UNCHANGED <<mapBlockIndex, setStakeSeen, orphans, disk, cur, tip, vResurrect, vWorkQueue>>

\* Reorganize has connected the new branch: WriteHashBestChain, then the pointers
\* in memory.
Reorganize ==
    /\ phase = "connect" /\ tip = cur
    /\ Prev[cur] # pindexBest
    /\ batch' = WithBest(batch, cur)
    /\ pnext' = Relinked
    /\ vResurrect' = { x \in TxPlaces(vDisconnect) : ~IsGenerated(Vtx[x[1]][x[2]]) }
    /\ phase' = "resurrect"
    /\ UNCHANGED <<mapBlockIndex, pindexBest, setStakeSeen, orphans, mempool, disk, cur, tip,
                   vWorkQueue>>

\* Reorganize offers the transactions of the old branch to the pool again, lowest
\* first.  The CTxDB of AcceptToMemoryPool is not the one that owns the batch: it
\* reads the committed data.
ResurrectTransaction ==
    /\ phase = "resurrect"
    /\ \E x \in vResurrect :
         /\ \A y \in vResurrect \ {x} : \/ Height[x[1]] < Height[y[1]]
                                        \/ x[1] = y[1] /\ x[2] < y[2]
         /\ mempool' = Accepted(mempool, disk, pindexBest, Vtx[x[1]][x[2]])
         /\ vResurrect' = vResurrect \ {x}
    /\ UNCHANGED <<memory, orphans, disk, batch, phase, cur, tip, vWorkQueue>>

\* Mutant: only the transactions of the last block leave the pool.
SetBestChain_LastBlockOnly ==
    /\ phase = "resurrect" /\ vResurrect = {}
    /\ mempool' = removeConflicts(removeAll(mempool, TxsOf(cur)), TxsOf(cur))
    /\ pindexBest' = cur
    /\ phase' = "commit"
    /\ UNCHANGED <<mapBlockIndex, pnext, setStakeSeen, orphans, disk, batch, cur, tip,
                   vResurrect, vWorkQueue>>

\* Reorganize takes the transactions of the new branch out of the pool, with what
\* conflicts with them, and SetBestChain makes cur the best block.
SetBestChain ==
    /\ phase = "resurrect" /\ vResurrect = {}
    /\ LET vDelete == UNION { TxsOf(c) : c \in vConnect }
       IN  mempool' = removeConflicts(removeAll(mempool, vDelete), vDelete)
    /\ pindexBest' = cur
    /\ phase' = "commit"
    /\ UNCHANGED <<mapBlockIndex, pnext, setStakeSeen, orphans, disk, batch, cur, tip,
                   vResurrect, vWorkQueue>>

\* WriteToDisk commits, and AcceptBlock returns true.
TxnCommit ==
    /\ phase = "commit"
    /\ disk' = batch
    /\ vWorkQueue' = Append(vWorkQueue, cur)
    /\ phase' = "orphans"
    /\ UNCHANGED <<memory, orphans, mempool, batch, cur, tip, vResurrect>>

\* SetBestChain fails, in a check or in a write: WriteToDisk aborts the batch and
\* AcceptBlock returns false.  The index in memory keeps the block.
TxnAbort ==
    /\ phase \in {"disconnect", "connect"}
    /\ WriteErrors \/ StepFails
    /\ batch' = disk
    /\ phase' = IF vWorkQueue = << >> THEN "idle" ELSE "orphans"
    /\ UNCHANGED <<memory, orphans, mempool, disk, cur, tip, vResurrect, vWorkQueue>>

-----------------------------------------------------------------------------
(* Transactions, and the death of the process.                              *)

\* A loose transaction arrives and passes AcceptToMemoryPool.
AcceptTransaction(t) ==
    /\ phase = "idle"
    /\ AcceptToMemoryPool(mempool, disk, pindexBest, t)
    /\ mempool' = addUnchecked(mempool, t)
    /\ UNCHANGED <<memory, orphans, disk, batch, phase, cur, tip, vResurrect, vWorkQueue>>

\* The process dies and starts again: LMDB drops the batch, and LoadBlockIndex
\* builds the index from the committed records.
LoadBlockIndex ==
    /\ Crashes
    /\ mapBlockIndex' = disk.blocks
    /\ pnext' = disk.next
    /\ pindexBest' = disk.best
    /\ setStakeSeen' = StakesOf(disk.blocks)
    /\ mapOrphanBlocks' = {} /\ setStakeSeenOrphan' = {}
    /\ mempool' = EmptyPool
    /\ batch' = disk
    /\ phase' = "idle" /\ cur' = disk.best /\ tip' = disk.best
    /\ vResurrect' = {} /\ vWorkQueue' = << >>
    /\ UNCHANGED disk

-----------------------------------------------------------------------------
Receive(b) == ProcessBlock(b) \/ ProcessOrphanBlock(b)

Handler ==
    \/ \E b \in Block \ {Genesis} : ProcessOrphanChild(b)
    \/ NextInWorkQueue
    \/ DisconnectBlock \/ ConnectBlock
    \/ SetBestChainInner \/ Reorganize \/ ResurrectTransaction \/ SetBestChain
    \/ TxnCommit \/ TxnAbort

Next ==
    \/ \E b \in Block \ {Genesis} : Receive(b)
    \/ \E t \in Loose : AcceptTransaction(t)
    \/ Handler
    \/ LoadBlockIndex

Spec == Init /\ [][Next]_vars

\* The handler runs to its end, and the peers offer every block again and again
\* (inventory, getblocks, and AskFor of the missing ancestors of an orphan).
FairSpec == Spec /\ WF_vars(Handler) /\ \A b \in Block \ {Genesis} : SF_vars(Receive(b))

-----------------------------------------------------------------------------
(* Properties.                                                              *)

\* Whenever the process dies, the committed transaction index is the replay of
\* the committed best chain: every reorganisation, half done, refused or done,
\* leaves each output spent by the block of that chain that spends it.
DiskIsLedger == LedgerOK(disk, disk.best)

\* The committed hashNext records thread the committed best chain from the
\* genesis block to its end, over blocks that are stored: what LoadBlockIndex
\* rebuilds the main chain from.
DiskLinksBestChain ==
    /\ LinksOK(disk.next, disk.best)
    /\ Anc[disk.best] \subseteq disk.blocks

\* No output is spent twice, or before it exists, along the committed best
\* chain, whatever forks, conflicting transactions and bad blocks arrived.
BestChainIsValid == ChainValid(disk.best)

\* No stored block, on the main chain or on a fork, spends an output that its own
\* chain has spent: the stake of a fork is not spent twice in the fork, the
\* attack VerifyInputsUnspent is there for.
NoForkSpendsTwice == SpendsOnce(disk.blocks)

\* Between two handlers the pointers in memory agree with the database, after
\* commits, aborts and restarts alike.
MemoryIsDisk ==
    phase \in {"idle", "orphans"} =>
        /\ pindexBest = disk.best
        /\ pnext = disk.next
        /\ disk.blocks \subseteq mapBlockIndex

\* No stored block has more trust than the best block: a heavier chain is either
\* made the best chain or not stored at all, as long as no checkpoint forces a
\* lighter one.
BestIsHeaviest ==
    \A b \in disk.blocks : ChainTrust[b] <= ChainTrust[disk.best]

\* mapNextTx and mapTx agree and no two transactions of the pool spend the same
\* output, through reorganisations, conflicts and resurrections.
PoolIsConsistent == PoolConsistent(mempool)

\* Between two handlers no transaction of the pool is in the best chain, whatever
\* was accepted, connected, disconnected and refused before.
PoolIsUnconfirmed ==
    phase \in {"idle", "orphans"} => \A t \in mempool.mapTx : ~ReadTxIndex(disk, t)

\* The committed database, seen as a set of blocks with a best one.
Node == INSTANCE BestChain WITH stored <- disk.blocks, best <- disk.best,
                                ValidChain <- { b \in Block : ChainValid(b) }

\* The handler implements BestChain: whatever it does to a batch, and whenever it
\* fails or dies, the database stores one block at a time, after its parent,
\* and switches to a heavier valid chain at once or not at all.
StoresAtomically == Node!Spec

\* The chains that a node should accept, and the heaviest of them.
Acceptable(b) ==
    ChainValid(b) /\ \A c \in Anc[b] : Fails[c] = "none"
Heaviest == { b \in Block : /\ Acceptable(b)
                            /\ \A c \in Block : Acceptable(c) => ChainTrust[c] <= ChainTrust[b] }

\* A node whose peers keep offering all blocks ends on the heaviest acceptable
\* chain, whatever the order in which blocks, orphans and bad blocks arrive.
Convergence == <>[](pindexBest \in Heaviest)

\* WriteToDisk "writes a whole block in an ACID transaction": between handlers a
\* block is in the index in memory only when it is stored.
IndexIsStored ==
    phase \in {"idle", "orphans"} => mapBlockIndex \subseteq disk.blocks

\* Reorganize: "Resurrect memory transactions that were in the disconnected
\* branch": a transaction that loses its block and that the pool would take
\* is in the pool when the handler is done.
ResurrectedIntoPool ==
    [][ SetBestChain =>
          \A t \in UNION { TxsOf(b) : b \in vDisconnect } :
              AcceptToMemoryPool(mempool', batch', cur, t) => t \in mempool'.mapTx ]_vars

\* VerifyInputsUnspent: "we check whether this block is valid in the chain
\* constructed from common ancestor to this": a block that passes on top of a
\* valid chain is valid in that chain ...
VerifyAcceptsOnlyValid ==
    phase = "idle" =>
        \A b \in Block \ (mapBlockIndex \cup {Genesis}) :
            Prev[b] \in disk.blocks /\ ChainValid(Prev[b])
              /\ VerifyInputsUnspent(disk, mapBlockIndex, pnext, pindexBest, b)
                => InputsUnspentInChain(b)

\* ... and a block that is valid in its chain passes.
VerifyAcceptsAllValid ==
    phase = "idle" =>
        \A b \in Block \ (mapBlockIndex \cup {Genesis}) :
            Prev[b] \in disk.blocks /\ ChainValid(b)
                => VerifyInputsUnspent(disk, mapBlockIndex, pnext, pindexBest, b)

-----------------------------------------------------------------------------
(* The inductive invariant behind DiskIsLedger, DiskLinksBestChain,          *)
(* BestChainIsValid and MemoryIsDisk.                                        *)

Working == phase \in {"disconnect", "connect", "resurrect", "commit"}

\* An open batch describes the chain that ends at tip, at every step.
BatchDescribesTip == Working => cur # Genesis /\ Describes(batch, tip)

\* The pointers in memory are those of the database until they are changed, and
\* those of the batch from then on.
MemoryFollows ==
    /\ phase \in {"idle", "orphans"} => batch = disk
    /\ phase # "commit" => pindexBest = disk.best
    /\ phase \notin {"resurrect", "commit"} => pnext = disk.next
    /\ phase = "resurrect" => tip = cur /\ batch.best = cur /\ pnext = batch.next
    /\ phase = "commit" => pindexBest = tip /\ batch.best = tip /\ pnext = batch.next

\* The batch walks down the old branch to the fork, then up the new one.
TipOnTheWay ==
    /\ phase = "disconnect" => tip \in Anc[pindexBest] \ Anc[cur]
    /\ phase = "connect" => tip \in Anc[cur]
    /\ phase \in {"disconnect", "connect"} => Anc[pindexBest] \cap Anc[cur] \subseteq Anc[tip]

IndexCoversDisk == disk.blocks \cup batch.blocks \subseteq mapBlockIndex

ChainInv ==
    /\ TypeOK
    /\ Describes(disk, disk.best)
    /\ BatchDescribesTip
    /\ MemoryFollows
    /\ TipOnTheWay
    /\ IndexCoversDisk

\* Without checkpoint switches SetBestChain has no reconnects to postpone in the
\* batch of WriteToDisk, so that ConnectBlock is its only loop here: the parent
\* of a block that causes a reorganisation has no more trust than the best block.
NothingPostponed ==
    phase \in {"disconnect", "connect"} /\ Prev[cur] # pindexBest =>
        ChainTrust[Prev[cur]] <= ChainTrust[pindexBest]

\* The part behind BestIsHeaviest: an open batch stores one block more than the
\* database, and it is heavier than the best block until it becomes the best
\* block.
TrustInv ==
    /\ BestIsHeaviest
    /\ NothingPostponed
    /\ Working => batch.blocks = disk.blocks \cup {cur}
    /\ phase \in {"disconnect", "connect", "resurrect"} => ChainTrust[cur] > ChainTrust[pindexBest]
    /\ phase = "commit" => \A b \in batch.blocks : ChainTrust[b] <= ChainTrust[batch.best]

\* The part behind StoresAtomically: what an open batch is about to store.
CommitInv ==
    /\ Working => cur \notin disk.blocks /\ Prev[cur] \in disk.blocks
    /\ phase = "commit" =>
         \/ ChainTrust[cur] > ChainTrust[disk.best] /\ batch.best = cur
         \/ ChainTrust[cur] <= ChainTrust[disk.best] /\ batch.best = disk.best

\* The part behind NoForkSpendsTwice: the block of an open batch has passed
\* VerifyInputsUnspent on its own chain.
ForkInv ==
    /\ NoForkSpendsTwice
    /\ Working => \A d \in Anc[Prev[cur]] : Spends(cur) \cap Spends(d) = {}

\* The part behind PoolIsConsistent and PoolIsUnconfirmed.
PoolInv ==
    /\ PoolIsConsistent
    /\ phase # "commit" => \A t \in mempool.mapTx : ~ReadTxIndex(disk, t)
    /\ phase = "commit" => \A t \in mempool.mapTx : ~ReadTxIndex(batch, t)

=============================================================================
