# TLA+ models of the BFX node

BFX is a proof-of-stake node and wallet of the Bitcoin/Peercoin family, with its block chain in
LMDB and a token layer (BFXT) on top.  All the program's own logic is under `src/wallet/`; the
paths below are relative to that directory.  The modules here model how a block gets from a peer
into the database: the download of inventory and blocks, the orphan blocks, the checks, the one
LMDB batch in which the block is written and the best chain is switched, the memory pool beside it,
the death of the process in the middle of it, the synchronised checkpoints that overrule the trust
of a chain, and the gate that protects LMDB's memory map from a resize under a live transaction.
Around that core they model the relay of loose transactions and their orphans, the life of a peer
connection across three kinds of threads, and the address manager with its file.

* [1 The system and its parts](#1-the-system-and-its-parts)
* [2 Modules and how they correspond to the code](#2-modules-and-how-they-correspond-to-the-code)
* [3 What the runs check](#3-what-the-runs-check)
* [4 Where the code does not do what it says](#4-where-the-code-does-not-do-what-it-says)
* [5 What is proved](#5-what-is-proved)
* [6 What is left out](#6-what-is-left-out)
* [7 Plan](#7-plan)

To check a run: `tlc -config ChainReorg.cfg MCChainState` (the module of each run is in
`PROJECT.json`).  To check the proofs: `tlapm LmdbGateProofs.tla`, and in the same way
`LedgerProofs`, `ChainStateProofs`, `SyncCheckpointProofs`, `TxRelayProofs`, `BlockSyncProofs`,
`NodeLifeProofs` and `AddrManProofs`.

## 1 The system and its parts

| Part (files) | State | Operations | What makes it correct |
|---|---|---|---|
| LMDB gate (`txdb-lmdb.*`) | `creation_gate`, `num_active_txns`, the live `mdb_txn_safe` objects | construct, begin, commit, abort, move, destroy; `do_resize` | the map moves only when no transaction is open; the counter is exact; a resize ends |
| Database and ledger (`txdb-lmdb.*`, `block.cpp`, `transaction.cpp`) | blocks, block index, transaction index with spent marks, best hash | `ConnectBlock`, `DisconnectBlock`, `VerifyInputsUnspent` | the transaction index is the replay of the best chain |
| Block acceptance (`main.cpp`, `block.cpp`) | `mapBlockIndex`, `pnext`, `pindexBest`, `setStakeSeen`, orphan blocks | `ProcessBlock`, `AcceptBlock`, `WriteToDisk`, `SetBestChain`, `Reorganize`, `LoadBlockIndex` | only valid chains, all-or-nothing switches, the heaviest chain wins |
| Memory pool (`txmempool.*`, `main.cpp`) | `mapTx`, `mapNextTx` | `addUnchecked`, `remove`, `removeConflicts`, `AcceptToMemoryPool` | the two maps agree; no confirmed transaction stays |
| Synchronised checkpoints (`checkpoints.cpp`, `block.cpp`) | the accepted, pending and invalid checkpoint, the master key | accept a message, accept a pending one, `SetBestChain` outside a batch, reset | the best chain runs through the accepted checkpoint and never leaves it |
| Orphan transactions and relay (`main.cpp`, `net.h`) | the orphan map and its by-previous index, per peer `setInventoryKnown`, `vInventoryToSend`, `mapAskFor` | `inv`, `tx`, `AddOrphanTx`, `EraseOrphanTx`, `LimitOrphanTxSize`, `SendMessages`, `sendrawtransaction` | the two maps agree and are bounded; no orphan is forgotten; a transaction reaches pool and peers |
| Block download (`main.cpp`, `blocklocator.cpp`) | `hashContinue`, `setInventoryKnown`, `mapAskFor`, the last `getblocks` | `getblocks`, `getheaders`, `inv`, `getdata`, `block`, reconnection | no block is skipped; the download ends at the tip |
| Peer connections (`net.cpp`, `sync.h`) | `vNodes`, `vNodesDisconnected`, `nRefCount`, `semOutbound` and its grants | open, accept, copy, serve, disconnect, delete | no node is deleted while in use; grants are neither lost nor made; outbound connections are bounded |
| Address manager (`addrman.*`, `db.cpp`) | `mapInfo`, `mapAddr`, `vRandom`, the new and tried buckets, `peers.dat` | `Add_`, `Good_`, `GetAddr_`, write and read | its own `Check_`; a file that restores the tables |
| Wallet (`wallet.cpp`, `walletdb.cpp`) | `mapWallet`, spent flags, key pool, locator | sync, commit, select coins, rescan | spent flags follow the chain |
| BFXT tokens (`bfxt/`) | issued tokens and amounts in the database | issuance, transfer, burn | tokens are conserved |
| Kernel (`kernel.cpp`, `main.cpp`) | none: functions of the chain | stake modifier, retarget, rewards | the result depends on the block's own chain only |
| Miner, alerts, start-up, RPC, Qt | see `PROJECT.json` | | |

How they interact.  The message thread, the staking thread and the RPC threads all enter
`ProcessBlock` and `AcceptToMemoryPool` with `cs_main` held, so that two handlers never interleave.
Every `CTxDB` is a handle on one LMDB environment: the one that owns the batch of `WriteToDisk`
sees its own writes, every other one, opened deeper in the same call, sees the committed data.
That difference, and the fact that memory is changed before the batch is committed, is where the
interesting behaviours are:

* the process dies, or a block turns out bad, after the old branch was disconnected in the batch;
* an index record is written with a pointer that memory has not updated yet;
* the pool is refilled in the middle of a batch from the committed data;
* a block whose connection failed stays in the index in memory;
* a fork that is not the best chain is checked against spent marks of another chain;
* orphans with the same stake hold each other back, and the orphan pool is full;
* threads that read do not hold `cs_main`: they race with a resize of the memory map;
* a checkpoint makes the node switch to a chain with less trust, in several transactions of its own;
* socket handler, message handler and openers share the nodes under `cs_vNodes`, and some code
  touches them without it;
* the next batch of a download hangs on a single inventory, which both sides may filter as known;
* transactions come before their parents, and the pool of those that wait is bounded.

`PROJECT.json` lists these at their lines under `hazards`.

## 2 Modules and how they correspond to the code

| Module | Models | Extends |
|---|---|---|
| `LmdbGate` | `mdb_txn_safe`, `TxnBegin`, `do_resize`, thread by thread | |
| `Ledger` | the block tree, a view of the database, connect, disconnect, verify | |
| `TxMemPool` | the pool's operations on a pair of maps | `Ledger` |
| `ChainState` | the handler of a block and of a transaction, restart | `TxMemPool` |
| `BestChain` | abstract: a set of stored blocks and a best block, changed one block at a time | |
| `ChainUnbatched` | `ChainState` with a `TxnBegin` that may fail | `ChainState` |
| `SyncCheckpoint` | checkpoint messages and `SetBestChain` with transactions of its own | `Ledger` |
| `TxRelay` | announcements, requests, orphan transactions, relay | `TxMemPool` |
| `BlockSync` | the download of a chain, client and server | |
| `NodeLife` | threads, nodes, reference counts, the outbound semaphore | |
| `AddrMan` | the address tables and `peers.dat` | |
| `MC...` | the instances the runs use | |
| `LmdbGateProofs`, `LedgerProofs`, `ChainStateProofs`, `SyncCheckpointProofs`, `TxRelayProofs`, `BlockSyncProofs`, `NodeLifeProofs`, `AddrManProofs` | the theorems; `LedgerProofs` has those about the operators of `Ledger` and `TxMemPool` | |

**LmdbGate.**  One step is one access to the two atomics or one call into LMDB.  A thread is in the
constructor (take the gate, count, clear the gate), in `lmdb_txn_begin`, uses the transaction, ends
it, or is in the destructor; or it is in `do_resize` (take the gate, wait for the counter, move the
map, clear the gate).  The objects a thread may have on its stack at once are the cursor
transaction of `LoadBlockIndex`, a write transaction around or without a batch, and a local read
inside either; `live` holds the counted ones and `open` those with a begun LMDB transaction.  They
differ: `LoadBlockIndex` commits its transaction at line 1028 and keeps the counted object to its
end.  Writers hold `cs_main`, LMDB has its own writer mutex, and readers hold neither.  A move of an
`mdb_txn_safe` hands the count over and is no step of its own: the moved-from object has
`m_check` false.

**Ledger.**  A hash fixes a block's parent, transactions and proof, so the block tree is a constant
and a step only decides which of its blocks are stored, indexed and linked.  A transaction is a model
value with a set of inputs and a number of outputs; signatures, amounts, rewards and proofs are the
constant `Fails`, which names the first such check that refuses the block.  A view of the database
is a record of five parts: `blocks`, `next` (the `hashNext` records), `txpos` and `vSpent` (the
`CTxIndex`), `best`.  What `ConnectBlock` and `DisconnectBlock` do to it is one `EXCEPT` each, with
the loops over transactions and inputs turned into quantifiers; `CanConnect` has the order of the
loop in `InBlockBefore` and `SpentInBlockBefore`, which stand for `mapQueuedChanges`.
`VerifyInputsUnspent` keeps the two loops of `GetAlternateChainTxsUpToCommonAncestor` (mark unspent
what the main chain above the common ancestor has spent, spend again what the fork spends) and the
way its map of modified transactions is filled.

**TxMemPool.**  A pool is the pair `mapTx`, `mapNextTx`.  The recursion of `remove` is the least set
closed under spenders.

**ChainState.**  `disk` is the committed database and `batch` the one the batch's owner sees; `phase`
is the place of the handler:

| Phase | Code | Actions |
|---|---|---|
| `idle` | no handler runs | `ProcessBlock`, `ProcessOrphanBlock`, `AcceptTransaction` |
| `disconnect` | first loop of `Reorganize` | `DisconnectBlock` |
| `connect` | second loop, or `SetBestChainInner` | `ConnectBlock`, then `SetBestChainInner` or `Reorganize` |
| `resurrect` | the pool after a reorganisation | `ResurrectTransaction`, `SetBestChain` |
| `commit` | the end of `WriteToDisk` | `TxnCommit` |
| `orphans` | the work queue of `ProcessBlock` | `ProcessOrphanChild`, `NextInWorkQueue` |

`TxnAbort` leaves `disconnect` or `connect` when a check or a write fails, and `LoadBlockIndex`
stands for the death of the process at any step and the next start.  A refused block changes
nothing and is no step.  `ProcessBlock` contains all checks of `AcceptBlock` and what
`AddToBlockIndex` writes, because nothing outside the process can see a state in between; the
batch is cut into steps because a death or a failed write is.  Blocks are accepted without
synchronised checkpoints: `CheckSync` and a switch to a checkpoint are in `SyncCheckpoint`, and what
`ChainState` shows of the heaviest chain holds while no checkpoint overrules it.  `hashBestChain`, `nBestHeight` and
`nBestChainTrust` are functions of `pindexBest` and are not variables.

**BestChain** is what the chain database promises to a reader: a block is stored after its parent
and, in the same step, becomes the best block exactly if it is heavier, which it may only when its
chain is valid.  `ChainState` implements it with `stored` as the blocks of `disk` and `best` as its
best hash (`StoresAtomically`): only `TxnCommit` is a step of `BestChain`, and the steps of the
batch, aborts, deaths and restarts are stuttering steps.

**ChainUnbatched** composes the steps of `ChainState` with the result of the begin: when it has
failed, every write of the handler goes to `data` at once, and the assertion at the end of
`WriteToDisk` stops the process.

**SyncCheckpoint.**  A step is one committed LMDB transaction with the change of memory that follows
it; the process may die between two of them.  A message or an accepted block takes the handler
through `switch` (`SetBestChain` down to the fork and up to the first block of the new branch with
more trust or the checkpoint itself), `postponed` (one transaction for each remaining block) and
`write` (the checkpoint), or through `pubkey` and `reset` at a start with another master key.
`AcceptBlock` contains `CheckSync` and the ordinary switch to a heavier chain.  Inside a transaction
the two loops of `Reorganize` are the recursive functions of `DisconnectTo` and `ConnectTo`, which
carry a record of success, the view of the transaction and the pointers; `Reorganize` writes the best
hash once, after both, and `vpindexSecondary` is the set of the blocks still to be connected (their order is
that of their heights).  A postponed block that does not connect, or whose write fails, is "not
fatal": the handler goes on, with the best block of memory above the one of the database.  The history
variable `refused` records that this has happened.  `faults` chooses
once for a behaviour whether the process may die and whether writes may fail too.

**TxRelay.**  The node, its peers and an RPC thread.  The `tx` handler is cut into one step for each
orphan it tries, because it tries them in the order of their hashes; no other action is enabled
in between.  `AskTime` is what `AskFor` computes: `nRequestTime` is a local that starts at 0, so
`mapAlreadyAskedFor` is written and never read.  A peer may leave a request unanswered, a block may
confirm a transaction, and the clock runs.

**BlockSync.**  One client and one server over an ordered connection.  Blocks are integers: the
server's chain is 0, 1, ..., the client's fork is negative.  `PushGetBlocks` drops a repeated
request, `PushInventory` drops what `setInventoryKnown` holds, an `mruset` that forgets its
oldest entry at `KnownMax`; `Offer` is the loop of `SendMessages`, in which the set changes from one
inventory entry to the next, so that a block that was queued twice is sent once, or again after the
set has forgotten it; `GetData` sends the inventory of the last proof-of-work block when the
block in `hashContinue` is asked for.  A block without its parent is refused when its stake was seen
(`BlockDuplicate`), or becomes an orphan after `PruneOrphanBlocks` has dropped one (`BlockOrphan`).
`stakeSeen` is `setStakeSeenOrphan`, from which pruning erases nothing, and the history variable
`pruned` records the dropped blocks.

**NodeLife.**  A step is one critical section under `cs_vNodes` or what a thread does to one node
outside of it.  The program counters are `sock`, `msg` and `open`; `sockCopy` and `msgCopy` are the
`vNodesCopy` of the two handlers.  The socket handler holds `cs_vNodes` from `ReapNodes` to
`ReapDelete`; in between the nodes it disconnects are in `reaped`, and those whose grant it has posted
and not yet cleared in `released`.  `CSemaphoreGrant::Release` has no lock, and what can run
between its post and its clearing does: the grant of a node is released by the socket handler and
by `MoveTo`, which is `MoveToRelease`, `MoveToClear` and `MoveToGive`.  An opener connects by
address, or by name (`ByName`): `ConnectNode` looks for an existing node only by address.  The
opener of `-connect` has no grant (`NoGrant`) and moves none.  `SetNetworkNode` is followed by
`SetOneShot` for the names of `ProcessOneShot` (`OneShot`).  The `AddRef` of `ConnectNode` on an
existing node happens outside of the lock and is a read (`AddRefRead`) and a write (`AddRefWrite`) of
a plain `int`.  An address is `Shared` when an opener that looks there by address may find the
node of another opener, or of an inbound peer.

**AddrMan.**  Every operation holds `CAddrMan::cs` and is one step.  The random choices of the code are
choices of the action, and so is what the left-out statistics decide (which entry of a bucket is
terrible or oldest, whether an announcement is news).  `Serialize` names entries by their order
in the map of ids (`Nth`, `Before`), `Entries` are the two loops that read them back, and `Unserialize` rebuilds the
buckets and the counts.  `Restart` reads back the current tables or none.  A `peers.dat` that is older than the tables needs no variable of its own: every state is the
file of some later death, and from the state in which the file was written `Restart` goes to the
same tables.

## 3 What the runs check

| Run | Expect | States | Question |
|---|---|---|---|
| `lmdb_gate` | pass | 4 412, all interleavings of three threads | is the map moved only when no transaction is open, is the counter exact, does a resize end? |
| `chain_reorg` | pass | 46 624 | do database, memory and pool agree through all arrivals, failures and deaths, and does the database change one whole block at a time? |
| `chain_converge` | pass | 2 152, all arrival orders | does the node reach the heaviest chain? |
| `checkpoint` | pass | 97 677 | is the best chain bound to the accepted checkpoint, through deaths and errors, and is the last checkpoint reached? |
| `node_life` | pass | 2 999 632 | does a thread ever work on a deleted node, are reference counts and grants exact? |
| `relay` | pass | 158 960 | do the orphan maps agree, and does an orphan always wait for something? |
| `relay_reaches` | pass | 16 816 | does every announced transaction reach the pool and every peer? |
| `block_sync` | pass | 92 612 | does every batch start at a known block, and does the download end? |
| `addrman` | pass | 176 097 | does `Check_` hold after every operation, and is `peers.dat` faithful? |
| `chain_unbatched`, `chain_resurrect`, `sync_stake_tail` | violation | | does the code do what three of its comments say? |

Section 4 lists further configurations that are kept beside these runs.

**Bounds.**  *LmdbGate*: three threads let one resize, one hold a transaction and one wait for the gate.
*ChainState*: the block tree (`MCChainState.tla` draws it) has at most 11 blocks and 13 transactions and was
chosen by cases: two branches of which first one and then the other is heavier (a reorganisation of
two blocks, and back); the same transaction in both branches, so that it is disconnected and
connected again; two blocks with one stake; a block that spends what its own chain has spent
(`D3`); a block that spends an output only the other branch has (`X3`) with a child
that makes it heavy (`X4`); a block that only `ConnectBlock` refuses (`F4`); a coinbase that
matures within the tree, `CoinbaseMaturity = 1`; loose transactions of which one conflicts with a
block and one depends on the conflicting one.  `MaxOrphanBlocks` is 1 where the limit matters and
6 where it must not.  *SyncCheckpoint*: checkpoints on a branch that is lighter than the other one,
at its first and its third block (so that reconnects are postponed) and on a fork of that branch,
which goes on with a block that does not connect (`C3`); one change of the master key.  A postponed block is
refused when a checkpoint has made `B1` the best block, the fork's `C2` is stored above it, and `C3` arrives;
and wherever a write fails.  The master signs no block that does not connect: it could not be reached.  *TxRelay*: two peers, a diamond
(`b` spends `a` and `d`), a conflict (`e`), two children of `b`, one of them too large to be an
orphan, and room for two orphans, so that one of three is dropped.  *BlockSync*: the client's fork
leaves the chain two blocks below its tip; the server is three batches of three ahead, may find a block,
the known set holds two batches, and the connection may break once.  `MaxOrphanBlocks` is 0, so that the second
orphan drops the first.  `MaxToSend` ends a server that answers the same request again and again
before it sends; with twice its value the run passes too.  *NodeLife*: two nodes, an opener of
`-connect` and of a one-shot, an opener of two addresses of which one is what the one-shot's name resolves to, an inbound peer
with an address of its own, and two grants; a node is used once, which bounds
the run.  *AddrMan*: buckets of one and two entries, four addresses, one of them with two ports, so that eviction,
deletion and both target buckets of an evicted entry happen; `GetAddr_` shuffles one or two positions (`GetAddrPct = 75`,
`GetAddrMax = 2`), the second being the cap; `MaxId` bounds the entries ever
made between two starts.  `PerAddress` is the number of new buckets there, so that the limit itself is met only
by the theorems.  The configurations that look for a violation use the smallest instance that shows it.

**Properties of `chain_reorg`.**  `DiskIsLedger`: at every moment the process may die, the committed
transaction index is the replay of the committed best chain.  `DiskLinksBestChain`: the committed
`hashNext` records thread exactly that chain.  `BestChainIsValid`: it has no double spend and no
missing or immature input.  `NoForkSpendsTwice`: neither has any stored fork a double spend, which
is what `VerifyInputsUnspent` was written for.  `MemoryIsDisk`: between handlers memory agrees with
the database, after commits, aborts and restarts.  `BestIsHeaviest`: no stored block is heavier than
the best block, as long as no checkpoint demands another one.  `PoolIsConsistent` and `PoolIsUnconfirmed`: the two maps of the pool agree, and no
transaction of the pool is in the best chain.  `StoresAtomically`: the refinement of `BestChain`,
again without checkpoints.

**Properties of `checkpoint`.**  All of them speak of write errors, too.  `CheckpointOnBestChain`: the committed
checkpoint is on the committed best chain at every moment the process may die.  `DiskDescribesBest`: each of
the handler's transactions leaves a database that describes its best chain.  `NoReorgBelowCheckpoint`: no step
takes a block at or below the checkpoint out of the committed best chain.  These three hold until a postponed block is
refused (`refused`); the next postponed block is then connected on top of one that is not, and the database
describes no chain.  `MemoryIsDisk`: between handlers memory agrees with the database; only after a refusal may its
best block be above the database's, and it is then still on the same chain, with pointers and checkpoint
as committed.  `CheckpointIsAccepted`: the checkpoint is a stored block of the index, whatever failed.
`CheckpointIsReached`: a signed block after which no other can come becomes the accepted checkpoint, in behaviours
without deaths and errors.

**Properties of the other runs.**  `HeldIsAlive`: no thread works on a deleted node, and `RefCountExact`: its count
is its own reference and those of the handlers.  Both are about every node whose address is not `Shared`, inbound addresses
included, and `HeldIsAlive` leaves out the write of `fOneShot`; section 4 says what happens in these two cases.
`GrantsConserved` and `OutboundBounded` are about behaviours in which no connection was made to a shared address, where two threads
may post one grant; and the connections of `-connect`, which have no grant, are not bounded by it.
`SyncCompletes`: the client gets to the server's tip, unless its connection breaks or the block it needs next is one that
it had and `PruneOrphanBlocks` dropped.  `Convergence` is about an orphan pool that does not overflow, and
`AllReachPool` and `AllAreTold` about peers that answer.
`OrphanMapsAgree`: the by-previous index names exactly the orphans, and there are no more of
them than allowed.  `OrphansWait`: between two messages an orphan misses a parent, unless the parent came
in a block or from the RPC, which wake nobody.  `PoolIsClosed`: no two spenders of an
output, no transaction without its parents.  `BatchStartsAtKnownBlock`: the server resolves every
locator to a block that the client has, so that a batch leaves no gap.  `TablesAgree`: `Check_` and the sizes of the buckets.
`ReloadKeepsTables`: writing and reading `peers.dat` keeps every address, its table and its buckets.

**Fairness.**  `LmdbGate`: each thread that is inside the database code goes on running (weak fairness of
`Progress`).  Nothing is assumed about who wins the race for the gate, nor that a thread ever calls
the database.  `ChainState`: the handler runs to its end (weak fairness of `Handler`; it holds
`cs_main` and waits for nobody), and every block is offered again and again (strong fairness of
`Receive(b)`, because a block is acceptable only between two handlers).  The second is a statement
about the peers: a node asks every new peer for its chain with `getblocks`, asks for the missing
ancestors of an orphan, and `AskFor` repeats a request.  Convergence is checked without deaths and
write errors, since a process that dies for ever converges to nothing; `SyncCheckpoint` has the same
two assumptions for its handler, for blocks and for checkpoint messages (a peer sends the checkpoint
to each new connection), and its liveness speaks of behaviours without faults.  `TxRelay`: the message
thread works on its queues (`Work`, `SendMessages`), and a peer that has a transaction announces and
answers; losses are off where liveness is checked.  `BlockSync`: each side takes its messages and
sends its queues (weak fairness of a message being taken off a channel and of a queue being emptied, which only
the handlers do); `SyncCompletes` is about a connection that holds.  `NodeLife`: the handlers and openers go on running; only
`NodeLeak.cfg` uses it.

Each property of a passing run has a mutant in `PROJECT.json`: a changed definition, named after the mistake, under
which TLC finds the property violated.

## 4 Where the code does not do what it says

Three of these are runs of `PROJECT.json`, with the quoted lines under `findings`:

* `chain_unbatched`: when `lmdb_txn_begin` fails, `TxnBegin` returns true without a batch.  Every
  write of the block then commits by itself, the assertion at the end of `WriteToDisk` stops the
  process, and the database keeps a part of the block.
* `chain_resurrect`: `AcceptToMemoryPool` reads the committed data, where the disconnected
  transactions are still indexed, and refuses all of them.
* `sync_stake_tail`: the inventory that should trigger the next batch names the last proof-of-work
  block.  When the chain ends in proof-of-stake blocks the client has that block before the second
  batch is through; its next `getblocks` is a duplicate and is dropped, and the download stalls.

The others are configurations to run by hand; each ends with a counterexample.

| Command (`tlc -config ...`) | What the code says | What TLC shows |
|---|---|---|
| `LmdbGateFork.cfg MCLmdbGate` | "LMDB memory map needs to be resized, doing that now." (`txdb-lmdb.cpp:655`) | `LoadBlockIndex` reorganises away from a bad block with its own counted object alive; a resize at that moment waits for its own thread for ever |
| `ChainPruned.cfg MCChainState` | "Duplicate stake allowed only when there is orphan child block" (`main.cpp:1251`) | `PruneOrphanBlocks` forgets the orphan but not its stake: the orphan is refused from then on, its duplicate-stake parent never gets in, and the node stays on the lighter chain until it restarts |
| `ChainIndexStored.cfg MCChainState` | "writes a whole block in an ACID transaction" (`block.cpp:1482`) | a failed connection aborts the batch but leaves the block in `mapBlockIndex` and its stake in `setStakeSeen` |
| `ChainVerifyOnly.cfg MCChainState` | "we check whether this block is valid in the chain constructed from common ancestor to this" (`block.cpp:392`) | a fork block that spends an output which only the main chain created passes (`ConnectBlock` catches it if the fork ever wins) |
| `ChainVerifyAll.cfg MCChainState` | the same line | a valid fork block that is the first to spend a coinbase of its own fork is refused |
| `CheckpointPostponed.cfg MCSyncCheckpoint` | "errors now are not fatal" (`block.cpp:788`) | a postponed block that does not connect leaves memory on a best block above the database's (`BestIsCommitted`) |
| `CheckpointKey.cfg MCSyncCheckpoint` | "if checkpoint master key changed must reset sync-checkpoint" (`main.cpp:1647`) | a death between the commit of the key and the reset leaves the checkpoint of the old key for good |
| `NodeRelay.cfg MCNodeLife` | "wait until threads are done using it" (`net.cpp:809`) | `AcceptPendingSyncCheckpoint` walks `vNodes` without the lock and without references, and uses a node that has been deleted |
| `NodeAddRef.cfg MCNodeLife` | `assert(nRefCount >= 0)` (`net.h:304`) | the `AddRef` outside of the lock loses an update; the counter goes below zero |
| `NodeLeak.cfg MCNodeLife` | "hold in disconnected pool until all refs are released" (`net.cpp:798`) | a peer that closes before `fNetworkNode` is set leaves a node that is never deleted |
| `NodeOneShot.cfg MCNodeLife` | "wait until threads are done using it" (`net.cpp:809`) | `OpenNetworkConnection` writes `fOneShot` after `fNetworkNode` (`net.cpp:1675`); the socket handler may have released and deleted the node in between |
| `NodeTwoGrants.cfg MCNodeLife` | `CSemaphoreGrant` releases what it holds once (`sync.h:223`) | `MoveTo` of an opener that found the node and `grantOutbound.Release()` of the socket handler (`net.cpp:793`) both see `fHaveGrant` and both post: `semOutbound` has a grant too many from then on |
| `RelayWallet.cfg MCTxRelay` | "make sure all wallets know about the given transaction" (`main.cpp:145`) | an accepted orphan is not passed to the wallets: the call names the transaction of the message |
| `RelayRetry.cfg MCTxRelay` | "Each retry is 2 minutes after the last" (`net.h:381`) | two peers that announce a transaction are both asked at once |
| `SyncLongFork.cfg BlockSync` | "In case we are on a very long side-chain ... push another getblocks to continue." (`main.cpp:2165`) | the server filters the answer as known, and the download does not continue |
| `SyncPruned.cfg BlockSync` | "Trigger them to send a getblocks request for the next batch of inventory" (`main.cpp:2225`) | a block that `PruneOrphanBlocks` dropped is not announced again, since the server has it as known to the client, and the download stays before it |
| `SyncHeaders.cfg BlockSync` | "If locator is null, return the hashStop block" (`main.cpp:2320`) | the block is assigned to a second variable of the same name, and the answer is empty |
| `AddrEvict.cfg MCAddrMan` | "find the least recently tried among them" (`addrman.cpp:134`) | `SelectTried` returns the position the oldest entry was swapped away from: another entry is evicted |

## 5 What is proved

All theorems hold for every finite or infinite block tree, every set of transactions or addresses and any finite
number of threads that satisfy the assumptions named below.

| Module | Theorems | About |
|---|---|---|
| `LmdbGateProofs` | `GateTypes`, `CountIsExact`, `ResizeIsExclusive` | the gate, for any number of threads |
| `LedgerProofs` | `ConnectLedger`, `ConnectValid`, `ConnectComplete`, `DisconnectLedger`, `VerifyExcludesSpent` and the lemmas on links | one block connected to, disconnected from or verified against a view that describes a chain |
| `ChainStateProofs` | `ChainTypes`, `DiskIsAlwaysLedger`, `DiskAlwaysLinked`, `BestChainAlwaysValid`, `MemoryAlwaysDisk`, `BestAlwaysHeaviest`, `ForksNeverSpendTwice` | the handler, for every block tree |
| | `PoolAlwaysConsistent`, `PoolAlwaysUnconfirmed` | the pool |
| | `StoresBlocksAtomically` | `ChainState` implements `BestChain` |
| `SyncCheckpointProofs` | `CheckpointTypes`, `CheckpointAlwaysAccepted` | checkpoints, whichever writes fail |
| | `CheckpointStaysOnBestChain`, `DiskAlwaysDescribesBest`, `MemoryAlwaysIsDisk`, `CheckpointIsFinal` | checkpoints, in every behaviour; what the property says after a refused postponed block is less |
| | `ValidTreeKeepsCheckpoint` | on a tree of connectable blocks and without write errors nothing is ever refused, and the properties hold without that condition |
| `TxRelayProofs` | `RelayTypesHold`, `OrphanMapsAlwaysAgree`, `OrphansAlwaysWait`, `OrphansNeverInPool`, `PoolAlwaysClosed` | orphan transactions and pool, for any peers and transactions |
| `BlockSyncProofs` | `SyncTypes`, `BatchAlwaysStartsAtKnownBlock` | the download of blocks, for any chain, fork, limit and locator step |
| `NodeLifeProofs` | `NodeTypes`, `GrantsAlwaysConserved`, `HeldNodesAreAlive`, `RefCountsAreExact`, `OutboundAlwaysBounded` | threads and nodes, for any number of them |
| `AddrManProofs` | `TablesAlwaysSound`, `TablesAlwaysAgree`, `ReloadAlwaysKeepsTables` | the address tables and `peers.dat`, for any addresses, sources, hash functions and sizes |

**Assumptions.**  `ThreadsAssumption` (a finite set of threads with a loader).  `TreeAssumption`: blocks
form a tree, height and trust grow along it.  `TxAssumption`: inputs name outputs of
transactions; a block does not hold a transaction twice; a chain does not hold a coinbase
twice (it names its height); the genesis block has nothing to index.  `NoTxAssumption` and `ChainAssumption`: null
values are not values, and constants have their types.  `CheckpointAssumption`: the signed checkpoints
are blocks, and the bounds and faults have their types.  `SyncAssumption`: the client's fork is shorter than the
server's chain, and limits and sizes are positive.  `RelayAssumption`: the types of the relay's constants, and a clock that has run
for more than the two minutes of `AskFor`.  `NodeAssumption`: finitely many openers; a name is not an
address, and one-shots and `-connect` go by name.  `AddrAssumption`: the
hash functions give bucket numbers, bucket sizes and limits are positive, and no time is zero.  TLC evaluates all of them on the instances.

**The gate.**  `ResizeExclusive` is not inductive: that no transaction is open while the map moves
depends on the counter, on who holds the gate, and on what a thread has on its stack.  `GateInv`
adds that the gate is held by at most one thread and is set exactly while one holds it
(`GateMutex`), that the counted objects of a thread are nested as its program counter says
(`NestedScopes`), that an open transaction is counted (`OpenIsCounted`), and that nothing is
counted while the map moves (`ResizeAlone`).  The step that matters is `ResizeWaited`: the counter is the
cardinality of `live`, so zero means that `live` is empty, and the closed gate keeps it empty.

**The chain.**  `DiskIsLedger` speaks of the committed data and is changed by one action, `TxnCommit`;
what must be known is that the batch is the ledger of *its* chain at each step on the way.
`ChainInv` says so: while a batch is open it describes the chain that ends at `tip`
(`BatchDescribesTip`), `tip` walks down the old branch and up the new one (`TipOnTheWay`), memory is the
database's until the switch and the batch's after it (`MemoryFollows`), and the index in memory
covers what is stored (`IndexCoversDisk`).  `LedgerProofs` gives the two steps: connecting a block to a view that
describes the chain of its parent gives one that describes the chain of the block, and
disconnecting is the way back.  Both need that a transaction of the block is nowhere else in
its chain (`NoDuplicates`), or its index entry would be lost on the way down: the first transaction of the
block that is in the chain already would find its own inputs spent by itself, and a coinbase
is in a chain only once.  The proof does not use `CheckBIP30Attack`.

**Trust.**  `TrustInv` adds to `BestIsHeaviest` that an open batch stores exactly one block more than the
database, and that this block is heavier than the best one until it becomes the best one.
It also needs that the switch ends at the new block itself, with no reconnects to postpone (`NothingPostponed`).
This is a fact about `ChainState` alone, where no checkpoint makes a lighter block the best one: there `VerifyInputsUnspent`
reads every block of the fork from the database, so that a block left in memory by a failed reorganisation cannot be built upon,
and every other block below the new one is no heavier than the best.  `SyncCheckpoint` has the switch with postponed
blocks inside the batch of `AcceptBlock`.

**Forks.**  `NoForkSpendsTwice` rests on `VerifyExcludesSpent`, about one call of `VerifyInputsUnspent`.  What the fork
spends is in the map of modified transactions and is not unspent there.  What the chain below the fork
spends has its spent mark in the database, and the first loop leaves a mark at or below the common ancestor
alone.  There remain two ways in which the code takes an output for fresh although the database has it spent: the
fork, or the block itself, holds the output's transaction again.  The first would be a double spend in a
stored chain, which the invariant excludes, and the second is excluded by taking the first such transaction of
the block: its own inputs would be spent, too.  `ForkInv` carries the result of the call from `AcceptBlock` to
the commit.

**The pool.**  `PoolInv` relates the pool to the committed index before the switch and to the batch's after
it.  It needs `MemoryFollows` for the moment in between, when the two differ.

**The refinement.**  `TxnCommit` must be a `Store` of one block.  `TrustInv` names that block and says that
it is heavier than the old best block exactly when it is the new one; `ChainInv` gives the
validity of its chain and its stored parent.  Every other action leaves `disk` as it is.

**The checkpoints.**  Two invariants.  `StoredInv` holds whatever fails: the database holds the parents of its blocks, the
pointers in memory are the committed ones, and every block that may be named as best block, as a link of the
main chain or as checkpoint is stored.  Its proof follows the recursive functions of `Reorganize` through a
transaction of any length (their values exist by a least counterexample, since the prover has no
induction to instantiate).  `CheckpointInv` adds that the database describes its best chain after each
transaction of a switch, that this chain holds the checkpoint, and that `vpindexSecondary` is what lies between it
and the new checkpoint.  It is kept by every step but one: a postponed block that is refused, "not fatal" in the
code.  `CheckpointInv` is therefore conditional on `refused`, which stays true once it is
(`RefusedStays`), and covers every other failure, death or refusal.  `BehindInv` says what remains afterwards: the
best block of the database is below the one of memory, on the same chain; `MemoryIsDisk` follows from it, and
`CheckpointPostponed.cfg` is a behaviour in which the two differ.
`ValidTreeKeepsCheckpoint` shows that `refused` stays false when every block is connectable on its own
chain and no write fails, through `ConnectComplete`, the converse of `ConnectValid`: what makes a valid chain, `ConnectBlock`
accepts.

**The relay.**  `OrphansWait` speaks of the moments between two messages; `RelayInv` says what becomes of it while the
`tx` handler works.  An orphan that misses no parent any more, and did not get one from a block or the
RPC, is still to be done (`StillToDo`): it is in `vEraseQueue`, or a parent of it is in `vWorkQueue` and the inner loop has not
come to it under that parent.  The step that matters is the end of the inner loop, where the agreement of
the two maps says that every child of the first transaction has been tried.  `OrphansNotInPool` needs
`vEraseQueue` in the same way.  That `LimitOrphanTxSize` respects its bound is a fact about the
cardinality of a difference; `PoolIsClosed` survives a block because what it takes out of the pool is
in the index from then on.

**The download.**  A locator names blocks, and `BatchStartsAtKnownBlock` is about the one that the server finds.
`SyncInv` says that the index holds the whole chain of each of its blocks (`IndexIsClosed`; accepting a
block with its parent and the orphans above it keeps this), and that a locator under way is that of a block of
the index, which only grows.  Every entry of the locator is then in the index, however the steps grow; the
genesis block, which ends it, is on the server's chain, so that a first common entry exists.  The loops (`Entry`, `Offer`, `FlattenSeq`) are
recursive functions: `StepsExist` and `EveryStep` give their existence and what they keep.  That the orphans never
exceed `MaxOrphanBlocks` by more than the one just added is `PruneMakesRoom`.

**The nodes.**  `NodeInv` has two parts.  `PlacesInv`: a node is in one place and is nobody's before it
is in `vNodes`.  `ThreadsInv`, node by node and opener by opener: the count of a node is one for itself and one for
each handler that has copied it, and after the disconnection the first may be gone (`RefCountOK`); an
opener works on a node at the address it connects to (`OpenOK`), and when the address is not shared it has made that node, no other
opener works on it, and until `fNetworkNode` nobody has released it, because the socket handler releases the node's own
reference only of network and inbound nodes (`OwnOK`, `Made`).  That is why `HeldIsAlive` ends where `fOneShot` begins.  `RefCountOK`
and `OwnOK` are about addresses that are not shared, since `FindNode` then finds nothing and no count
changes outside of the lock.  A grant is in the semaphore, with an opener (`Holders`) or with a node (`Granted`), where a grant
that was posted and not yet cleared no longer counts (`Posted`).  `GrantsConserved` is preserved with `NodeInv`: in behaviours without
connections to shared addresses only the thread that posts a grant can clear it, and a grant that `MoveTo` gives to a node which
the socket handler is disconnecting, or has disconnected, is released with the node.  `OutboundOK` gives each outbound connection that `-connect` has not
made a grant, its own or its opener's; with `GrantsConserved` it bounds their number by an injection into the
holders of grants.

**The addresses.**  `Check_` is the code's own consistency check, and it is not inductive: it counts the places
of a tried entry without asking that they are in the bucket of its address, so that reading `peers.dat` could find that
bucket full, and it allows an entry with an id that is still to be given.  `Sound` excludes both.  It also says outright that
every position of `vRandom` names an entry, which `SwapRandom` needs and `Check_` implies only by counting.  Inside an operation the tables are not sound, and the lemmas say in what: between `Create` and the
insertion into a bucket, and around `ShrinkNew`, one entry has a wrong count (`Base` and `RefsBut`); when an entry becomes
tried, a place in a bucket changes hands (`PromoteKeeps`, for a bucket with room and for a full one alike).  That "there is certainly
place" in the bucket which takes a victim is the case split of `Evict`: its own bucket has room, or the one the
new entry has just left.  `SelectTried` may return any position of the bucket, which is all that these theorems need of
it.  For `peers.dat`, `Orig` is the entry that the j-th one read was; it is a bijection (`OrigIs`, from the
order of the ids).  `Loaded` is the invariant of the two loops.  A tried entry is never lost on the way: the entries that are
already in its bucket are distinct entries of the bucket of the same number in the tables that were written, and the
entry itself is another one there (`LoadedRoom`, by `Pigeons`).  A bucket of new entries is read whole, since
an entry was in no more than `PerAddress` of them (`BucketsRead`).

**Only model-checked.**  Liveness is out of the prover's reach: `ResizeCompletes`, `Convergence`,
`CheckpointIsReached`, `AllReachPool`, `AllAreTold`, `SyncCompletes`.  The action property of
`AddrEvict.cfg` and the other violations of section 4 are shown on the instances.

## 6 What is left out

* A failing commit: `commit` throws inside the deleter with which `WriteToDisk` ends its batch, which
  ends the process; in the models this is a death before the commit.
* `lmdb_resized`, which needs a second process that grows the map.
* `InvalidChainFound` and `nBestInvalidTrust`, the wallet's view of blocks, the BFXT and address-to-key records
  written in the same batch, and relay: no action of these modules reads them.
* In `ChainState`: `CheckSync` and `AcceptPendingSyncCheckpoint` (`block.cpp:1308-1312`, `1341`), which are in
  `SyncCheckpoint`, and the exemptions of a block that a pending checkpoint wants (`main.cpp:1253`, `1298`).  The refusal
  of a block with too little proof for its time (`main.cpp:1262-1284`) is one of the verdicts in `Fails`.
* In `SyncCheckpoint`: a write error while a postponed block is connected inside the batch of `AcceptBlock` aborts the
  batch, although the code would go on with it.
* In `BlockSync`: invalid blocks, and two blocks with one stake (those are in `ChainState`); `setStakeSeenOrphan` refuses only a block that
  was an orphan before.
* In `LmdbGate`: the moves of an `mdb_txn_safe`, which leave the number of counted objects as it is.
* The reorganisation `LoadBlockIndex` asks for when a stored block does not verify, except for its
  effect on the gate.  In `ChainState` stored blocks are good blocks and the verification changes nothing.
* Checkpoints: signatures, the hardened checkpoints, the permissive and advisory modes, and the master's own
  choice (`AutoSelectSyncCheckpoint`, `SendSyncCheckpoint`).  The first start of a data directory, before its
  first checkpoint is written.
* Relay: `mapRelay` and its expiry, bloom filters, the empty entries that `operator[]` leaves in
  `mapOrphanTransactionsByPrev`.  Peers: buffers, message headers, bans, file descriptors, UPnP.
* Address manager: `Attempt_`, `Connected_` and the statistics they keep; `Select_`, which changes nothing;
  a `peers.dat` from a program with other bucket counts.
* `Reorganize` resurrects only transactions above the last hard checkpoint; the tree of the model is above it.
* Scripts, signatures, hashes, amounts: their verdicts are constants.
* Parts with status `not_modelled` in `PROJECT.json`, with the reason there.  The `.ts` files under `qt/locale/`
  are Qt translation tables: XML without any behaviour.

## 7 Plan

1. Done: `LmdbGate`, `Ledger`, `TxMemPool`, `ChainState`, `BestChain`, `SyncCheckpoint`, `TxRelay`, `BlockSync`,
   `NodeLife`, `AddrMan` and their proofs; `ChainUnbatched`.
2. `Wallet`: spent flags, key pool and the locator that `SetBestChain` writes before the commit
   (`block.cpp:797`), against block connection and death.
3. Pure algorithms on bounded inputs: retarget, stake modifier selection, median time, BFXT
   conservation of tokens, each against a reference definition.
4. Berkeley DB use counts and flush, alerts, miner, start-up and shutdown order.
