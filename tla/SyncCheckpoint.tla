--------------------------- MODULE SyncCheckpoint ---------------------------
(***************************************************************************)
(* Synchronised checkpoints (checkpoints.cpp): a signed message names a      *)
(* block that must be on the best chain, and the node switches to its chain  *)
(* even when that chain has less trust (SetBestChain of block.cpp, with      *)
(* transactions of its own).                                                 *)
(*                                                                          *)
(* Every handler runs with cs_main held.  A step is one committed LMDB       *)
(* transaction with the change of memory that follows it, and the process    *)
(* may die between two steps.  The pool and the orphan blocks are in          *)
(* ChainState; CheckpointsMode is STRICT, its default.                        *)
(***************************************************************************)
EXTENDS Ledger

CONSTANTS
    Signed,          \* the blocks for which the master sends a checkpoint
    Upgrades,        \* how often a new program has another master public key
    Faults           \* the faults to consider, a subset of FaultKinds

FaultKinds == {"none", "deaths", "errors"}

ASSUME CheckpointAssumption ==
    /\ Signed \subseteq Block
    /\ Upgrades \in Nat
    /\ Faults \subseteq FaultKinds

VARIABLES
    mapBlockIndex, pnext, pindexBest,
    hashSyncCheckpoint,
    hashPendingCheckpoint,   \* NoBlock: none
    hashInvalidCheckpoint,
    disk,                    \* the committed database ...
    diskSync,                \* ... its hashSyncCheckpoint ...
    diskPubKey,              \* ... and its strCheckpointPubKey
    strMasterPubKey,         \* of the program
    syncKey,                 \* the key that signed hashSyncCheckpoint (history)
    phase,                   \* where the handler is
    cur,                     \* the checkpoint it works on
    vpindexSecondary,        \* the blocks SetBestChain still has to connect
    refused,                 \* whether SetBestChain ever refused a postponed block (history)
    faults                   \* what may happen: nothing, deaths, or failing writes too

memory == <<mapBlockIndex, pnext, pindexBest>>
checkpoint == <<hashSyncCheckpoint, hashPendingCheckpoint, hashInvalidCheckpoint>>
keys == <<diskPubKey, strMasterPubKey>>
handler == <<phase, cur, vpindexSecondary>>
vars == <<memory, checkpoint, disk, diskSync, keys, syncKey, handler, refused, faults>>

Crashes == faults # "none"
WriteErrors == faults = "errors"

TypeOK ==
    /\ mapBlockIndex \subseteq Block
    /\ pnext \in [Block -> Block \cup {NoBlock}]
    /\ pindexBest \in Block
    /\ hashSyncCheckpoint \in Block /\ diskSync \in Block
    /\ {hashPendingCheckpoint, hashInvalidCheckpoint, cur} \subseteq Block \cup {NoBlock}
    /\ disk \in Views
    /\ {diskPubKey, strMasterPubKey, syncKey} \subseteq 0..Upgrades
    /\ phase \in {"idle", "accepted", "switch", "postponed", "write", "pubkey", "reset"}
    /\ vpindexSecondary \subseteq Block
    /\ refused \in BOOLEAN
    /\ faults \in Faults

\* A node that has stored the genesis block, its first checkpoint and the key.
Init ==
    /\ mapBlockIndex = {Genesis} /\ pindexBest = Genesis
    /\ pnext = [b \in Block |-> NoBlock]
    /\ hashSyncCheckpoint = Genesis /\ diskSync = Genesis
    /\ hashPendingCheckpoint = NoBlock /\ hashInvalidCheckpoint = NoBlock
    /\ disk = GenesisView
    /\ diskPubKey = 0 /\ strMasterPubKey = 0 /\ syncKey = 0
    /\ phase = "idle" /\ cur = NoBlock /\ vpindexSecondary = {}
    /\ refused = FALSE
    /\ faults \in Faults

-----------------------------------------------------------------------------
(* SetBestChain, on a view of the database and the pointers in memory.      *)

Connect(s, c) ==
    IF s.ok /\ c \in s.view.blocks /\ CanConnect(s.view, c)
    THEN [s EXCEPT !.view = Connected(@, c, s.pnext)]
    ELSE [s EXCEPT !.ok = FALSE]

Disconnect(s, d) ==
    IF s.ok /\ d \in s.view.blocks /\ CanDisconnect(s.view, d)
    THEN [s EXCEPT !.view = Disconnected(@, d)]
    ELSE [s EXCEPT !.ok = FALSE]

\* The loop over vDisconnect: the blocks of the chain of best above f, the highest
\* first.
DisconnectTo(s, best, f) ==
    LET child == [d \in Anc[best] \ {best} |-> CHOOSE c \in Anc[best] \ {Genesis} : Prev[c] = d]
        at[d \in Anc[best]] == IF d = best THEN s ELSE Disconnect(at[child[d]], child[d])
    IN  at[f]

\* The loop over vConnect: the blocks of the chain of b that are not in base, the
\* lowest first.
ConnectTo(s, base, b) ==
    LET at[c \in Block] == IF c \in base THEN s ELSE Connect(at[Prev[c]], c) IN at[b]

Link(next, S) == [b \in Block |-> IF \E c \in S : Prev[c] = b
                                  THEN CHOOSE c \in S : Prev[c] = b ELSE next[b]]
Unlink(next, S) == [b \in Block |-> IF \E d \in S : Prev[d] = b THEN NoBlock ELSE next[b]]

\* SetBestChainInner: the block becomes the best block on disk, and its parent
\* points to it.
SetBestChainInner(s, c) ==
    LET r == Connect(s, c)
    IN  IF r.ok THEN [r EXCEPT !.view = WithBest(@, c), !.pnext = Link(@, {c})] ELSE r

pfork(best, b) == CHOOSE f \in Anc[best] \cap Anc[b] : Anc[best] \cap Anc[b] \subseteq Anc[f]

\* Mutant: the best block on disk is not written.
Reorganize_KeepsBest(s, best, b) ==
    LET down == DisconnectTo(s, best, pfork(best, b))
        up   == ConnectTo(down, Anc[best], b)
    IN  IF up.ok
        THEN [up EXCEPT !.pnext = Link(Unlink(@, Anc[best] \ Anc[b]), Anc[b] \ Anc[best])]
        ELSE up

\* Reorganize(b), from the best block in memory: vDisconnect, then vConnect, then
\* WriteHashBestChain.  The pointers in memory change after that.
Reorganize(s, best, b) ==
    LET down == DisconnectTo(s, best, pfork(best, b))
        up   == ConnectTo(down, Anc[best], b)
    IN  IF up.ok
        THEN [up EXCEPT !.view = WithBest(@, b),
                        !.pnext = Link(Unlink(@, Anc[best] \ Anc[b]), Anc[b] \ Anc[best])]
        ELSE up

\* The first block of the chain of b that has more trust than the best block, or
\* b itself.
pindexIntermediate(best, b) ==
    CHOOSE a \in Anc[b] \ {Genesis} :
        /\ a = b \/ ChainTrust[a] > ChainTrust[best]
        /\ ChainTrust[Prev[a]] <= ChainTrust[best]

\* Where the first transaction of SetBestChain gets to, with the block itself when
\* it is on top of the best block.
FirstTip(best, b) == IF Prev[b] = best THEN b ELSE pindexIntermediate(best, b)

\* The first transaction of SetBestChain: the block on top of the best block, or a
\* reorganisation to pindexIntermediate.
FirstSwitch(s, best, b) ==
    IF Prev[b] = best THEN SetBestChainInner(s, b) ELSE Reorganize(s, best, FirstTip(best, b))

\* "Postponing reconnects": the blocks after pindexIntermediate.
Postponed(best, b) == Anc[b] \ Anc[FirstTip(best, b)]

\* The loop over vpindexSecondary: the blocks of the chain of b that are not in
\* base.  It ends at the first block that fails.
ConnectFurther(s, base, b) ==
    LET at[c \in Block] == IF c \in base THEN s ELSE SetBestChainInner(at[Prev[c]], c) IN at[b]

\* SetBestChain inside the batch of WriteToDisk.  A postponed block that fails is
\* not an error.
SetBestChain(s, best, b) ==
    LET first == FirstSwitch(s, best, b)
    IN  IF first.ok THEN [ConnectFurther(first, Anc[FirstTip(best, b)], b) EXCEPT !.ok = TRUE]
        ELSE first

State(v) == [ok |-> TRUE, view |-> v, pnext |-> pnext]

-----------------------------------------------------------------------------
(* Blocks.                                                                  *)

\* Mutant: a block above the checkpoint is not traced back to it.
CheckSync_NoTrace(b) ==
    /\ hashSyncCheckpoint \in mapBlockIndex
    /\ Height[b] = Height[hashSyncCheckpoint] => b = hashSyncCheckpoint
    /\ Height[b] < Height[hashSyncCheckpoint] => b \in mapBlockIndex

\* CheckSync: only a descendant of the checkpoint, or a block already known below
\* it, passes.
CheckSync(b) ==
    /\ hashSyncCheckpoint \in mapBlockIndex
    /\ Height[b] > Height[hashSyncCheckpoint] => hashSyncCheckpoint \in Anc[Prev[b]]
    /\ Height[b] = Height[hashSyncCheckpoint] => b = hashSyncCheckpoint
    /\ Height[b] < Height[hashSyncCheckpoint] => b \in mapBlockIndex

\* ProcessBlock and AcceptBlock: the block is stored and, when its chain has more
\* trust, SetBestChain runs in the same batch.  When that fails the batch is
\* aborted, and the index in memory keeps the block.
AcceptBlock(b) ==
    /\ phase = "idle"
    /\ b \notin mapBlockIndex /\ Prev[b] \in mapBlockIndex
    /\ Fails[b] \notin {"check", "accept"}
    /\ VerifyInputsUnspent(disk, mapBlockIndex, pnext, pindexBest, b)
    /\ CheckSync(b)
    /\ mapBlockIndex' = mapBlockIndex \cup {b}
    /\ LET stored == State(WithNewBlock(disk, b))
           heavier == ChainTrust[b] > ChainTrust[pindexBest]
       IN  \E s \in {IF heavier THEN SetBestChain(stored, pindexBest, b) ELSE stored} :
           \/ /\ s.ok
              /\ disk' = s.view /\ pnext' = s.pnext
              /\ pindexBest' = IF heavier THEN b ELSE pindexBest
              /\ refused' = (refused \/ (heavier /\ s.view.best # b))
              /\ phase' = "accepted"
           \/ /\ ~s.ok \/ (heavier /\ WriteErrors)
              /\ UNCHANGED <<disk, pnext, pindexBest, refused, phase>>
    /\ UNCHANGED <<checkpoint, diskSync, keys, syncKey, cur, vpindexSecondary>>

-----------------------------------------------------------------------------
(* Checkpoints.                                                             *)

IsDescendant(c) == Height[c] > Height[hashSyncCheckpoint] /\ hashSyncCheckpoint \in Anc[c]

\* Mutant: a checkpoint need only be higher than the current one.
ValidateSyncCheckpoint_ByHeight(c) == Height[c] > Height[hashSyncCheckpoint]

\* ValidateSyncCheckpoint returns true ...
ValidateSyncCheckpoint(c) == hashSyncCheckpoint \in mapBlockIndex /\ IsDescendant(c)

\* ... or records a checkpoint of another branch.
InvalidAfter(c) ==
    IF IsDescendant(c) \/ c \in Anc[hashSyncCheckpoint] THEN hashInvalidCheckpoint ELSE c

\* Mutant: a failed ReadFromDisk is ignored.
StartCheckpoint_Unread(c) ==
    /\ phase' = IF IsInMainChain(pnext, pindexBest, c) \/ c \notin disk.blocks THEN "write"
                ELSE "switch"
    /\ cur' = c
    /\ UNCHANGED <<checkpoint, vpindexSecondary>>

\* Mutant: only a chain with more trust is switched to.
StartCheckpoint_OnlyHeavier(c) ==
    /\ phase' = IF IsInMainChain(pnext, pindexBest, c) THEN "write"
                ELSE IF c \in disk.blocks /\ ChainTrust[c] > ChainTrust[pindexBest]
                THEN "switch" ELSE "idle"
    /\ cur' = IF phase' = "idle" THEN NoBlock ELSE c
    /\ UNCHANGED <<checkpoint, vpindexSecondary>>

\* What AcceptPendingSyncCheckpoint and ProcessSyncCheckpoint do with a valid
\* checkpoint: switch to its chain unless it is on the best chain, and write it.
\* A block that is not stored cannot be read and ends the handler.
StartCheckpoint(c) ==
    /\ phase' = IF IsInMainChain(pnext, pindexBest, c) THEN "write"
                ELSE IF c \in disk.blocks THEN "switch" ELSE "idle"
    /\ cur' = IF phase' = "idle" THEN NoBlock ELSE c
    /\ UNCHANGED <<checkpoint, vpindexSecondary>>

\* AcceptBlock ends: a pending checkpoint whose block is known is taken up.
AcceptPendingSyncCheckpoint ==
    /\ phase = "accepted"
    /\ IF hashPendingCheckpoint \notin mapBlockIndex
       THEN phase' = "idle" /\ UNCHANGED <<checkpoint, cur, vpindexSecondary>>
       ELSE IF ValidateSyncCheckpoint(hashPendingCheckpoint)
       THEN StartCheckpoint(hashPendingCheckpoint)
       ELSE /\ hashPendingCheckpoint' = NoBlock
            /\ hashInvalidCheckpoint' = InvalidAfter(hashPendingCheckpoint)
            /\ phase' = "idle"
            /\ UNCHANGED <<hashSyncCheckpoint, cur, vpindexSecondary>>
    /\ UNCHANGED <<memory, disk, diskSync, keys, syncKey, refused>>

\* The checkpoint message of the master: of an unknown block it stays pending, in
\* the place of any other pending one.
ProcessSyncCheckpoint(c) ==
    /\ phase = "idle"
    /\ IF c \notin mapBlockIndex
       THEN hashPendingCheckpoint' = c
              /\ UNCHANGED <<hashSyncCheckpoint, hashInvalidCheckpoint, handler>>
       ELSE IF ValidateSyncCheckpoint(c) THEN StartCheckpoint(c)
       ELSE hashInvalidCheckpoint' = InvalidAfter(c)
              /\ UNCHANGED <<hashSyncCheckpoint, hashPendingCheckpoint, handler>>
    /\ UNCHANGED <<memory, disk, diskSync, keys, syncKey, refused>>

\* SetBestChain of the checkpoint: its first transaction, committed before the
\* pointers in memory change.
SwitchToCheckpoint ==
    /\ phase = "switch"
    /\ LET s == FirstSwitch(State(disk), pindexBest, cur)
       IN  \/ /\ s.ok
              /\ disk' = s.view /\ pnext' = s.pnext
              /\ vpindexSecondary' = Postponed(pindexBest, cur)
              /\ phase' = "postponed"
              /\ UNCHANGED <<hashInvalidCheckpoint, cur>>
           \/ /\ ~s.ok \/ WriteErrors
              /\ hashInvalidCheckpoint' = cur
              /\ phase' = "idle" /\ cur' = NoBlock
              /\ UNCHANGED <<disk, pnext, vpindexSecondary>>
    /\ UNCHANGED <<mapBlockIndex, pindexBest, hashSyncCheckpoint, hashPendingCheckpoint, diskSync,
                   keys, syncKey, refused>>

\* The lowest postponed block, in a transaction of its own.  The first that fails
\* ends the loop.
ConnectPostponed ==
    /\ phase = "postponed"
    /\ \E c \in vpindexSecondary :
         /\ Prev[c] \notin vpindexSecondary
         /\ LET s == SetBestChainInner(State(disk), c)
            IN  \/ /\ s.ok
                   /\ disk' = s.view /\ pnext' = s.pnext
                   /\ vpindexSecondary' = vpindexSecondary \ {c}
                   /\ UNCHANGED refused
                \/ /\ ~s.ok \/ WriteErrors
                   /\ vpindexSecondary' = {}
                   /\ refused' = TRUE
                   /\ UNCHANGED <<disk, pnext>>
    /\ UNCHANGED <<mapBlockIndex, pindexBest, checkpoint, diskSync, keys, syncKey, phase, cur>>

\* Mutant: the best block in memory is left alone.
SwitchDone_KeepsBest ==
    /\ phase = "postponed" /\ vpindexSecondary = {}
    /\ phase' = "write"
    /\ UNCHANGED <<memory, disk, checkpoint, diskSync, keys, syncKey, cur, vpindexSecondary, refused>>

\* The end of SetBestChain: the checkpoint is the best block in memory.
SwitchDone ==
    /\ phase = "postponed" /\ vpindexSecondary = {}
    /\ pindexBest' = cur
    /\ phase' = "write"
    /\ UNCHANGED <<mapBlockIndex, pnext, disk, checkpoint, diskSync, keys, syncKey, cur,
                   vpindexSecondary, refused>>

\* Mutant: the pending checkpoint is written, whichever one was switched to.
WriteSyncCheckpoint_Pending ==
    /\ phase = "write"
    /\ diskSync' = hashPendingCheckpoint /\ hashSyncCheckpoint' = hashPendingCheckpoint
    /\ syncKey' = strMasterPubKey
    /\ hashPendingCheckpoint' = NoBlock
    /\ phase' = "idle" /\ cur' = NoBlock
    /\ UNCHANGED <<memory, hashInvalidCheckpoint, disk, keys, vpindexSecondary, refused>>

\* WriteSyncCheckpoint commits, memory follows, and nothing is pending any more.
WriteSyncCheckpoint ==
    /\ phase = "write"
    /\ diskSync' = cur /\ hashSyncCheckpoint' = cur /\ syncKey' = strMasterPubKey
    /\ hashPendingCheckpoint' = NoBlock
    /\ phase' = "idle" /\ cur' = NoBlock
    /\ UNCHANGED <<memory, hashInvalidCheckpoint, disk, keys, vpindexSecondary, refused>>

WriteSyncCheckpointFails ==
    /\ WriteErrors /\ phase = "write"
    /\ phase' = "idle" /\ cur' = NoBlock
    /\ UNCHANGED <<memory, checkpoint, disk, diskSync, keys, syncKey, vpindexSecondary, refused>>

-----------------------------------------------------------------------------
(* Death and start of the process.                                          *)

\* The process dies and starts, perhaps as a new program: LoadBlockIndex rebuilds
\* memory from the database.  What was pending is lost.
LoadBlockIndex ==
    /\ Crashes
    /\ mapBlockIndex' = disk.blocks /\ pnext' = disk.next /\ pindexBest' = disk.best
    /\ hashSyncCheckpoint' = diskSync
    /\ hashPendingCheckpoint' = NoBlock /\ hashInvalidCheckpoint' = NoBlock
    /\ strMasterPubKey' \in { k \in 0..Upgrades : k >= strMasterPubKey }
    /\ phase' = IF diskPubKey # strMasterPubKey' THEN "pubkey" ELSE "idle"
    /\ cur' = NoBlock /\ vpindexSecondary' = {}
    /\ UNCHANGED <<disk, diskSync, diskPubKey, syncKey, refused>>

\* LoadBlockIndex of main.cpp: another key is written ...
WriteCheckpointPubKey ==
    /\ phase = "pubkey"
    /\ diskPubKey' = strMasterPubKey
    /\ phase' = "reset"
    /\ UNCHANGED <<memory, checkpoint, disk, diskSync, strMasterPubKey, syncKey, cur,
                   vpindexSecondary, refused>>

\* ... and then the checkpoint is reset to the hardened one, the genesis block,
\* which is always in the main chain.
ResetSyncCheckpoint ==
    /\ phase = "reset"
    /\ diskSync' = Genesis /\ hashSyncCheckpoint' = Genesis /\ syncKey' = strMasterPubKey
    /\ phase' = "idle"
    /\ UNCHANGED <<memory, hashPendingCheckpoint, hashInvalidCheckpoint, disk, keys, cur,
                   vpindexSecondary, refused>>

-----------------------------------------------------------------------------
Handler ==
    \/ AcceptPendingSyncCheckpoint
    \/ SwitchToCheckpoint \/ ConnectPostponed \/ SwitchDone
    \/ WriteSyncCheckpoint \/ WriteSyncCheckpointFails
    \/ WriteCheckpointPubKey \/ ResetSyncCheckpoint

Next ==
    /\ \/ \E b \in Block \ {Genesis} : AcceptBlock(b)
       \/ \E c \in Signed : ProcessSyncCheckpoint(c)
       \/ Handler
       \/ LoadBlockIndex
    /\ UNCHANGED faults

Spec == Init /\ [][Next]_vars

\* When nothing fails, handlers run to their end and peers offer blocks again and
\* again, and every checkpoint to a node that connects.
WithoutFaults(A) == faults = "none" /\ A /\ UNCHANGED faults
FairSpec ==
    /\ Spec
    /\ WF_vars(WithoutFaults(Handler))
    /\ SF_vars(WithoutFaults(\E b \in Block \ {Genesis} : AcceptBlock(b)))
    /\ \A c \in Signed : SF_vars(WithoutFaults(ProcessSyncCheckpoint(c)))

-----------------------------------------------------------------------------
(* Properties.                                                              *)

\* The committed checkpoint is on the committed best chain, whichever write fails
\* and whenever the process dies: between the transactions of a reorganisation to
\* it, or before it is itself written.  Until a postponed block is refused.
CheckpointOnBestChain == ~refused => diskSync \in Anc[disk.best]

\* After every transaction of SetBestChain, in a batch or in many, the
\* transaction index and the hashNext records describe the committed best chain,
\* until a postponed block is refused: the next one is then connected on top of
\* a block that is not.
DiskDescribesBest ==
    ~refused => /\ LedgerOK(disk, disk.best)
                /\ LinksOK(disk.next, disk.best)
                /\ Anc[disk.best] \subseteq disk.blocks

\* Between handlers memory and database have the same main chain pointers and the
\* same checkpoint, and a best block on the same chain.  Only a postponed block
\* that was refused, by ConnectBlock or by a failing write, leaves the best
\* block in memory above the one in the database.
MemoryIsDisk ==
    phase = "idle" =>
        /\ pnext = disk.next /\ hashSyncCheckpoint = diskSync
        /\ disk.best \in Anc[pindexBest]
        /\ pindexBest # disk.best => refused

\* SetBestChain, "errors now are not fatal, we still did a reorganisation to a new
\* chain in a valid way": between handlers the best block in memory is the one in
\* the database.
BestIsCommitted == phase = "idle" => pindexBest = disk.best

\* CheckSync asserts "sync-checkpoint should always be accepted block": the
\* checkpoint is in the index whatever aborted, died and was loaded again, and
\* whichever writes failed.
CheckpointIsAccepted == hashSyncCheckpoint \in mapBlockIndex /\ diskSync \in disk.blocks

\* A checkpoint is final: a step of a program with the same key never takes a block
\* that was at or below the checkpoint out of the committed best chain, until a
\* postponed block is refused.
NoReorgBelowCheckpoint ==
    [][~refused => Anc[diskSync] \subseteq Anc[disk.best']]_vars

\* The checkpoint messages are obeyed in the end, in whatever order they and the
\* blocks arrive: the checkpoint gets to a signed block after which no other
\* one can come, although its chain may have less trust.
LastSigned ==
    LET valid == { c \in Signed : \A a \in Anc[c] : Fails[a] = "none" }
    IN  { c \in valid : \A d \in valid \ {c} : c \notin Anc[d] }
CheckpointIsReached == faults = "none" => <>[](diskSync \in LastSigned)

\* main.cpp: "if checkpoint master key changed must reset sync-checkpoint": between
\* handlers the checkpoint is the hardened one, or was signed with the key that
\* the database names.
CheckpointOfThisKey == phase = "idle" => syncKey = diskPubKey \/ diskSync = Genesis

-----------------------------------------------------------------------------
(* The inductive invariants.                                                *)

\* What holds whichever writes fail: the database holds the parents of its blocks,
\* and everything that memory or the database may name as best block, as part of
\* the main chain or as checkpoint is stored.
StoredInv ==
    /\ TypeOK
    /\ Genesis \in disk.blocks /\ disk.blocks \subseteq mapBlockIndex
    /\ \A b \in disk.blocks : Anc[b] \subseteq disk.blocks
    /\ pnext = disk.next /\ \A b \in Block : pnext[b] # NoBlock => b \in disk.blocks
    /\ pindexBest \in disk.blocks /\ disk.best \in disk.blocks
    /\ diskSync \in disk.blocks /\ hashSyncCheckpoint = diskSync
    /\ pnext[Genesis] = NoBlock => pindexBest = Genesis /\ disk.best = Genesis
    /\ phase \in {"switch", "postponed", "write"} => cur \in disk.blocks \ {Genesis}
    /\ phase = "postponed" => pnext[Genesis] # NoBlock /\ Genesis \notin vpindexSecondary

\* What holds until a postponed block is refused: the database describes its best
\* chain, which is the one in memory between two reorganisations and holds the
\* checkpoint; a reorganisation to a new checkpoint stays on the chain of both.
CheckpointInv ==
    ~refused =>
        /\ Describes(disk, disk.best)
        /\ diskSync \in Anc[disk.best]
        /\ phase # "postponed" => pindexBest = disk.best
        /\ phase \in {"switch", "postponed", "write"} => diskSync \in Anc[cur]
        /\ phase = "switch" => cur \notin Anc[disk.best]
        /\ phase = "postponed" => /\ disk.best \in Anc[cur]
                                  /\ vpindexSecondary = Anc[cur] \ Anc[disk.best]
        /\ phase = "write" => cur \in Anc[disk.best]

\* What holds after that too: the best block in memory is not below the database's.
BehindInv ==
    IF phase = "postponed" THEN disk.best \in Anc[cur] /\ vpindexSecondary \subseteq Anc[cur]
    ELSE disk.best \in Anc[pindexBest]

=============================================================================
