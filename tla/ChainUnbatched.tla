--------------------------- MODULE ChainUnbatched ---------------------------
(***************************************************************************)
(* ChainState with a TxnBegin that may fail.  CTxDB::TxnBegin returns true   *)
(* all the same and leaves no active batch, so that every write of the      *)
(* block commits by itself (txdb-lmdb.h: Write, Erase); the TxnCommit or     *)
(* TxnAbort at the end of WriteToDisk then fails its assertion and the       *)
(* process dies.  data is what the database holds; disk is what it held     *)
(* when WriteToDisk began.                                                  *)
(***************************************************************************)
EXTENDS ChainState

VARIABLES
    activeBatch,    \* whether the CTxDB of the handler has a batch
    data            \* the content of the database

unbatchedVars == <<vars, activeBatch, data>>

UnbatchedInit == Init /\ activeBatch = TRUE /\ data = disk

\* AcceptBlock reaches WriteToDisk.
OpensBatch == phase \in {"idle", "orphans"} /\ phase' \notin {"idle", "orphans"}

\* TxnBegin, with either result.
TxnBegin ==
    /\ \E b \in Block \ {Genesis} : ProcessBlock(b) \/ ProcessOrphanChild(b)
    /\ OpensBatch
    /\ activeBatch' \in BOOLEAN
    /\ data' = IF activeBatch' THEN disk ELSE batch'

\* A write of the handler goes to the batch, or straight to the database.
Write ==
    /\ DisconnectBlock \/ ConnectBlock \/ SetBestChainInner \/ Reorganize
         \/ ResurrectTransaction \/ SetBestChain
    /\ data' = IF activeBatch THEN data ELSE batch'
    /\ UNCHANGED activeBatch

\* assert(activeBatch) of TxnCommit and TxnAbort: without a batch the process dies
\* here.
EndBatch ==
    /\ activeBatch
    /\ TxnCommit \/ TxnAbort
    /\ data' = disk'
    /\ UNCHANGED activeBatch

\* What does not touch the database.
Other ==
    /\ \/ \E b \in Block \ {Genesis} : ProcessOrphanBlock(b) \/ ProcessOrphanChild(b)
       \/ NextInWorkQueue
    /\ ~OpensBatch
    /\ UNCHANGED <<activeBatch, data>>

UnbatchedNext == TxnBegin \/ Write \/ EndBatch \/ Other

UnbatchedSpec == UnbatchedInit /\ [][UnbatchedNext]_unbatchedVars

-----------------------------------------------------------------------------
\* WriteToDisk "writes a whole block in an ACID transaction": whenever the process
\* dies, the transaction index in the database is the replay of the chain that
\* ends at its best block.
DataIsLedger == LedgerOK(data, data.best)

=============================================================================
