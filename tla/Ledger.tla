------------------------------- MODULE Ledger -------------------------------
(***************************************************************************)
(* Blocks, transactions and the transaction database (block.cpp,            *)
(* transaction.cpp, txdb-lmdb.cpp).  The block tree is a constant: a hash    *)
(* fixes a block's parent, its transactions and its proof.  A view is the   *)
(* content of the database as one CTxDB sees it: the committed data, or the *)
(* data with the writes of an open batch.  What ConnectBlock, DisconnectBlock*)
(* and VerifyInputsUnspent do to a view is given in closed form, one         *)
(* quantifier for each loop of the code.                                    *)
(***************************************************************************)
EXTENDS Integers, Sequences, FiniteSets

CONSTANTS
    Block, Genesis,
    NoBlock,           \* a null hash or pointer
    Prev,              \* hashPrevBlock of every block but the genesis
    Anc,               \* a block and its ancestors
    Height,            \* nHeight
    ChainTrust,        \* nChainTrust
    Tx,
    TxIn,              \* the outpoints <<tx, n>> a transaction spends
    NOut,              \* vout.size()
    CoinStakes,        \* the transactions with the shape of a coinstake
    Vtx,               \* the transactions of a block, in order
    Fails,             \* the first check with no view of the ledger that refuses
                       \* the block: "check" CheckBlock, "accept" the header and
                       \* proof rules of AcceptBlock, "connect" the reward rules
    CoinbaseMaturity

Out == UNION { {t} \X (1..NOut[t]) : t \in Tx }

TxsOf(b) == { Vtx[b][i] : i \in DOMAIN Vtx[b] }
Spends(b) == UNION { TxIn[t] : t \in TxsOf(b) }
IsCoinBase(t) == TxIn[t] = {}
IsGenerated(t) == IsCoinBase(t) \/ t \in CoinStakes

\* A hash chain is a tree; trust and height grow along it (GetBlockTrust is
\* positive for every target a block may have).  A coinbase names its height,
\* so no chain holds one twice, and CheckBlock refuses a block with the same
\* transaction twice or with a coinbase that is not its first transaction.
ASSUME TreeAssumption ==
    /\ Genesis \in Block /\ NoBlock \notin Block
    /\ Prev \in [Block \ {Genesis} -> Block]
    /\ Anc \in [Block -> SUBSET Block]
    /\ Height \in [Block -> Nat]
    /\ ChainTrust \in [Block -> Nat]
    /\ Anc[Genesis] = {Genesis}
    /\ \A b \in Block \ {Genesis} :
         /\ Anc[b] = Anc[Prev[b]] \cup {b}
         /\ b \notin Anc[Prev[b]]
         /\ Height[b] = Height[Prev[b]] + 1
         /\ ChainTrust[b] > ChainTrust[Prev[b]]

ASSUME TxAssumption ==
    /\ NOut \in [Tx -> Nat]
    /\ TxIn \in [Tx -> SUBSET Out]
    /\ CoinStakes \subseteq Tx
    /\ Vtx \in [Block -> Seq(Tx)]
    /\ Vtx[Genesis] = << >>
    /\ \A b \in Block : \A i, j \in DOMAIN Vtx[b] : Vtx[b][i] = Vtx[b][j] => i = j
    /\ \A b, c \in Block : \A t \in TxsOf(b) \cap TxsOf(c) :
         IsCoinBase(t) /\ b \in Anc[c] => b = c
    /\ Fails \in [Block -> {"none", "check", "accept", "connect"}]
    /\ CoinbaseMaturity \in Nat

-----------------------------------------------------------------------------
(* Views of the database.                                                   *)

\* blocks: WriteBlock and WriteBlockIndex; next: hashNext of the disk index;
\* txpos: CTxIndex::pos, or NoBlock when the transaction has no entry;
\* vSpent: the block of the spender, or NoBlock; best: WriteHashBestChain.
Views == [blocks : SUBSET Block,
          next   : [Block -> Block \cup {NoBlock}],
          txpos  : [Tx -> Block \cup {NoBlock}],
          vSpent : [Out -> Block \cup {NoBlock}],
          best   : Block]

\* The database after the genesis block was written: its coinbase is not
\* indexed, because SetBestChain does not connect the genesis block.
GenesisView == [blocks |-> {Genesis},
                next   |-> [b \in Block |-> NoBlock],
                txpos  |-> [t \in Tx |-> NoBlock],
                vSpent |-> [o \in Out |-> NoBlock],
                best   |-> Genesis]

ReadTxIndex(v, t) == v.txpos[t] # NoBlock
IsUnspent(v, o) == v.vSpent[o] = NoBlock

\* CDiskBlockIndex of a new block, whose pnext is null.
WithNewBlock(v, b) ==
    [v EXCEPT !.blocks = @ \cup {b}, !.next[b] = NoBlock]

WithBest(v, b) == [v EXCEPT !.best = b]

\* Neither a coinbase nor a coinstake is spent within CoinbaseMaturity blocks
\* of the block pos that holds it, seen from a block on top of best.
Matured(t, pos, b) ==
    IsGenerated(t) => ~(pos \in Anc[b] /\ Height[b] - Height[pos] < CoinbaseMaturity)

\* CheckBIP30Attack: a transaction may only overwrite one that is fully spent.
CheckBIP30Attack(v, t) ==
    ReadTxIndex(v, t) => \A n \in 1..NOut[t] : ~IsUnspent(v, <<t, n>>)

InBlockBefore(b, i, t) == \E j \in 1..(i - 1) : Vtx[b][j] = t
SpentInBlockBefore(b, i, o) == \E j \in 1..(i - 1) : o \in TxIn[Vtx[b][j]]

\* Mutant: a missing index entry is not an error of FetchInputs.
ConnectInputs_MissingIsFine(v, b, i) ==
    \A o \in TxIn[Vtx[b][i]] :
        /\ ~SpentInBlockBefore(b, i, o)
        /\ ~InBlockBefore(b, i, o[1]) /\ ReadTxIndex(v, o[1]) => IsUnspent(v, o)

\* FetchInputs and ConnectInputs of the i-th transaction of b, with
\* mapQueuedChanges holding what the transactions before it did.
ConnectInputs(v, b, i) ==
    \A o \in TxIn[Vtx[b][i]] :
        /\ ~SpentInBlockBefore(b, i, o)
        /\ IF InBlockBefore(b, i, o[1])
           THEN Matured(o[1], b, b)
           ELSE /\ ReadTxIndex(v, o[1])
                /\ v.txpos[o[1]] \in v.blocks
                /\ IsUnspent(v, o)
                /\ Matured(o[1], v.txpos[o[1]], b)

\* ConnectBlock succeeds.
CanConnect(v, b) ==
    /\ Fails[b] \notin {"check", "connect"}
    /\ \A i \in DOMAIN Vtx[b] : CheckBIP30Attack(v, Vtx[b][i]) /\ ConnectInputs(v, b, i)

\* Mutant: only the new transactions are written, not the spent marks in the
\* entries of their inputs.
Connected_ForgetsSpent(v, b, pnext) ==
    [v EXCEPT
       !.next   = [@ EXCEPT ![b] = pnext[b], ![Prev[b]] = b],
       !.txpos  = [t \in Tx |-> IF t \in TxsOf(b) THEN b ELSE @[t]]]

\* What a successful ConnectBlock writes: the block's own index record, with the
\* pnext it has in memory, the queued transaction indexes and the hashNext of
\* its parent's record.
Connected(v, b, pnext) ==
    [v EXCEPT
       !.next   = [@ EXCEPT ![b] = pnext[b], ![Prev[b]] = b],
       !.txpos  = [t \in Tx |-> IF t \in TxsOf(b) THEN b ELSE @[t]],
       !.vSpent = [o \in Out |-> IF o \in Spends(b) THEN b
                                 ELSE IF o[1] \in TxsOf(b) THEN NoBlock ELSE @[o]]]

\* DisconnectBlock succeeds: DisconnectInputs finds the index of every input.
CanDisconnect(v, b) ==
    \A o \in Spends(b) : ReadTxIndex(v, o[1])

\* Mutant: DisconnectBlock does not clear hashNext of the parent.
Disconnected_KeepsNext(v, b) ==
    [v EXCEPT
       !.txpos  = [t \in Tx |-> IF t \in TxsOf(b) THEN NoBlock ELSE @[t]],
       !.vSpent = [o \in Out |-> IF o \in Spends(b) \/ o[1] \in TxsOf(b)
                                 THEN NoBlock ELSE @[o]]]

\* DisconnectBlock, last transaction first: its inputs become unspent and its
\* own index is erased.
Disconnected(v, b) ==
    [v EXCEPT
       !.next   = [@ EXCEPT ![Prev[b]] = NoBlock],
       !.txpos  = [t \in Tx |-> IF t \in TxsOf(b) THEN NoBlock ELSE @[t]],
       !.vSpent = [o \in Out |-> IF o \in Spends(b) \/ o[1] \in TxsOf(b)
                                 THEN NoBlock ELSE @[o]]]

-----------------------------------------------------------------------------
(* VerifyInputsUnspent.                                                     *)

\* CBlockIndex::IsInMainChain, from the pointers in memory.
IsInMainChain(pnext, best, b) == pnext[b] # NoBlock \/ b = best

\* GetBlocksUpToCommonAncestorInMainChain: the walk back from the parent of b
\* to the first block of the main chain.
CommonAncestor(pnext, best, b) ==
    CHOOSE a \in Anc[Prev[b]] :
        /\ IsInMainChain(pnext, best, a)
        /\ \A c \in Anc[Prev[b]] \ Anc[a] : ~IsInMainChain(pnext, best, c)
InFork(pnext, best, b) == Anc[Prev[b]] \ Anc[CommonAncestor(pnext, best, b)]

\* The first loop of GetAlternateChainTxsUpToCommonAncestor, over the fork and b
\* itself: each input is indexed, or comes from this far up the fork.
ForkInputsFound(v, index, pnext, best, b) ==
    \A c \in InFork(pnext, best, b) \cup {b} : \A o \in Spends(c) :
        IF ReadTxIndex(v, o[1])
        THEN \/ IsUnspent(v, o)
             \/ v.vSpent[o] \in index /\ IsInMainChain(pnext, best, v.vSpent[o])
        ELSE \E d \in InFork(pnext, best, b) \cup {b} :
                 Height[d] <= Height[c] /\ o[1] \in TxsOf(d)

\* The outputs the first loop marks unspent: spent by the main chain above the
\* common ancestor, and wanted by the fork or by b.
Unspends(v, pnext, best, b) ==
    { o \in UNION { Spends(c) : c \in InFork(pnext, best, b) \cup {b} } :
        /\ ReadTxIndex(v, o[1]) /\ ~IsUnspent(v, o)
        /\ Height[v.vSpent[o]] > Height[CommonAncestor(pnext, best, b)] }

\* Mutant: the transactions of the fork are not spent again.
Respends_Nothing(pnext, best, b) == {}

\* The second loop spends again what the fork spends.
Respends(pnext, best, b) == UNION { Spends(c) : c \in InFork(pnext, best, b) }

\* The transactions of modifiedOutputsTxs.  A coinbase of the fork is there only
\* when the fork spends one of its outputs: the second loop skips it.
ModifiedTxs(v, pnext, best, b) ==
    { o[1] : o \in Unspends(v, pnext, best, b) \cup Respends(pnext, best, b) }
      \cup { t \in UNION { TxsOf(c) : c \in InFork(pnext, best, b) } : ~IsCoinBase(t) }

\* The i-th transaction of c has no spender before it, in c or in the blocks S.
FirstInFork(S, c, i) ==
    ~\E d \in S : \E j \in DOMAIN Vtx[d] :
        /\ Height[d] < Height[c] \/ (d = c /\ j < i)
        /\ \E n \in 1..NOut[Vtx[c][i]] : <<Vtx[c][i], n>> \in TxIn[Vtx[d][j]]

\* Whether an output of a transaction of modifiedOutputsTxs is null there: the
\* entry is the main chain's, unspent in places, or a fresh one for a transaction
\* of the fork, or what the database or the fork has.
ModifiedUnspent(v, pnext, best, b, o) ==
    LET unspent == Unspends(v, pnext, best, b)
        fork    == InFork(pnext, best, b)
        Fresh   == \E c \in fork : \E i \in DOMAIN Vtx[c] :
                      Vtx[c][i] = o[1] /\ ~IsCoinBase(o[1]) /\ FirstInFork(fork, c, i)
    IN  /\ o \notin Respends(pnext, best, b)
        /\ IF o[1] \in { u[1] : u \in unspent } THEN o \in unspent \/ IsUnspent(v, o)
           ELSE Fresh \/ (ReadTxIndex(v, o[1]) => IsUnspent(v, o))

\* Mutant: a block of the fork that is not in the database is skipped.
VerifyInputsUnspent_SkipsMissing(v, index, pnext, best, b) ==
    /\ ForkInputsFound(v, index, pnext, best, b)
    /\ \A o \in Spends(b) :
         IF o[1] \in ModifiedTxs(v, pnext, best, b)
         THEN ModifiedUnspent(v, pnext, best, b, o)
         ELSE ReadTxIndex(v, o[1]) /\ IsUnspent(v, o)

\* VerifyInputsUnspent(b), with the fork's blocks read from the database.
VerifyInputsUnspent(v, index, pnext, best, b) ==
    /\ InFork(pnext, best, b) \subseteq v.blocks
    /\ ForkInputsFound(v, index, pnext, best, b)
    /\ \A i \in DOMAIN Vtx[b] : \A o \in TxIn[Vtx[b][i]] :
         /\ ~SpentInBlockBefore(b, i, o)
         /\ IF o[1] \in ModifiedTxs(v, pnext, best, b)
            THEN ModifiedUnspent(v, pnext, best, b, o)
            ELSE \/ \E j \in 1..(i - 1) : Vtx[b][j] = o[1] /\ FirstInFork({b}, b, j)
                 \/ ReadTxIndex(v, o[1]) /\ IsUnspent(v, o)

-----------------------------------------------------------------------------
(* What the database and the chain should be, without reference to the code. *)

\* The transaction index is the replay of the chain that ends at tip.
LedgerOK(v, tip) ==
    /\ \A t \in Tx : v.txpos[t] # NoBlock => v.txpos[t] \in Anc[tip] /\ t \in TxsOf(v.txpos[t])
    /\ \A c \in Anc[tip] : \A t \in TxsOf(c) : v.txpos[t] = c
    /\ \A o \in Out : v.vSpent[o] # NoBlock => v.vSpent[o] \in Anc[tip] /\ o \in Spends(v.vSpent[o])
    /\ \A c \in Anc[tip] : \A o \in Spends(c) : v.vSpent[o] = c

\* hashNext links the blocks of the chain that ends at tip and no others.
LinksOK(next, tip) ==
    /\ \A c \in Anc[tip] \ {Genesis} : next[Prev[c]] = c
    /\ \A b \in Block : next[b] # NoBlock =>
         next[b] \in Anc[tip] \ {Genesis} /\ Prev[next[b]] = b

\* Every input of c was created before it in its chain and is spent by no
\* other transaction of its chain.
InputsUnspentInChain(c) ==
    \A i \in DOMAIN Vtx[c] : \A o \in TxIn[Vtx[c][i]] :
        /\ InBlockBefore(c, i, o[1]) \/ \E q \in Anc[c] \ {c} : o[1] \in TxsOf(q)
        /\ ~SpentInBlockBefore(c, i, o)
        /\ \A q \in Anc[c] \ {c} : o \notin Spends(q)

\* No coinbase or coinstake is spent before it is mature in the chain of c.
InputsMature(c) ==
    \A o \in Spends(c) : IsGenerated(o[1]) =>
        \A q \in Anc[c] : o[1] \in TxsOf(q) => Height[c] - Height[q] >= CoinbaseMaturity

ChainValid(b) == \A c \in Anc[b] : InputsUnspentInChain(c) /\ InputsMature(c)

\* No output is spent twice along any chain that ends in S.
SpendsOnce(S) == \A b \in S : \A c, d \in Anc[b] : c # d => Spends(c) \cap Spends(d) = {}

\* What a view of the database owes to the chain that ends at t.
Describes(v, t) ==
    /\ LedgerOK(v, t)
    /\ LinksOK(v.next, t)
    /\ Anc[t] \subseteq v.blocks
    /\ ChainValid(t)

=============================================================================
