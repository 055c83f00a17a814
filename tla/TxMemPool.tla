----------------------------- MODULE TxMemPool ------------------------------
(***************************************************************************)
(* The operations of CTxMemPool (txmempool.cpp) on a pool, and the test of  *)
(* AcceptToMemoryPool (main.cpp).  A pool is the pair of maps of the class: *)
(* mapTx, here the set of its keys, and mapNextTx, which names for every    *)
(* outpoint the pool transaction that spends it.                            *)
(***************************************************************************)
EXTENDS Ledger

CONSTANT NoTx

ASSUME NoTxAssumption == NoTx \notin Tx

Pools == [mapTx : SUBSET Tx, mapNextTx : [Out -> Tx \cup {NoTx}]]

EmptyPool == [mapTx |-> {}, mapNextTx |-> [o \in Out |-> NoTx]]

addUnchecked(p, t) ==
    [mapTx     |-> p.mapTx \cup {t},
     mapNextTx |-> [o \in Out |-> IF o \in TxIn[t] THEN t ELSE p.mapNextTx[o]]]

\* Mutant: remove leaves the entries of mapNextTx behind.
removeAll_KeepsNext(p, S) == [p EXCEPT !.mapTx = @ \ S]

\* remove without recursion, of each transaction of S that is in the pool.
removeAll(p, S) ==
    [mapTx     |-> p.mapTx \ S,
     mapNextTx |-> [o \in Out |-> IF \E t \in S \cap p.mapTx : o \in TxIn[t]
                                  THEN NoTx ELSE p.mapNextTx[o]]]

\* The spenders of the outputs of the transactions of S.
Spenders(p, S) ==
    { p.mapNextTx[o] : o \in { u \in Out : u[1] \in S } } \ {NoTx}

\* What remove(t, fRecursive) takes out: t and, again and again, the spenders of
\* its outputs.
Dependents(p, t) ==
    { u \in p.mapTx : \A S \in SUBSET p.mapTx :
                         t \in S /\ Spenders(p, S) \subseteq S => u \in S }

\* removeConflicts of each transaction of S, when none of them is in the pool: every
\* pool transaction that spends an input of theirs goes, with what depends on it.
removeConflicts(p, S) ==
    removeAll(p, UNION { Dependents(p, u) :
                           u \in { p.mapNextTx[o] : o \in UNION { TxIn[t] : t \in S } } \ {NoTx} })

-----------------------------------------------------------------------------
(* AcceptToMemoryPool, with the view of the CTxDB it opens for itself.      *)

\* FetchInputs fails because a parent is in neither the index nor the pool.
MissingInputs(p, v, t) ==
    \E o \in TxIn[t] : ~ReadTxIndex(v, o[1]) /\ o[1] \notin p.mapTx

AcceptToMemoryPool(p, v, best, t) ==
    /\ ~IsCoinBase(t) /\ t \notin CoinStakes
    /\ t \notin p.mapTx
    /\ \A o \in TxIn[t] : p.mapNextTx[o] = NoTx
    /\ ~ReadTxIndex(v, t)
    /\ ~MissingInputs(p, v, t)
    /\ \A o \in TxIn[t] : ReadTxIndex(v, o[1]) =>
         IsUnspent(v, o) /\ Matured(o[1], v.txpos[o[1]], best)

Accepted(p, v, best, t) ==
    IF AcceptToMemoryPool(p, v, best, t) THEN addUnchecked(p, t) ELSE p

-----------------------------------------------------------------------------
(* What the two maps should say.                                            *)

\* mapNextTx names exactly the spenders in mapTx, so that no two of them spend
\* the same output.
PoolConsistent(p) ==
    \A o \in Out : \A t \in Tx :
        p.mapNextTx[o] = t <=> t \in p.mapTx /\ o \in TxIn[t]

=============================================================================
