------------------------------ MODULE TxRelay -------------------------------
(***************************************************************************)
(* How a loose transaction reaches the pool and leaves again (main.cpp,     *)
(* net.h, net.cpp): the "inv" and "tx" messages of a peer, the requests of  *)
(* SendMessages, the orphan transactions that wait for a parent, and the    *)
(* announcements to the other peers.                                        *)
(*                                                                          *)
(* The "tx" handler holds cs_main throughout.  It is cut into steps because *)
(* it tries the orphans in the order of their hashes, which is any order;   *)
(* while it works no other action is enabled.                               *)
(* mapAlreadyAskedFor is left out: it is written and never read.            *)
(***************************************************************************)
EXTENDS TxMemPool, FiniteSetsExt

CONSTANTS
    Peer,
    PeerHas,        \* the transactions a peer announces
    FirstBlock,     \* the block the chain starts with, on top of the genesis
    Mined,          \* the blocks that may be connected while the node runs
    Local,          \* the transactions that sendrawtransaction submits
    Large,          \* the transactions of more than 5000 bytes
    NoTrickle,      \* the transactions that are announced to all at once
    MaxOrphanTx,    \* -maxorphantx
    Retry,          \* the 2 minutes of AskFor
    Now, MaxClock,  \* the clock runs from Now to MaxClock (bound)
    Losses          \* whether a peer may leave a request unanswered

ASSUME RelayAssumption ==
    /\ PeerHas \in [Peer -> SUBSET Tx]
    /\ FirstBlock \in Block \ {Genesis} /\ Prev[FirstBlock] = Genesis
    /\ Mined \subseteq Block
    /\ Local \subseteq Tx /\ Large \subseteq Tx /\ NoTrickle \subseteq Tx
    /\ MaxOrphanTx \in Nat /\ Retry \in Nat
    /\ Now \in Nat /\ MaxClock \in Nat /\ Retry < Now /\ Now <= MaxClock
    /\ Losses \in BOOLEAN

VARIABLES
    pool,       \* mempool
    orphan,     \* mapOrphanTransactions and mapOrphanTransactionsByPrev
    view,       \* the transaction database
    synced,     \* the transactions that SyncWithWallets has passed on
    known,      \* setInventoryKnown of a peer
    toSend,     \* vInventoryToSend of a peer
    askFor,     \* mapAskFor of a peer: <<earliest time, transaction>>
    requests,   \* the getdata a peer has not answered, with their time
    work,       \* vWorkQueue of the "tx" handler from index i on
    tried,      \* the orphans of the inner loop that are done
    erase,      \* vEraseQueue
    clock       \* GetTime

handler == <<work, tried, erase>>
links == <<known, toSend, askFor, requests>>
vars == <<pool, orphan, view, synced, links, handler, clock>>

Parents(t) == { o[1] : o \in TxIn[t] }
NoLinks == [b \in Block |-> NoBlock]

-----------------------------------------------------------------------------
(* The orphan transactions.                                                 *)

AddOrphanTx(o, t) ==
    IF t \in o.tx \/ t \in Large THEN o
    ELSE [tx |-> o.tx \cup {t},
          byPrev |-> [p \in Tx |-> IF p \in Parents(t)
                                   THEN o.byPrev[p] \cup {t} ELSE o.byPrev[p]]]

\* Mutant: a dropped orphan stays in the index.
EraseOrphanTx_KeepsIndex(o, S) == [o EXCEPT !.tx = @ \ S]

\* EraseOrphanTx of each transaction of S.
EraseOrphanTx(o, S) ==
    [tx |-> o.tx \ S,
     byPrev |-> [p \in Tx |-> o.byPrev[p] \ { t \in S \cap o.tx : p \in Parents(t) }]]

\* Mutant: one orphan too many is kept.
LimitOrphanTxSize_OneMore(o) ==
    { EraseOrphanTx(o, S) :
        S \in kSubset(Max({0, Cardinality(o.tx) - MaxOrphanTx - 1}), o.tx) }

\* The results of LimitOrphanTxSize, which drops orphans at random.
LimitOrphanTxSize(o) ==
    { EraseOrphanTx(o, S) :
        S \in kSubset(Max({0, Cardinality(o.tx) - MaxOrphanTx}), o.tx) }

-----------------------------------------------------------------------------
(* The pool and the inventory.                                              *)

\* AcceptToMemoryPool fails and sets pfMissingInputs: every test before that
\* of FetchInputs has passed.
fMissingInputs(t) ==
    /\ ~IsCoinBase(t) /\ t \notin CoinStakes
    /\ t \notin pool.mapTx
    /\ \A o \in TxIn[t] : pool.mapNextTx[o] = NoTx
    /\ ~ReadTxIndex(view, t)
    /\ MissingInputs(pool, view, t)

AcceptTx(t) == AcceptToMemoryPool(pool, view, view.best, t)

AlreadyHave(t) == t \in pool.mapTx \/ t \in orphan.tx \/ ReadTxIndex(view, t)

\* RelayTransaction: PushInventory to every peer that does not know t (kn is
\* what the peers know by then).
RelayTransaction(kn, t) ==
    [q \in Peer |-> IF t \in kn[q] THEN toSend[q] ELSE toSend[q] \cup {t}]

\* The time AskFor gives a request: nRequestTime is still 0 when the 2 minutes
\* are added to it.
AskTime(now) == Max({0 + Retry, now})

-----------------------------------------------------------------------------
Init ==
    /\ pool = EmptyPool
    /\ orphan = [tx |-> {}, byPrev |-> [p \in Tx |-> {}]]
    /\ view = WithBest(Connected(WithNewBlock(GenesisView, FirstBlock), FirstBlock, NoLinks),
                       FirstBlock)
    /\ synced = TxsOf(FirstBlock)
    /\ known = [q \in Peer |-> {}]
    /\ toSend = [q \in Peer |-> {}]
    /\ askFor = [q \in Peer |-> {}]
    /\ requests = {}
    /\ work = << >> /\ tried = {} /\ erase = {}
    /\ clock = Now

\* cs_main is free.
Idle == work = << >>

\* The "inv" message of a transaction.
Inv(q, t) ==
    /\ Idle
    /\ t \in PeerHas[q] \ known[q]
    /\ known' = [known EXCEPT ![q] = @ \cup {t}]
    /\ askFor' = [askFor EXCEPT ![q] = IF AlreadyHave(t) THEN @
                                       ELSE @ \cup {<<AskTime(clock), t>>}]
    /\ UNCHANGED <<pool, orphan, view, synced, toSend, requests, handler, clock>>

\* SendMessages: the announcements that need not wait, and a getdata for each
\* request that is due and still wanted.
SendMessages(q, fSendTrickle) ==
    /\ Idle
    /\ toSend[q] # {} \/ askFor[q] # {}
    /\ LET new  == toSend[q] \ known[q]
           wait == IF fSendTrickle THEN {} ELSE new \ NoTrickle
           due  == { a \in askFor[q] : a[1] <= clock }
       IN  /\ known' = [known EXCEPT ![q] = @ \cup (new \ wait)]
           /\ toSend' = [toSend EXCEPT ![q] = wait]
           /\ askFor' = [askFor EXCEPT ![q] = @ \ due]
           /\ requests' = requests \cup
                { [peer |-> q, tx |-> t, at |-> clock] :
                    t \in { a[2] : a \in { d \in due : ~AlreadyHave(d[2]) } } }
    /\ UNCHANGED <<pool, orphan, view, synced, handler, clock>>

\* A "tx" message answers a request of peer q.
Receive(q, t) ==
    /\ Idle
    /\ \E r \in requests : r.peer = q /\ r.tx = t /\ requests' = requests \ {r}
    /\ known' = [known EXCEPT ![q] = @ \cup {t}]

\* The handler accepts the transaction and starts on the orphans that wait for
\* it.
TxAccepted(q, t) ==
    /\ Receive(q, t)
    /\ AcceptTx(t)
    /\ pool' = addUnchecked(pool, t)
    /\ synced' = synced \cup {t}
    /\ toSend' = RelayTransaction(known', t)
    /\ work' = <<t>> /\ tried' = {} /\ erase' = {t}
    /\ UNCHANGED <<orphan, view, askFor, clock>>

TxOrphan(q, t) ==
    /\ Receive(q, t)
    /\ fMissingInputs(t)
    /\ orphan' \in LimitOrphanTxSize(AddOrphanTx(orphan, t))
    /\ UNCHANGED <<pool, view, synced, toSend, askFor, handler, clock>>

TxRefused(q, t) ==
    /\ Receive(q, t)
    /\ ~AcceptTx(t) /\ ~fMissingInputs(t)
    /\ UNCHANGED <<pool, orphan, view, synced, toSend, askFor, handler, clock>>

\* The next orphan of the inner loop.
NextOrphan(t) == work # << >> /\ t \in orphan.byPrev[Head(work)] \ tried

\* Mutant: only the orphans of the transaction of the message are looked at.
OrphanAccepted_NotQueued(t) ==
    /\ NextOrphan(t)
    /\ AcceptTx(t)
    /\ pool' = addUnchecked(pool, t)
    /\ toSend' = RelayTransaction(known, t)
    /\ tried' = tried \cup {t} /\ erase' = erase \cup {t}
    /\ UNCHANGED <<orphan, view, synced, known, askFor, requests, work, clock>>

\* Mutant: an accepted orphan is not relayed.
OrphanAccepted_NotRelayed(t) ==
    /\ NextOrphan(t)
    /\ AcceptTx(t)
    /\ pool' = addUnchecked(pool, t)
    /\ work' = Append(work, t) /\ tried' = tried \cup {t} /\ erase' = erase \cup {t}
    /\ UNCHANGED <<orphan, view, synced, links, clock>>

\* Mutant: an accepted orphan is not put on the erase queue.
OrphanAccepted_NotErased(t) ==
    /\ NextOrphan(t)
    /\ AcceptTx(t)
    /\ pool' = addUnchecked(pool, t)
    /\ toSend' = RelayTransaction(known, t)
    /\ work' = Append(work, t) /\ tried' = tried \cup {t} /\ erase' = erase
    /\ UNCHANGED <<orphan, view, synced, known, askFor, requests, clock>>

\* An orphan is accepted.  SyncWithWallets is called with the transaction of
\* the message, which the wallets have, and not with the orphan.
OrphanAccepted(t) ==
    /\ NextOrphan(t)
    /\ AcceptTx(t)
    /\ pool' = addUnchecked(pool, t)
    /\ toSend' = RelayTransaction(known, t)
    /\ work' = Append(work, t) /\ tried' = tried \cup {t} /\ erase' = erase \cup {t}
    /\ UNCHANGED <<orphan, view, synced, known, askFor, requests, clock>>

OrphanRefused(t) ==
    /\ NextOrphan(t)
    /\ ~AcceptTx(t)
    /\ tried' = tried \cup {t}
    /\ erase' = IF fMissingInputs(t) THEN erase ELSE erase \cup {t}
    /\ UNCHANGED <<pool, orphan, view, synced, links, work, clock>>

\* The inner loop ends; with the last element of vWorkQueue the handler erases
\* what vEraseQueue names.
WorkDone ==
    /\ work # << >> /\ orphan.byPrev[Head(work)] \subseteq tried
    /\ work' = Tail(work) /\ tried' = {}
    /\ IF Tail(work) = << >>
       THEN orphan' = EraseOrphanTx(orphan, erase) /\ erase' = {}
       ELSE UNCHANGED <<orphan, erase>>
    /\ UNCHANGED <<pool, view, synced, links, clock>>

\* The RPC sendrawtransaction: a transaction that is in the pool is only announced
\* again.
SendRawTransaction(t) ==
    /\ Idle
    /\ t \in Local
    /\ IF t \in pool.mapTx THEN UNCHANGED <<pool, synced>>
       ELSE AcceptTx(t) /\ pool' = addUnchecked(pool, t) /\ synced' = synced \cup {t}
    /\ toSend' = RelayTransaction(known, t)
    /\ UNCHANGED <<orphan, view, known, askFor, requests, handler, clock>>

\* A block is connected on top of the best chain: its transactions leave the
\* pool, and nothing is said to the orphans.
ConnectBlock(b) ==
    /\ Idle
    /\ b \in Mined /\ b \notin view.blocks /\ Prev[b] = view.best
    /\ CanConnect(view, b)
    /\ view' = WithBest(Connected(WithNewBlock(view, b), b, NoLinks), b)
    /\ pool' = removeAll(pool, TxsOf(b))
    /\ synced' = synced \cup TxsOf(b)
    /\ UNCHANGED <<orphan, links, handler, clock>>

\* A peer does not answer: it has dropped the transaction, or the connection.
Lost(r) ==
    /\ Losses /\ r \in requests
    /\ requests' = requests \ {r}
    /\ UNCHANGED <<pool, orphan, view, synced, known, toSend, askFor, handler, clock>>

Tick ==
    /\ clock < MaxClock
    /\ clock' = clock + 1
    /\ UNCHANGED <<pool, orphan, view, synced, links, handler>>

Work ==
    \/ \E t \in Tx : OrphanAccepted(t) \/ OrphanRefused(t)
    \/ WorkDone

Answer(q, t) == TxAccepted(q, t) \/ TxOrphan(q, t) \/ TxRefused(q, t)

Next ==
    \/ \E q \in Peer, t \in Tx : Inv(q, t) \/ Answer(q, t)
    \/ \E q \in Peer, fSendTrickle \in BOOLEAN : SendMessages(q, fSendTrickle)
    \/ Work
    \/ \E t \in Tx : SendRawTransaction(t)
    \/ \E b \in Block : ConnectBlock(b)
    \/ \E r \in requests : Lost(r)
    \/ Tick

Spec == Init /\ [][Next]_vars

\* The message handler thread serves every peer in turn and picks the one that
\* gets the trickle at random, again and again; the peers announce what they have
\* and answer what they are asked.
Fairness ==
    /\ WF_vars(Work)
    /\ \A q \in Peer : WF_vars(SendMessages(q, TRUE))
    /\ \A q \in Peer, t \in Tx : WF_vars(Inv(q, t)) /\ WF_vars(Answer(q, t))

FairSpec == Spec /\ Fairness

-----------------------------------------------------------------------------
(* Properties.                                                              *)

OrphanMaps == [tx : SUBSET Tx, byPrev : [Tx -> SUBSET Tx]]
Requests == [peer : Peer, tx : Tx, at : Now..MaxClock]

\* Every variable has its type, and the handler tries only transactions it holds.
TypeOK ==
    /\ pool \in Pools
    /\ orphan \in OrphanMaps
    /\ view \in Views
    /\ synced \subseteq Tx
    /\ known \in [Peer -> SUBSET Tx] /\ toSend \in [Peer -> SUBSET Tx]
    /\ askFor \in [Peer -> SUBSET ((Now..MaxClock) \X Tx)]
    /\ requests \subseteq Requests
    /\ work \in Seq(Tx) /\ tried \subseteq orphan.tx /\ erase \subseteq Tx
    /\ clock \in Now..MaxClock

\* An orphan is listed under each of its parents, and what is listed is an orphan.
Indexed(o) == \A p \in Tx, t \in Tx : t \in o.byPrev[p] <=> t \in o.tx /\ p \in Parents(t)

\* The two maps of the orphans agree, whatever has been dropped, accepted or
\* refused: an orphan is listed under each of its parents, and what is listed is
\* an orphan.  The "tx" handler reads mapOrphanTransactions[hash] of what the
\* index lists, and would make an empty transaction of a hash that is not there.
\* Between two messages there are never more than -maxorphantx of them.
OrphanMapsAgree ==
    /\ Indexed(orphan)
    /\ Idle => Cardinality(orphan.tx) <= MaxOrphanTx

\* No orphan is forgotten: between two messages each one waits for a parent that
\* the node has not, or has a parent that came in a block or from the RPC
\* (neither wakes the orphans).
OrphansWait ==
    Idle => \A t \in orphan.tx :
        \/ MissingInputs(pool, view, t)
        \/ \E p \in Parents(t) : ReadTxIndex(view, p) \/ p \in Local

\* Between two messages no transaction is in the pool and an orphan at once, except
\* an orphan that the RPC has submitted again.
OrphansNotInPool == Idle => orphan.tx \cap pool.mapTx \subseteq Local

\* The pool holds no two spenders of an output, and no transaction without its
\* parents.
PoolIsClosed ==
    /\ PoolConsistent(pool)
    /\ \A t \in pool.mapTx : ~MissingInputs(pool, view, t)

\* SyncWithWallets "make sure all wallets know about the given transaction":
\* every transaction of the pool has been passed to the wallets.
PoolIsSynced == Idle => pool.mapTx \subseteq synced

\* AskFor, "Each retry is 2 minutes after the last": two open requests for the
\* same transaction are at least that far apart.
RetryIsSpaced ==
    \A r \in requests, s \in requests :
        r.tx = s.tx /\ r.peer # s.peer =>
            r.at - s.at >= Retry \/ s.at - r.at >= Retry

\* In whatever order the peers announce them, every transaction gets into the
\* pool, the ones that came before their parents too.
AllReachPool ==
    \A q \in Peer : \A t \in PeerHas[q] : <>(t \in pool.mapTx)

\* Every peer learns of a transaction that the pool accepts.
AllAreTold ==
    \A t \in Tx : t \in pool.mapTx ~> \A q \in Peer : t \in known[q]

-----------------------------------------------------------------------------
(* The inductive invariant of the proofs: what the properties above become   *)
(* while the handler works.                                                 *)

\* The handler has still to reach orphan t: it will be erased, or a parent of it
\* is on vWorkQueue and t is not done under the first one.
StillToDo(t) ==
    \/ t \in erase
    \/ \E i \in DOMAIN work : work[i] \in Parents(t) /\ (i = 1 => t \notin tried)

\* The queues are local to the handler.
QueuesAreLocal == Idle => tried = {} /\ erase = {}

OrphansAreFew == IsFiniteSet(orphan.tx) /\ Cardinality(orphan.tx) <= MaxOrphanTx

\* An orphan of which no parent is missing came before a block or the RPC brought
\* one, or is still to be done.
Waits(t) ==
    \/ MissingInputs(pool, view, t)
    \/ \E p \in Parents(t) : ReadTxIndex(view, p) \/ p \in Local
    \/ StillToDo(t)

RelayInv ==
    /\ TypeOK
    /\ Genesis \in view.blocks
    /\ QueuesAreLocal
    /\ Indexed(orphan)
    /\ OrphansAreFew
    /\ \A t \in orphan.tx : Waits(t)
    /\ orphan.tx \cap pool.mapTx \subseteq Local \cup erase
    /\ PoolIsClosed

=============================================================================
