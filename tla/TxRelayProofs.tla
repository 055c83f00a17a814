--------------------------- MODULE TxRelayProofs ----------------------------
(***************************************************************************)
(* The orphan transactions and the pool, for every set of peers, every       *)
(* transaction graph and every order of messages, blocks and RPC calls: no   *)
(* orphan is forgotten, the two maps agree, and the pool is closed.          *)
(***************************************************************************)
EXTENDS TxRelay, LedgerProofs, FiniteSetTheorems

-----------------------------------------------------------------------------
(* The operators.                                                           *)

\* The parents of a transaction are transactions.
LEMMA ParentsAreTx == ASSUME NEW t \in Tx PROVE Parents(t) \subseteq Tx
  BY TxAssumption DEF Parents, Out

\* FetchInputs fails exactly when some parent is in neither place.
LEMMA MissingParent ==
    ASSUME NEW p, NEW v, NEW t
    PROVE  MissingInputs(p, v, t) <=>
             \E x \in Parents(t) : ~ReadTxIndex(v, x) /\ x \notin p.mapTx
  BY DEF MissingInputs, Parents

\* A request is never due later than now: nRequestTime is 0 when the 2 minutes are
\* added to it.
LEMMA AskTimeIsNow == ASSUME NEW n \in Now..MaxClock PROVE AskTime(n) = n
<1>1. n \in Nat /\ Retry \in Nat /\ Retry < n
  BY RelayAssumption
<1>2. \E x \in {0 + Retry, n} : \A y \in {0 + Retry, n} : x >= y
  BY <1>1
<1> DEFINE m == CHOOSE x \in {0 + Retry, n} : \A y \in {0 + Retry, n} : x >= y
<1>3. m \in {0 + Retry, n} /\ \A y \in {0 + Retry, n} : m >= y
  BY <1>2
<1> HIDE DEF m
<1>4. m = n
  BY <1>1, <1>3
<1> QED BY <1>4 DEF AskTime, Max, m

\* Connecting a block on top of the best one adds its transactions to the index
\* and takes none away.
LEMMA BlockConnected ==
    ASSUME NEW v \in Views, NEW b \in Block \ {Genesis}
    PROVE  LET w == WithBest(Connected(WithNewBlock(v, b), b, NoLinks), b)
           IN  /\ w \in Views
               /\ v.blocks \subseteq w.blocks
               /\ \A t \in Tx : ReadTxIndex(w, t) <=> ReadTxIndex(v, t) \/ t \in TxsOf(b)
<1> DEFINE u == WithNewBlock(v, b)
           x == Connected(u, b, NoLinks)
           w == WithBest(x, b)
<1>1. NoLinks \in [Block -> Block \cup {NoBlock}]
  BY DEF NoLinks
<1>2. u \in Views
  BY ViewTypes
<1>3. u.txpos = v.txpos /\ v.blocks \subseteq u.blocks
  BY DEF WithNewBlock, Views
<1> HIDE DEF u
<1>4. x \in Views
  BY <1>1, <1>2, ViewTypes
<1>5. x.blocks = u.blocks /\ x.txpos = [t \in Tx |-> IF t \in TxsOf(b) THEN b ELSE u.txpos[t]]
  BY <1>2 DEF Connected, Views
<1> HIDE DEF x
<1>6. w \in Views
  BY <1>4, ViewTypes
<1>7. w.blocks = x.blocks /\ w.txpos = x.txpos
  BY <1>4 DEF WithBest, Views
<1> HIDE DEF w
<1>8. ASSUME NEW t \in Tx PROVE ReadTxIndex(w, t) <=> ReadTxIndex(v, t) \/ t \in TxsOf(b)
  BY <1>3, <1>5, <1>7, TreeAssumption DEF ReadTxIndex
<1>9. /\ w \in Views
      /\ v.blocks \subseteq w.blocks
      /\ \A t \in Tx : ReadTxIndex(w, t) <=> ReadTxIndex(v, t) \/ t \in TxsOf(b)
  BY <1>3, <1>5, <1>6, <1>7, <1>8
<1> QED BY <1>9 DEF w, x, u

\* EraseOrphanTx keeps the two maps in step.
LEMMA EraseKeepsIndex ==
    ASSUME NEW o \in OrphanMaps, NEW S, Indexed(o)
    PROVE  /\ EraseOrphanTx(o, S) \in OrphanMaps
           /\ EraseOrphanTx(o, S).tx = o.tx \ S
           /\ Indexed(EraseOrphanTx(o, S))
<1> DEFINE q == EraseOrphanTx(o, S)
<1>1. /\ q.tx = o.tx \ S
      /\ \A p \in Tx : q.byPrev[p] = o.byPrev[p] \ { t \in S \cap o.tx : p \in Parents(t) }
  BY DEF EraseOrphanTx
<1>2. q \in OrphanMaps
  BY DEF EraseOrphanTx, OrphanMaps
<1> HIDE DEF q
<1>3. Indexed(q)
  BY <1>1 DEF Indexed
<1> QED BY <1>1, <1>2, <1>3 DEF q

\* AddOrphanTx keeps them in step, and adds at most the new transaction.
LEMMA AddKeepsIndex ==
    ASSUME NEW o \in OrphanMaps, NEW t \in Tx, Indexed(o)
    PROVE  /\ AddOrphanTx(o, t) \in OrphanMaps
           /\ AddOrphanTx(o, t).tx \in {o.tx, o.tx \cup {t}}
           /\ Indexed(AddOrphanTx(o, t))
<1>1. CASE t \in o.tx \/ t \in Large
  BY <1>1 DEF AddOrphanTx
<1>2. CASE ~(t \in o.tx \/ t \in Large)
  <2> DEFINE q == [tx |-> o.tx \cup {t},
                   byPrev |-> [p \in Tx |-> IF p \in Parents(t)
                                            THEN o.byPrev[p] \cup {t} ELSE o.byPrev[p]]]
  <2>1. q = AddOrphanTx(o, t)
    BY <1>2 DEF AddOrphanTx
  <2>2. /\ q.tx = o.tx \cup {t}
        /\ \A p \in Tx : q.byPrev[p] = IF p \in Parents(t) THEN o.byPrev[p] \cup {t}
                                                            ELSE o.byPrev[p]
    OBVIOUS
  <2>3. q \in OrphanMaps
    BY DEF OrphanMaps
  <2> HIDE DEF q
  <2>4. Indexed(q)
    BY <2>2 DEF Indexed
  <2> QED BY <2>1, <2>2, <2>3, <2>4
<1> QED BY <1>1, <1>2

\* LimitOrphanTxSize leaves at most -maxorphantx orphans, in maps that agree.
LEMMA LimitKeepsIndex ==
    ASSUME NEW o \in OrphanMaps, Indexed(o), IsFiniteSet(o.tx), NEW r \in LimitOrphanTxSize(o)
    PROVE  /\ r \in OrphanMaps /\ Indexed(r)
           /\ r.tx \subseteq o.tx
           /\ IsFiniteSet(r.tx) /\ Cardinality(r.tx) <= MaxOrphanTx
<1> DEFINE n == Cardinality(o.tx)
           k == Max({0, n - MaxOrphanTx})
<1>1. n \in Nat /\ MaxOrphanTx \in Nat
  BY FS_CardinalityType, RelayAssumption
<1>2. k \in {0, n - MaxOrphanTx} /\ k >= 0 /\ k >= n - MaxOrphanTx
  <2> HIDE DEF n
  <2>1. \E x \in {0, n - MaxOrphanTx} : \A y \in {0, n - MaxOrphanTx} : x >= y
    BY <1>1
  <2>2. /\ (CHOOSE x \in {0, n - MaxOrphanTx} : \A y \in {0, n - MaxOrphanTx} : x >= y)
             \in {0, n - MaxOrphanTx}
        /\ \A z \in {0, n - MaxOrphanTx} :
             (CHOOSE x \in {0, n - MaxOrphanTx} : \A y \in {0, n - MaxOrphanTx} : x >= y) >= z
    BY <2>1
  <2>3. k \in {0, n - MaxOrphanTx} /\ \A z \in {0, n - MaxOrphanTx} : k >= z
    BY <2>2 DEF Max
  <2> QED BY <2>3
<1>3. PICK S \in SUBSET o.tx : Cardinality(S) = k /\ r = EraseOrphanTx(o, S)
  BY DEF LimitOrphanTxSize, kSubset
<1>4. r \in OrphanMaps /\ Indexed(r) /\ r.tx = o.tx \ S
  BY <1>3, EraseKeepsIndex
<1>5. o.tx \cap S = S
  BY <1>3
<1> HIDE DEF k
<1>6. IsFiniteSet(o.tx \ S) /\ Cardinality(o.tx \ S) = Cardinality(o.tx) - Cardinality(o.tx \cap S)
  BY FS_Difference, Zenon
<1>7. IsFiniteSet(r.tx) /\ Cardinality(r.tx) = n - k
  BY <1>3, <1>4, <1>5, <1>6
<1> HIDE DEF n
<1> QED BY <1>1, <1>2, <1>4, <1>7

-----------------------------------------------------------------------------
(* RelayInv, action by action.                                              *)

\* RelayInv holds initially.
LEMMA RelayInit == Init => RelayInv
<1> SUFFICES ASSUME Init PROVE RelayInv
  OBVIOUS
<1>1. FirstBlock \in Block \ {Genesis} /\ Now \in Nat /\ MaxClock \in Nat /\ Now <= MaxClock
  BY RelayAssumption
<1>2. view \in Views /\ Genesis \in view.blocks
  <2>1. GenesisView \in Views /\ Genesis \in GenesisView.blocks
    BY GenesisViewType DEF GenesisView
  <2> QED BY <1>1, <2>1, BlockConnected DEF Init
<1>3. TxsOf(FirstBlock) \subseteq Tx
  BY <1>1, OutTypes
<1>4. orphan.tx = {} /\ \A p \in Tx : orphan.byPrev[p] = {}
  BY DEF Init
<1>5. TypeOK
  <2>1. pool \in Pools /\ orphan \in OrphanMaps
    BY DEF Init, EmptyPool, Pools, OrphanMaps
  <2> QED BY <1>1, <1>2, <1>3, <2>1 DEF Init, TypeOK
<1>6. Indexed(orphan) /\ OrphansAreFew
  BY <1>4, FS_EmptySet, RelayAssumption DEF Indexed, OrphansAreFew
<1>7. PoolIsClosed
  BY EmptyConsistent DEF Init, PoolIsClosed, EmptyPool
<1> QED BY <1>2, <1>4, <1>5, <1>6, <1>7 DEF Init, RelayInv, QueuesAreLocal

\* A step that leaves the pool, the orphans, the database and the handler alone.
LEMMA RelayFrame ==
    ASSUME RelayInv, TypeOK', UNCHANGED <<pool, orphan, view, handler>>
    PROVE  RelayInv'
  BY DEF RelayInv, handler, QueuesAreLocal, Idle, OrphansAreFew, Waits, StillToDo, PoolIsClosed

\* The "inv" message.
LEMMA InvStep == ASSUME RelayInv, NEW q \in Peer, NEW t \in Tx, Inv(q, t) PROVE RelayInv'
<1>1. TypeOK
  BY DEF RelayInv
<1>2. <<AskTime(clock), t>> \in (Now..MaxClock) \X Tx
  BY <1>1, AskTimeIsNow DEF TypeOK
<1>3. known' \in [Peer -> SUBSET Tx] /\ askFor' \in [Peer -> SUBSET ((Now..MaxClock) \X Tx)]
  BY <1>1, <1>2 DEF TypeOK, Inv
<1>4. TypeOK' /\ UNCHANGED <<pool, orphan, view, handler>>
  BY <1>1, <1>3 DEF TypeOK, Inv, handler
<1> QED BY <1>4, RelayFrame

\* SendMessages.
LEMMA SendStep ==
    ASSUME RelayInv, NEW q \in Peer, NEW f \in BOOLEAN, SendMessages(q, f) PROVE RelayInv'
<1>1. TypeOK
  BY DEF RelayInv
<1>2. known' \in [Peer -> SUBSET Tx] /\ toSend' \in [Peer -> SUBSET Tx]
  BY <1>1 DEF TypeOK, SendMessages
<1>3. askFor' \in [Peer -> SUBSET ((Now..MaxClock) \X Tx)]
  BY <1>1 DEF TypeOK, SendMessages
<1>4. requests' \subseteq Requests
  <2>1. \A a \in askFor[q] : a[2] \in Tx
    BY <1>1 DEF TypeOK
  <2>2. clock \in Now..MaxClock /\ requests \subseteq Requests
    BY <1>1 DEF TypeOK
  <2>3. ASSUME NEW r \in requests' PROVE r \in requests \/ \E a \in askFor[q] : r = [peer |-> q, tx |-> a[2], at |-> clock]
    BY <2>3 DEF SendMessages
  <2> QED BY <2>1, <2>2, <2>3 DEF Requests
<1>5. TypeOK' /\ UNCHANGED <<pool, orphan, view, handler>>
  BY <1>1, <1>2, <1>3, <1>4 DEF TypeOK, SendMessages, handler
<1> QED BY <1>5, RelayFrame

\* An unanswered request.
LEMMA LostStep == ASSUME RelayInv, NEW r \in requests, Lost(r) PROVE RelayInv'
<1>1. TypeOK' /\ UNCHANGED <<pool, orphan, view, handler>>
  BY DEF RelayInv, TypeOK, Lost, handler
<1> QED BY <1>1, RelayFrame

\* The clock.
LEMMA TickStep == ASSUME RelayInv, Tick PROVE RelayInv'
<1>1. clock' \in Now..MaxClock
  BY RelayAssumption DEF RelayInv, TypeOK, Tick
<1>2. TypeOK' /\ UNCHANGED <<pool, orphan, view, handler>>
  BY <1>1 DEF RelayInv, TypeOK, Tick, handler, links
<1> QED BY <1>2, RelayFrame

\* The part of a "tx" message that does not depend on its transaction.
LEMMA ReceiveTypes ==
    ASSUME TypeOK, NEW q \in Peer, NEW t \in Tx, Receive(q, t)
    PROVE  known' \in [Peer -> SUBSET Tx] /\ requests' \subseteq Requests
  BY DEF TypeOK, Receive

\* A message that is refused.
LEMMA RefusedStep ==
    ASSUME RelayInv, NEW q \in Peer, NEW t \in Tx, TxRefused(q, t) PROVE RelayInv'
<1>1. TypeOK
  BY DEF RelayInv
<1>2. known' \in [Peer -> SUBSET Tx] /\ requests' \subseteq Requests
  BY <1>1, ReceiveTypes DEF TxRefused
<1>3. TypeOK' /\ UNCHANGED <<pool, orphan, view, handler>>
  BY <1>1, <1>2 DEF TypeOK, TxRefused, handler
<1> QED BY <1>3, RelayFrame

\* A message whose parents are missing: it becomes an orphan, and others may go.
LEMMA OrphanStep ==
    ASSUME RelayInv, NEW q \in Peer, NEW t \in Tx, TxOrphan(q, t) PROVE RelayInv'
<1>1. TypeOK /\ orphan \in OrphanMaps /\ Indexed(orphan) /\ IsFiniteSet(orphan.tx) /\ Idle
  BY DEF RelayInv, TypeOK, OrphansAreFew, TxOrphan, Receive
<1>2. fMissingInputs(t) /\ UNCHANGED <<pool, view, handler>>
  BY DEF TxOrphan
<1> DEFINE o == AddOrphanTx(orphan, t)
<1>3. o \in OrphanMaps /\ o.tx \in {orphan.tx, orphan.tx \cup {t}} /\ Indexed(o)
  BY <1>1, AddKeepsIndex
<1>4. IsFiniteSet(o.tx)
  BY <1>1, <1>3, FS_AddElement
<1>5. orphan' \in LimitOrphanTxSize(o)
  BY DEF TxOrphan
<1> HIDE DEF o
<1>6. /\ orphan' \in OrphanMaps /\ Indexed(orphan') /\ orphan'.tx \subseteq orphan.tx \cup {t}
      /\ IsFiniteSet(orphan'.tx) /\ Cardinality(orphan'.tx) <= MaxOrphanTx
  BY <1>3, <1>4, <1>5, LimitKeepsIndex
<1>7. tried = {} /\ erase = {} /\ tried' = {} /\ erase' = {} /\ work' = work
  BY <1>1, <1>2 DEF RelayInv, QueuesAreLocal, handler
<1>8. TypeOK'
  <2>1. known' \in [Peer -> SUBSET Tx] /\ requests' \subseteq Requests
    BY <1>1, ReceiveTypes DEF TxOrphan
  <2> QED BY <1>1, <1>6, <1>7, <2>1 DEF TypeOK, TxOrphan
<1>9. QueuesAreLocal' /\ OrphansAreFew' /\ Indexed(orphan)'
  BY <1>6, <1>7 DEF QueuesAreLocal, OrphansAreFew
<1>10. ASSUME NEW u \in orphan'.tx PROVE Waits(u)'
  <2>1. CASE u = t
    BY <1>2, <2>1 DEF fMissingInputs, Waits
  <2>2. CASE u # t
    BY <1>2, <1>6, <1>10, <2>2 DEF RelayInv, Waits, StillToDo, handler
  <2> QED BY <2>1, <2>2
<1>11. (orphan.tx \cap pool.mapTx \subseteq Local \cup erase)'
  BY <1>2, <1>6, <1>7 DEF RelayInv, fMissingInputs
<1>12. PoolIsClosed' /\ (Genesis \in view.blocks)'
  BY <1>2 DEF RelayInv, PoolIsClosed
<1> QED BY <1>8, <1>9, <1>10, <1>11, <1>12 DEF RelayInv

\* A transaction that AcceptToMemoryPool lets in leaves the pool closed, and only
\* its children miss less than before.
LEMMA PoolGrows ==
    ASSUME pool \in Pools, PoolIsClosed, NEW t \in Tx, AcceptTx(t),
           pool' = addUnchecked(pool, t), view' = view
    PROVE  /\ pool' \in Pools /\ pool'.mapTx = pool.mapTx \cup {t}
           /\ PoolIsClosed'
           /\ \A u \in Tx : MissingInputs(pool, view, u) =>
                            MissingInputs(pool', view', u) \/ t \in Parents(u)
<1>1. pool' \in Pools /\ pool'.mapTx = pool.mapTx \cup {t}
  BY PoolTypes DEF addUnchecked
<1>2. PoolConsistent(pool')
  BY AddConsistent DEF PoolIsClosed, AcceptTx, AcceptToMemoryPool
<1>3. ASSUME NEW u \in pool'.mapTx PROVE ~MissingInputs(pool', view', u)
  <2>1. ~MissingInputs(pool, view, u)
    BY <1>1, <1>3 DEF PoolIsClosed, AcceptTx, AcceptToMemoryPool
  <2> QED BY <1>1, <2>1 DEF MissingInputs
<1>4. ASSUME NEW u \in Tx, MissingInputs(pool, view, u)
      PROVE  MissingInputs(pool', view', u) \/ t \in Parents(u)
  <2>1. PICK x \in Parents(u) : ~ReadTxIndex(view, x) /\ x \notin pool.mapTx
    BY <1>4, MissingParent
  <2> QED BY <1>1, <2>1, MissingParent
<1> QED BY <1>1, <1>2, <1>3, <1>4 DEF PoolIsClosed

\* RelayTransaction gives every peer a set of transactions.
LEMMA RelayTypes ==
    ASSUME TypeOK, NEW t \in Tx, NEW kn PROVE RelayTransaction(kn, t) \in [Peer -> SUBSET Tx]
  BY DEF TypeOK, RelayTransaction

\* A message that is accepted: the orphans that no longer miss a parent are its
\* children, and it is on vWorkQueue.
LEMMA AcceptedStep ==
    ASSUME RelayInv, NEW q \in Peer, NEW t \in Tx, TxAccepted(q, t) PROVE RelayInv'
<1>1. TypeOK /\ pool \in Pools /\ orphan \in OrphanMaps /\ PoolIsClosed /\ Idle
  BY DEF RelayInv, TypeOK, TxAccepted, Receive
<1>2. /\ AcceptTx(t) /\ pool' = addUnchecked(pool, t) /\ UNCHANGED <<orphan, view>>
      /\ work' = <<t>> /\ tried' = {} /\ erase' = {t}
  BY DEF TxAccepted
<1>3. /\ pool' \in Pools /\ pool'.mapTx = pool.mapTx \cup {t}
      /\ PoolIsClosed'
      /\ \A u \in Tx : MissingInputs(pool, view, u) =>
                       MissingInputs(pool', view', u) \/ t \in Parents(u)
  BY <1>1, <1>2, PoolGrows
<1>4. work = << >> /\ tried = {} /\ erase = {}
  BY <1>1 DEF RelayInv, QueuesAreLocal, Idle
<1>5. TypeOK'
  <2>1. known' \in [Peer -> SUBSET Tx] /\ requests' \subseteq Requests
    BY <1>1, ReceiveTypes DEF TxAccepted
  <2>2. toSend' \in [Peer -> SUBSET Tx]
    BY <1>1, RelayTypes DEF TxAccepted
  <2>3. work' \in Seq(Tx)
    BY <1>2
  <2> QED BY <1>1, <1>2, <1>3, <2>1, <2>2, <2>3 DEF TypeOK, TxAccepted
<1>6. QueuesAreLocal' /\ OrphansAreFew' /\ Indexed(orphan)' /\ (Genesis \in view.blocks)'
  BY <1>2 DEF RelayInv, QueuesAreLocal, OrphansAreFew, Idle
<1>7. ASSUME NEW u \in orphan.tx PROVE Waits(u)'
  <2>1. u \in Tx /\ Waits(u)
    BY <1>1, <1>7 DEF RelayInv, OrphanMaps
  <2>2. ~StillToDo(u)
    BY <1>4 DEF StillToDo
  <2>3. CASE MissingInputs(pool, view, u)
    <3>1. CASE t \in Parents(u)
      <4>1. 1 \in DOMAIN work' /\ work'[1] = t /\ u \notin tried'
        BY <1>2
      <4> QED BY <3>1, <4>1 DEF Waits, StillToDo
    <3>2. CASE MissingInputs(pool', view', u)
      BY <3>2 DEF Waits
    <3> QED BY <1>3, <2>1, <2>3, <3>1, <3>2
  <2>4. CASE \E p \in Parents(u) : ReadTxIndex(view, p) \/ p \in Local
    BY <1>2, <2>4 DEF Waits
  <2> QED BY <2>1, <2>2, <2>3, <2>4 DEF Waits
<1>8. (orphan.tx \cap pool.mapTx \subseteq Local \cup erase)'
  BY <1>2, <1>3, <1>4 DEF RelayInv
<1> QED BY <1>2, <1>3, <1>5, <1>6, <1>7, <1>8 DEF RelayInv

\* An orphan that is accepted goes to the end of vWorkQueue, and to vEraseQueue.
LEMMA OrphanAcceptedStep ==
    ASSUME RelayInv, NEW t \in Tx, OrphanAccepted(t) PROVE RelayInv'
<1>1. TypeOK /\ pool \in Pools /\ orphan \in OrphanMaps /\ PoolIsClosed /\ work \in Seq(Tx)
  BY DEF RelayInv, TypeOK
<1>2. /\ AcceptTx(t) /\ pool' = addUnchecked(pool, t) /\ UNCHANGED <<orphan, view>>
      /\ work # << >> /\ t \in orphan.byPrev[Head(work)]
      /\ work' = Append(work, t) /\ tried' = tried \cup {t} /\ erase' = erase \cup {t}
  BY DEF OrphanAccepted, NextOrphan
<1>3. /\ pool' \in Pools /\ pool'.mapTx = pool.mapTx \cup {t}
      /\ PoolIsClosed'
      /\ \A u \in Tx : MissingInputs(pool, view, u) =>
                       MissingInputs(pool', view', u) \/ t \in Parents(u)
  BY <1>1, <1>2, PoolGrows
<1>4. /\ Len(work) \in Nat \ {0} /\ DOMAIN work' = 1..(Len(work) + 1) /\ work' \in Seq(Tx)
      /\ work'[Len(work) + 1] = t /\ DOMAIN work = 1..Len(work)
      /\ \A i \in DOMAIN work : i \in DOMAIN work' /\ work'[i] = work[i]
      /\ Head(work) \in Tx /\ work' # << >>
  BY <1>1, <1>2
<1>5. t \in orphan.tx
  BY <1>1, <1>2, <1>4 DEF RelayInv, Indexed
<1>6. TypeOK'
  <2>1. toSend' \in [Peer -> SUBSET Tx]
    BY <1>1, RelayTypes DEF OrphanAccepted
  <2> QED BY <1>1, <1>2, <1>3, <1>4, <1>5, <2>1 DEF TypeOK, OrphanAccepted
<1>7. QueuesAreLocal' /\ OrphansAreFew' /\ Indexed(orphan)' /\ (Genesis \in view.blocks)'
  BY <1>2, <1>4 DEF RelayInv, QueuesAreLocal, OrphansAreFew, Idle
<1>8. ASSUME NEW u \in orphan.tx PROVE Waits(u)'
  <2>1. u \in Tx /\ Waits(u)
    BY <1>1, <1>8 DEF RelayInv, OrphanMaps
  <2>2. CASE u \in erase \/ u = t
    BY <1>2, <2>2 DEF Waits, StillToDo
  <2>3. CASE MissingInputs(pool, view, u)
    <3>1. CASE t \in Parents(u)
      <4>1. Len(work) + 1 \in DOMAIN work' /\ work'[Len(work) + 1] \in Parents(u)
            /\ Len(work) + 1 # 1
        BY <1>4, <3>1
      <4> QED BY <4>1 DEF Waits, StillToDo
    <3>2. CASE MissingInputs(pool', view', u)
      BY <3>2 DEF Waits
    <3> QED BY <1>3, <2>1, <2>3, <3>1, <3>2
  <2>4. CASE \E p \in Parents(u) : ReadTxIndex(view, p) \/ p \in Local
    BY <1>2, <2>4 DEF Waits
  <2>5. ASSUME NEW i \in DOMAIN work, work[i] \in Parents(u), i = 1 => u \notin tried, u # t
        PROVE  Waits(u)'
    <3>1. i \in DOMAIN work' /\ work'[i] \in Parents(u) /\ (i = 1 => u \notin tried')
      BY <1>2, <1>4, <2>5
    <3> QED BY <3>1 DEF Waits, StillToDo
  <2> QED BY <2>1, <2>2, <2>3, <2>4, <2>5 DEF Waits, StillToDo
<1>9. (orphan.tx \cap pool.mapTx \subseteq Local \cup erase)'
  BY <1>2, <1>3 DEF RelayInv
<1> QED BY <1>2, <1>3, <1>6, <1>7, <1>8, <1>9 DEF RelayInv

\* An orphan that is refused is done; it stays only if it misses another parent.
LEMMA OrphanRefusedStep ==
    ASSUME RelayInv, NEW t \in Tx, OrphanRefused(t) PROVE RelayInv'
<1>1. TypeOK /\ orphan \in OrphanMaps /\ work \in Seq(Tx)
  BY DEF RelayInv, TypeOK
<1>2. /\ UNCHANGED <<pool, orphan, view, work>>
      /\ work # << >> /\ t \in orphan.byPrev[Head(work)]
      /\ tried' = tried \cup {t} /\ erase \subseteq erase' /\ erase' \subseteq erase \cup {t}
      /\ t \in erase' \/ MissingInputs(pool, view, t)
  BY DEF OrphanRefused, NextOrphan, fMissingInputs
<1>3. Head(work) \in Tx
  BY <1>1, <1>2
<1>4. t \in orphan.tx
  BY <1>2, <1>3 DEF RelayInv, Indexed
<1>5. TypeOK'
  BY <1>1, <1>2, <1>4 DEF TypeOK, OrphanRefused, links
<1>6. /\ QueuesAreLocal' /\ OrphansAreFew' /\ Indexed(orphan)' /\ (Genesis \in view.blocks)'
      /\ PoolIsClosed'
  BY <1>2 DEF RelayInv, QueuesAreLocal, OrphansAreFew, Idle, PoolIsClosed
<1>7. ASSUME NEW u \in orphan.tx PROVE Waits(u)'
  <2>1. CASE u = t
    BY <1>2, <2>1 DEF Waits, StillToDo
  <2>2. CASE u # t
    BY <1>2, <1>7, <2>2 DEF RelayInv, Waits, StillToDo
  <2> QED BY <2>1, <2>2
<1>8. (orphan.tx \cap pool.mapTx \subseteq Local \cup erase)'
  BY <1>2 DEF RelayInv
<1> QED BY <1>2, <1>5, <1>6, <1>7, <1>8 DEF RelayInv

\* The inner loop is over: every orphan listed under the first transaction of
\* vWorkQueue has been tried, so what is still to be done is under another one.
\* After the last one vEraseQueue goes.
LEMMA WorkDoneStep == ASSUME RelayInv, WorkDone PROVE RelayInv'
<1>1. TypeOK /\ orphan \in OrphanMaps /\ Indexed(orphan) /\ work \in Seq(Tx)
  BY DEF RelayInv, TypeOK
<1>2. /\ work # << >> /\ orphan.byPrev[Head(work)] \subseteq tried
      /\ work' = Tail(work) /\ tried' = {} /\ UNCHANGED <<pool, view>>
  BY DEF WorkDone
<1>3. /\ Head(work) = work[1] /\ Head(work) \in Tx /\ work' \in Seq(Tx)
      /\ \A i \in DOMAIN work \ {1} : i - 1 \in DOMAIN work' /\ work'[i - 1] = work[i]
  BY <1>1, <1>2
<1> DEFINE Gone == IF work' = << >> THEN erase ELSE {}
<1>4. /\ orphan' \in OrphanMaps /\ Indexed(orphan') /\ orphan'.tx = orphan.tx \ Gone
      /\ erase' = erase \ Gone
  <2>1. CASE work' = << >>
    <3>1. orphan' = EraseOrphanTx(orphan, erase) /\ erase' = {}
      BY <1>2, <2>1 DEF WorkDone
    <3> QED BY <1>1, <2>1, <3>1, EraseKeepsIndex
  <2>2. CASE work' # << >>
    BY <1>1, <1>2, <2>2 DEF WorkDone
  <2> QED BY <2>1, <2>2
<1>5. TypeOK'
  BY <1>1, <1>2, <1>3, <1>4 DEF TypeOK, WorkDone, links
<1>6. OrphansAreFew'
  <2>1. IsFiniteSet(orphan.tx) /\ Cardinality(orphan.tx) <= MaxOrphanTx
    BY DEF RelayInv, OrphansAreFew
  <2>2. orphan'.tx \in SUBSET orphan.tx
    BY <1>4
  <2>3. IsFiniteSet(orphan'.tx) /\ Cardinality(orphan'.tx) <= Cardinality(orphan.tx)
    BY <2>1, <2>2, FS_Subset
  <2>4. Cardinality(orphan'.tx) \in Nat /\ Cardinality(orphan.tx) \in Nat /\ MaxOrphanTx \in Nat
    BY <2>1, <2>3, FS_CardinalityType, RelayAssumption
  <2> QED BY <2>1, <2>3, <2>4 DEF OrphansAreFew
<1>7. QueuesAreLocal'
  BY <1>2, <1>4 DEF QueuesAreLocal, Idle
<1>8. ASSUME NEW u \in orphan'.tx PROVE Waits(u)'
  <2>1. u \in orphan.tx /\ u \in Tx /\ Waits(u) /\ u \notin Gone
    BY <1>1, <1>4, <1>8 DEF RelayInv, OrphanMaps
  <2>2. CASE u \in erase
    BY <1>4, <2>1, <2>2 DEF Waits, StillToDo
  <2>3. ASSUME NEW i \in DOMAIN work, work[i] \in Parents(u), i = 1 => u \notin tried
        PROVE  Waits(u)'
    <3>1. i # 1
      BY <1>1, <1>2, <1>3, <2>1, <2>3 DEF Indexed
    <3>2. i - 1 \in DOMAIN work' /\ work'[i - 1] \in Parents(u) /\ u \notin tried'
      BY <1>2, <1>3, <2>3, <3>1
    <3> QED BY <3>2 DEF Waits, StillToDo
  <2>4. CASE MissingInputs(pool, view, u)
    BY <1>2, <2>4 DEF Waits
  <2>5. CASE \E p \in Parents(u) : ReadTxIndex(view, p) \/ p \in Local
    BY <1>2, <2>5 DEF Waits
  <2> QED BY <2>1, <2>2, <2>3, <2>4, <2>5 DEF Waits, StillToDo
<1>9. (orphan.tx \cap pool.mapTx \subseteq Local \cup erase)'
  BY <1>2, <1>4 DEF RelayInv
<1>10. PoolIsClosed' /\ (Genesis \in view.blocks)'
  BY <1>2 DEF RelayInv, PoolIsClosed
<1> QED BY <1>4, <1>5, <1>6, <1>7, <1>8, <1>9, <1>10 DEF RelayInv

\* The RPC may bring the last parent of an orphan without waking it; the parent is
\* then one of Local.
LEMMA RawStep == ASSUME RelayInv, NEW t \in Tx, SendRawTransaction(t) PROVE RelayInv'
<1>1. TypeOK /\ pool \in Pools /\ orphan \in OrphanMaps /\ PoolIsClosed
  BY DEF RelayInv, TypeOK
<1>2. t \in Local /\ UNCHANGED <<orphan, view, work, tried, erase>>
  BY DEF SendRawTransaction, handler
<1>3. /\ pool' \in Pools /\ pool'.mapTx \subseteq pool.mapTx \cup {t}
      /\ PoolIsClosed'
      /\ \A u \in Tx : MissingInputs(pool, view, u) =>
                       MissingInputs(pool', view', u) \/ t \in Parents(u)
  <2>1. CASE t \in pool.mapTx
    BY <1>1, <1>2, <2>1 DEF SendRawTransaction, PoolIsClosed
  <2>2. CASE t \notin pool.mapTx
    <3>1. AcceptTx(t) /\ pool' = addUnchecked(pool, t)
      BY <2>2 DEF SendRawTransaction
    <3> QED BY <1>1, <1>2, <3>1, PoolGrows
  <2> QED BY <2>1, <2>2
<1>4. TypeOK'
  <2>1. toSend' \in [Peer -> SUBSET Tx]
    BY <1>1, RelayTypes DEF SendRawTransaction
  <2>2. synced' \subseteq Tx
    BY <1>1 DEF TypeOK, SendRawTransaction
  <2> QED BY <1>1, <1>2, <1>3, <2>1, <2>2 DEF TypeOK, SendRawTransaction
<1>5. QueuesAreLocal' /\ OrphansAreFew' /\ Indexed(orphan)' /\ (Genesis \in view.blocks)'
  BY <1>2 DEF RelayInv, QueuesAreLocal, OrphansAreFew, Idle
<1>6. ASSUME NEW u \in orphan.tx PROVE Waits(u)'
  <2>1. u \in Tx /\ Waits(u)
    BY <1>1, <1>6 DEF RelayInv, OrphanMaps
  <2>2. CASE MissingInputs(pool, view, u)
    BY <1>2, <1>3, <2>1, <2>2 DEF Waits
  <2>3. CASE ~MissingInputs(pool, view, u)
    BY <1>2, <2>1, <2>3 DEF Waits, StillToDo
  <2> QED BY <2>2, <2>3
<1>7. (orphan.tx \cap pool.mapTx \subseteq Local \cup erase)'
  BY <1>2, <1>3 DEF RelayInv
<1> QED BY <1>2, <1>3, <1>4, <1>5, <1>6, <1>7 DEF RelayInv

\* A block takes its transactions from the pool to the index: a transaction of the
\* pool that loses a parent there finds it in the index, and so does an orphan.
LEMMA BlockStep == ASSUME RelayInv, NEW b \in Block, ConnectBlock(b) PROVE RelayInv'
<1>1. TypeOK /\ pool \in Pools /\ orphan \in OrphanMaps /\ view \in Views /\ PoolIsClosed
  BY DEF RelayInv, TypeOK
<1>2. /\ b \in Block \ {Genesis} /\ TxsOf(b) \subseteq Tx
      /\ UNCHANGED <<orphan, work, tried, erase>>
      /\ view' = WithBest(Connected(WithNewBlock(view, b), b, NoLinks), b)
      /\ pool' = removeAll(pool, TxsOf(b))
  BY OutTypes DEF RelayInv, ConnectBlock, handler
<1>3. /\ view' \in Views /\ view.blocks \subseteq view'.blocks
      /\ \A t \in Tx : ReadTxIndex(view', t) <=> ReadTxIndex(view, t) \/ t \in TxsOf(b)
  BY <1>1, <1>2, BlockConnected
<1>4. pool' \in Pools /\ PoolConsistent(pool') /\ pool'.mapTx = pool.mapTx \ TxsOf(b)
  <2>1. pool' \in Pools
    BY <1>1, <1>2, PoolTypes
  <2>2. PoolConsistent(pool')
    BY <1>1, <1>2, RemoveConsistent DEF PoolIsClosed
  <2> QED BY <1>2, <2>1, <2>2 DEF removeAll
<1>5. TypeOK'
  <2>1. synced' \subseteq Tx
    BY <1>1, <1>2 DEF TypeOK, ConnectBlock
  <2> QED BY <1>1, <1>2, <1>3, <1>4, <2>1 DEF TypeOK, ConnectBlock, links
<1>6. QueuesAreLocal' /\ OrphansAreFew' /\ Indexed(orphan)' /\ (Genesis \in view.blocks)'
  BY <1>2, <1>3 DEF RelayInv, QueuesAreLocal, OrphansAreFew, Idle
<1>7. PoolIsClosed'
  <2>1. ASSUME NEW t \in pool'.mapTx PROVE ~MissingInputs(pool', view', t)
    <3>1. t \in Tx /\ ~MissingInputs(pool, view, t)
      BY <1>1, <1>4, <2>1 DEF PoolIsClosed, Pools
    <3>2. \A x \in Parents(t) : x \in Tx /\ (ReadTxIndex(view, x) \/ x \in pool.mapTx)
      BY <3>1, MissingParent, ParentsAreTx
    <3>3. \A x \in Parents(t) : ReadTxIndex(view', x) \/ x \in pool'.mapTx
      BY <1>3, <1>4, <3>2
    <3> QED BY <3>3, MissingParent
  <2> QED BY <1>4, <2>1 DEF PoolIsClosed
<1>8. ASSUME NEW u \in orphan.tx PROVE Waits(u)'
  <2>1. u \in Tx /\ Waits(u) /\ Parents(u) \subseteq Tx
    BY <1>1, <1>8, ParentsAreTx DEF RelayInv, OrphanMaps
  <2>2. CASE MissingInputs(pool, view, u)
    <3>1. PICK x \in Parents(u) : ~ReadTxIndex(view, x) /\ x \notin pool.mapTx
      BY <2>2, MissingParent
    <3>2. CASE ReadTxIndex(view', x)
      BY <3>1, <3>2 DEF Waits
    <3>3. CASE ~ReadTxIndex(view', x)
      <4>1. MissingInputs(pool', view', u)
        BY <1>4, <3>1, <3>3, MissingParent
      <4> QED BY <4>1 DEF Waits
    <3> QED BY <3>2, <3>3
  <2>3. CASE \E p \in Parents(u) : ReadTxIndex(view, p) \/ p \in Local
    BY <1>3, <2>1, <2>3 DEF Waits
  <2>4. CASE StillToDo(u)
    BY <1>2, <2>4 DEF Waits, StillToDo
  <2> QED BY <2>1, <2>2, <2>3, <2>4 DEF Waits
<1>9. (orphan.tx \cap pool.mapTx \subseteq Local \cup erase)'
  BY <1>2, <1>4 DEF RelayInv
<1> QED BY <1>2, <1>5, <1>6, <1>7, <1>8, <1>9 DEF RelayInv

\* Every step keeps RelayInv.
LEMMA RelayStep == RelayInv /\ [Next]_vars => RelayInv'
<1> SUFFICES ASSUME RelayInv, [Next]_vars PROVE RelayInv'
  OBVIOUS
<1>1. ASSUME NEW q \in Peer, NEW t \in Tx, Inv(q, t) \/ Answer(q, t) PROVE RelayInv'
  BY <1>1, InvStep, AcceptedStep, OrphanStep, RefusedStep DEF Answer
<1>2. ASSUME NEW q \in Peer, NEW f \in BOOLEAN, SendMessages(q, f) PROVE RelayInv'
  BY <1>2, SendStep
<1>3. ASSUME Work PROVE RelayInv'
  BY <1>3, OrphanAcceptedStep, OrphanRefusedStep, WorkDoneStep DEF Work
<1>4. ASSUME NEW t \in Tx, SendRawTransaction(t) PROVE RelayInv'
  BY <1>4, RawStep
<1>5. ASSUME NEW b \in Block, ConnectBlock(b) PROVE RelayInv'
  BY <1>5, BlockStep
<1>6. ASSUME NEW r \in requests, Lost(r) PROVE RelayInv'
  BY <1>6, LostStep
<1>7. ASSUME Tick PROVE RelayInv'
  BY <1>7, TickStep
<1>8. ASSUME UNCHANGED vars PROVE RelayInv'
  <2>1. TypeOK' /\ UNCHANGED <<pool, orphan, view, handler>>
    BY <1>8 DEF RelayInv, TypeOK, vars, links, handler
  <2> QED BY <2>1, RelayFrame
<1> QED BY <1>1, <1>2, <1>3, <1>4, <1>5, <1>6, <1>7, <1>8 DEF Next

-----------------------------------------------------------------------------
(* The theorems.                                                            *)

\* RelayInv is an invariant of the relay.
THEOREM RelayInvHolds == Spec => []RelayInv
  BY RelayInit, RelayStep, PTL DEF Spec

\* Every variable keeps its type; the "tx" handler tries only transactions that
\* mapOrphanTransactions holds.
THEOREM RelayTypesHold == Spec => []TypeOK
<1>1. RelayInv => TypeOK
  BY DEF RelayInv
<1> QED BY <1>1, RelayInvHolds, PTL

\* mapOrphanTransactions and mapOrphanTransactionsByPrev agree after every
\* AddOrphanTx, EraseOrphanTx and LimitOrphanTxSize, and -maxorphantx is respected.
THEOREM OrphanMapsAlwaysAgree == Spec => []OrphanMapsAgree
<1>1. RelayInv => OrphanMapsAgree
  BY DEF RelayInv, OrphanMapsAgree, OrphansAreFew
<1> QED BY <1>1, RelayInvHolds, PTL

\* The work queue of the "tx" handler reaches every orphan that a new transaction
\* completes: none is left behind whose parents are all in the pool, unless a
\* parent came in a block or from the RPC.
THEOREM OrphansAlwaysWait == Spec => []OrphansWait
<1>1. RelayInv => OrphansWait
  <2> SUFFICES ASSUME RelayInv, Idle, NEW t \in orphan.tx
               PROVE  \/ MissingInputs(pool, view, t)
                      \/ \E p \in Parents(t) : ReadTxIndex(view, p) \/ p \in Local
    BY DEF OrphansWait
  <2>1. ~StillToDo(t)
    BY DEF RelayInv, QueuesAreLocal, Idle, StillToDo
  <2> QED BY <2>1 DEF RelayInv, Waits
<1> QED BY <1>1, RelayInvHolds, PTL

\* What the handler accepts leaves the orphans before the next message: a
\* transaction is in the pool and an orphan at once only after the RPC.
THEOREM OrphansNeverInPool == Spec => []OrphansNotInPool
<1>1. RelayInv => OrphansNotInPool
  BY DEF RelayInv, OrphansNotInPool, QueuesAreLocal
<1> QED BY <1>1, RelayInvHolds, PTL

\* The pool holds the parents of its transactions, or the index does, and no two
\* spenders of an output, whatever a block takes out of it.
THEOREM PoolAlwaysClosed == Spec => []PoolIsClosed
<1>1. RelayInv => PoolIsClosed
  BY DEF RelayInv
<1> QED BY <1>1, RelayInvHolds, PTL

=============================================================================
