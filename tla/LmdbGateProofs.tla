--------------------------- MODULE LmdbGateProofs ---------------------------
(***************************************************************************)
(* The map is never resized under an open transaction, for any number of    *)
(* threads: GateInv is inductive and implies ResizeExclusive.               *)
(***************************************************************************)
EXTENDS LmdbGate, FiniteSetTheorems, TLAPS

\* Initially no object is counted and nobody is at the gate.
LEMMA GateInvInit == Init => GateInv
<1> SUFFICES ASSUME Init PROVE GateInv
  OBVIOUS
<1> USE ThreadsAssumption
<1>1. TypeOK
  BY DEF Init, TypeOK, Steps, Kinds
<1>2. IsFiniteSet(live) /\ CountExact
  BY FS_EmptySet DEF Init, CountExact
<1>3. GateMutex
  BY DEF Init, GateMutex, Holding
<1>4. NestedScopes
  BY DEF Init, NestedScopes, ScopeOK
<1>5. OpenIsCounted /\ ResizeAlone
  BY DEF Init, OpenIsCounted, ResizeAlone
<1> QED
  BY <1>1, <1>2, <1>3, <1>4, <1>5 DEF GateInv

\* Every step keeps the types.  The counter does not wrap below zero in the
\* destructor because the object being destroyed is still counted.
LEMMA TypeStep == GateInv /\ [Next]_vars => TypeOK'
<1> SUFFICES ASSUME GateInv, [Next]_vars PROVE TypeOK'
  OBVIOUS
<1> USE ThreadsAssumption DEF GateInv, TypeOK, Steps, GoTo, Work, Obj
<1>1. ASSUME NEW t \in Threads, Call(t) PROVE TypeOK'
  BY <1>1 DEF Call, LockMain, UnlockMain, LoadBlockIndex, Read, TxnBegin, Kinds
<1>2. ASSUME NEW t \in Threads, Dtor(t) PROVE TypeOK'
  <2>1. Obj(t) \in live
    BY <1>2 DEF NestedScopes, ScopeOK, Dtor
  <2>2. num_active_txns # 0
    BY <2>1, FS_EmptySet DEF CountExact
  <2>3. num_active_txns' \in Nat
    BY <1>2, <2>2 DEF Dtor
  <2>4. pc' \in [Threads -> Steps] /\ cur' \in [Threads -> Kinds]
    BY <1>2 DEF Dtor, ReturnTo, Kinds
  <2> QED
    BY <1>2, <2>3, <2>4 DEF Dtor
<1>3. ASSUME NEW t \in Threads,
             CtorTakeGate(t) \/ CtorCount(t) \/ CtorClearGate(t)
             \/ TxnOpen(t) \/ TxnOpenFails(t) \/ TxnEnd(t) \/ LoadReturns(t)
      PROVE TypeOK'
  <2>1. Obj(t) \in Threads \X Kinds
    OBVIOUS
  <2>2. live' \subseteq Threads \X Kinds /\ open' \subseteq Threads \X Kinds
    BY <1>3, <2>1 DEF CtorTakeGate, CtorCount, CtorClearGate, TxnOpen, TxnOpenFails, TxnEnd, LoadReturns
  <2>3. pc' \in [Threads -> Steps] /\ cur' \in [Threads -> Kinds]
    BY <1>3 DEF CtorTakeGate, CtorCount, CtorClearGate, TxnOpen, TxnOpenFails, TxnEnd, LoadReturns
  <2>4. num_active_txns' \in Nat
    BY <1>3 DEF CtorTakeGate, CtorCount, CtorClearGate, TxnOpen, TxnOpenFails, TxnEnd, LoadReturns
  <2>6. creation_gate' \in BOOLEAN /\ started' \in BOOLEAN
    BY <1>3, Zenon DEF CtorTakeGate, CtorCount, CtorClearGate, TxnOpen, TxnOpenFails, TxnEnd, LoadReturns
  <2>5. writer' \in Threads \cup {NoThread} /\ cs_main' \in Threads \cup {NoThread}
    BY <1>3 DEF CtorTakeGate, CtorCount, CtorClearGate, TxnOpen, TxnOpenFails, TxnEnd, LoadReturns
  <2> QED
    BY <2>2, <2>3, <2>4, <2>5, <2>6
<1>4. ASSUME NEW t \in Threads,
             ResizeNoSpace(t) \/ ResizeTakeGate(t) \/ ResizeWaited(t)
             \/ ResizeMap(t) \/ ResizeAllow(t)
      PROVE TypeOK'
  BY <1>4 DEF ResizeNoSpace, ResizeTakeGate, ResizeWaited, ResizeMap, ResizeAllow, Kinds
<1>5. CASE UNCHANGED vars
  BY <1>5 DEF vars
<1> QED
  BY <1>1, <1>2, <1>3, <1>4, <1>5 DEF Next, Progress

\* The counter follows the set of counted objects: the constructor counts an
\* object that was not counted, the destructor one that was.
LEMMA CountStep == GateInv /\ [Next]_vars => IsFiniteSet(live)' /\ CountExact'
<1> SUFFICES ASSUME GateInv, [Next]_vars PROVE IsFiniteSet(live') /\ CountExact'
  OBVIOUS
<1> USE DEF GateInv, CountExact
<1>1. ASSUME NEW t \in Threads, CtorCount(t) PROVE IsFiniteSet(live') /\ CountExact'
  <2>1. Obj(t) \notin live
    <3>1. cur[t] \in Kinds /\ cur[t] \notin Below[cur[t]]
      BY DEF TypeOK, Kinds, Below
    <3> QED
      BY <1>1, <3>1 DEF NestedScopes, ScopeOK, CtorCount, Obj
  <2> QED
    BY <1>1, <2>1, FS_AddElement DEF CtorCount
<1>2. ASSUME NEW t \in Threads, Dtor(t) PROVE IsFiniteSet(live') /\ CountExact'
  <2>1. Obj(t) \in live
    BY <1>2 DEF NestedScopes, ScopeOK, Dtor
  <2> QED
    BY <1>2, <2>1, FS_RemoveElement DEF Dtor
<1>3. ASSUME UNCHANGED <<live, num_active_txns>> PROVE IsFiniteSet(live') /\ CountExact'
  BY <1>3
<1>4. ASSUME NEW t \in Threads, Progress(t) \/ Call(t), ~CtorCount(t), ~Dtor(t)
      PROVE UNCHANGED <<live, num_active_txns>>
  BY <1>4 DEF Progress, Call, LockMain, UnlockMain, LoadBlockIndex, Read, TxnBegin,
     CtorTakeGate, CtorClearGate, TxnOpen, TxnOpenFails, TxnEnd, LoadReturns,
     ResizeNoSpace, ResizeTakeGate, ResizeWaited, ResizeMap, ResizeAllow
<1> QED
  BY <1>1, <1>2, <1>3, <1>4 DEF Next, vars

\* The gate is handed from one thread to another only while it is clear.
LEMMA MutexStep == GateInv /\ [Next]_vars => GateMutex'
<1> SUFFICES ASSUME GateInv, [Next]_vars PROVE GateMutex'
  OBVIOUS
<1> USE DEF GateInv, TypeOK, GateMutex, Holding, GoTo
<1>1. ASSUME NEW t \in Threads, Call(t) PROVE GateMutex'
  BY <1>1 DEF Call, LockMain, UnlockMain, LoadBlockIndex, Read, TxnBegin
<1>2. ASSUME NEW t \in Threads, CtorTakeGate(t) \/ ResizeTakeGate(t) PROVE GateMutex'
  BY <1>2 DEF CtorTakeGate, ResizeTakeGate
<1>3. ASSUME NEW t \in Threads, CtorClearGate(t) \/ ResizeAllow(t) PROVE GateMutex'
  BY <1>3 DEF CtorClearGate, ResizeAllow
<1>4. ASSUME NEW t \in Threads, CtorCount(t) \/ ResizeWaited(t) \/ ResizeMap(t) PROVE GateMutex'
  BY <1>4 DEF CtorCount, ResizeWaited, ResizeMap
<1>5. ASSUME NEW t \in Threads,
             TxnOpen(t) \/ TxnOpenFails(t) \/ TxnEnd(t) \/ LoadReturns(t) \/ Dtor(t)
             \/ ResizeNoSpace(t)
      PROVE GateMutex'
  BY <1>5 DEF TxnOpen, TxnOpenFails, TxnEnd, LoadReturns, Dtor, ReturnTo, ResizeNoSpace
<1>6. CASE UNCHANGED vars
  BY <1>6 DEF vars
<1> QED
  BY <1>1, <1>2, <1>3, <1>4, <1>5, <1>6 DEF Next, Progress

\* Objects are constructed and destroyed in scope order.
LEMMA ScopesStep == GateInv /\ [Next]_vars => NestedScopes'
<1> SUFFICES ASSUME GateInv, [Next]_vars, NEW u \in Threads PROVE ScopeOK(u)'
  BY DEF NestedScopes
<1> USE DEF GateInv, TypeOK, NestedScopes, GoTo, Work, Obj
<1>1. ASSUME pc'[u] = pc[u], cur'[u] = cur[u],
             \A k \in Kinds : <<u, k>> \in live' <=> <<u, k>> \in live
      PROVE ScopeOK(u)'
  BY <1>1 DEF ScopeOK
<1>2. ASSUME NEW t \in Threads, t # u, Progress(t) \/ Call(t)
      PROVE pc'[u] = pc[u] /\ cur'[u] = cur[u]
            /\ \A k \in Kinds : <<u, k>> \in live' <=> <<u, k>> \in live
  BY <1>2 DEF Progress, Call, LockMain, UnlockMain, LoadBlockIndex, Read, TxnBegin,
     CtorTakeGate, CtorCount, CtorClearGate, TxnOpen, TxnOpenFails, TxnEnd, LoadReturns,
     Dtor, ReturnTo, ResizeNoSpace, ResizeTakeGate, ResizeWaited, ResizeMap, ResizeAllow
<1>3. ASSUME Call(u) PROVE ScopeOK(u)'
  <2> USE DEF ScopeOK, Below, Kinds
  <2>1. CASE LockMain(u) \/ UnlockMain(u)
    BY <2>1 DEF LockMain, UnlockMain
  <2>2. CASE LoadBlockIndex(u)
    BY <2>2 DEF LoadBlockIndex
  <2>3. CASE Read(u)
    BY <2>3 DEF Read
  <2>4. CASE TxnBegin(u)
    BY <2>4 DEF TxnBegin
  <2> QED
    BY <1>3, <2>1, <2>2, <2>3, <2>4 DEF Call
<1>4. ASSUME CtorTakeGate(u) \/ CtorCount(u) \/ CtorClearGate(u) \/ TxnOpen(u)
             \/ TxnOpenFails(u)
      PROVE ScopeOK(u)'
  BY <1>4 DEF ScopeOK, CtorTakeGate, CtorCount, CtorClearGate, TxnOpen, TxnOpenFails
<1>5. ASSUME TxnEnd(u) \/ LoadReturns(u) PROVE ScopeOK(u)'
  BY <1>5 DEF ScopeOK, TxnEnd, LoadReturns
<1>6. ASSUME Dtor(u) PROVE ScopeOK(u)'
  <2> USE DEF ScopeOK, Dtor, Below, Kinds
  <2>1. CASE cur[u] = "read" /\ <<u, "write">> \in live
    BY <1>6, <2>1 DEF ReturnTo
  <2>2. CASE ~(cur[u] = "read" /\ <<u, "write">> \in live) /\ cur[u] # "load" /\ <<u, "load">> \in live
    BY <1>6, <2>2 DEF ReturnTo
  <2>3. CASE /\ ~(cur[u] = "read" /\ <<u, "write">> \in live)
             /\ ~(cur[u] # "load" /\ <<u, "load">> \in live)
    BY <1>6, <2>3 DEF ReturnTo
  <2> QED
    BY <2>1, <2>2, <2>3
<1>7. ASSUME ResizeNoSpace(u) \/ ResizeAllow(u) PROVE ScopeOK(u)'
  BY <1>7 DEF ScopeOK, ResizeNoSpace, ResizeAllow, Below, Kinds
<1>8. ASSUME ResizeTakeGate(u) \/ ResizeWaited(u) \/ ResizeMap(u) PROVE ScopeOK(u)'
  BY <1>8 DEF ScopeOK, ResizeTakeGate, ResizeWaited, ResizeMap
<1>9. CASE UNCHANGED vars
  BY <1>1, <1>9 DEF vars
<1> QED
  BY <1>1, <1>2, <1>3, <1>4, <1>5, <1>6, <1>7, <1>8, <1>9 DEF Next, Progress

\* A transaction is ended before its object is uncounted.
LEMMA OpenStep == GateInv /\ [Next]_vars => OpenIsCounted'
<1> SUFFICES ASSUME GateInv, [Next]_vars PROVE OpenIsCounted'
  OBVIOUS
<1> USE DEF GateInv, TypeOK, OpenIsCounted, GoTo, Work, Obj
<1>1. ASSUME NEW t \in Threads, Call(t) PROVE OpenIsCounted'
  <2>1. CASE LockMain(t) \/ UnlockMain(t)
    BY <2>1 DEF LockMain, UnlockMain
  <2>2. CASE LoadBlockIndex(t)
    BY <2>2 DEF LoadBlockIndex, NestedScopes, ScopeOK, Kinds
  <2>3. CASE Read(t)
    BY <2>3 DEF Read, NestedScopes, ScopeOK, Kinds
  <2>4. CASE TxnBegin(t)
    BY <2>4 DEF TxnBegin, NestedScopes, ScopeOK, Kinds, Below
  <2> QED
    BY <1>1, <2>1, <2>2, <2>3, <2>4 DEF Call
<1>2. ASSUME NEW t \in Threads, CtorTakeGate(t) \/ CtorCount(t) \/ CtorClearGate(t)
             \/ TxnOpenFails(t) \/ LoadReturns(t)
      PROVE OpenIsCounted'
  BY <1>2 DEF CtorTakeGate, CtorCount, CtorClearGate, TxnOpenFails, LoadReturns
<1>3. ASSUME NEW t \in Threads, TxnOpen(t) PROVE OpenIsCounted'
  BY <1>3 DEF TxnOpen, NestedScopes, ScopeOK, Kinds
<1>4. ASSUME NEW t \in Threads, TxnEnd(t) PROVE OpenIsCounted'
  BY <1>4 DEF TxnEnd, Kinds
<1>5. ASSUME NEW t \in Threads, Dtor(t) PROVE OpenIsCounted'
  <2> USE DEF Dtor, Kinds, NestedScopes, ScopeOK, Below
  <2>1. Obj(t) \notin open
    BY <1>5
  <2>2. open' \subseteq live'
    BY <1>5, <2>1
  <2>3. CASE cur[t] = "read" /\ <<t, "write">> \in live
    BY <1>5, <2>2, <2>3 DEF ReturnTo
  <2>4. CASE ~(cur[t] = "read" /\ <<t, "write">> \in live) /\ cur[t] # "load" /\ <<t, "load">> \in live
    BY <1>5, <2>1, <2>2, <2>4 DEF ReturnTo
  <2>5. CASE /\ ~(cur[t] = "read" /\ <<t, "write">> \in live)
             /\ ~(cur[t] # "load" /\ <<t, "load">> \in live)
    BY <1>5, <2>1, <2>2, <2>5 DEF ReturnTo
  <2> QED
    BY <2>3, <2>4, <2>5
<1>6. ASSUME NEW t \in Threads,
             ResizeNoSpace(t) \/ ResizeTakeGate(t) \/ ResizeWaited(t)
             \/ ResizeMap(t) \/ ResizeAllow(t)
      PROVE OpenIsCounted'
  BY <1>6 DEF ResizeNoSpace, ResizeTakeGate, ResizeWaited, ResizeMap, ResizeAllow,
     NestedScopes, ScopeOK, Kinds, Below
<1>7. CASE UNCHANGED vars
  BY <1>7 DEF vars
<1> QED
  BY <1>1, <1>2, <1>3, <1>4, <1>5, <1>6, <1>7 DEF Next, Progress

\* A constructor cannot count an object while the resizing thread holds the
\* gate, so the counter stays at the zero the resizer saw.
LEMMA AloneStep == GateInv /\ [Next]_vars => ResizeAlone'
<1> SUFFICES ASSUME GateInv, [Next]_vars PROVE ResizeAlone'
  OBVIOUS
<1> USE DEF GateInv, TypeOK, ResizeAlone, GoTo
<1>1. ASSUME NEW t \in Threads, ResizeWaited(t) PROVE ResizeAlone'
  <2>1. live = {}
    BY <1>1, FS_EmptySet DEF ResizeWaited, CountExact
  <2> QED
    BY <1>1, <2>1 DEF ResizeWaited
<1>2. ASSUME NEW t \in Threads, CtorCount(t) PROVE ResizeAlone'
  BY <1>2 DEF CtorCount, GateMutex, Holding
<1>3. ASSUME NEW t \in Threads, Dtor(t) PROVE ResizeAlone'
  BY <1>3 DEF Dtor, ReturnTo
<1>4. ASSUME NEW t \in Threads, Progress(t) \/ Call(t),
             ~ResizeWaited(t), ~CtorCount(t), ~Dtor(t)
      PROVE ResizeAlone'
  BY <1>4 DEF Progress, Call, LockMain, UnlockMain, LoadBlockIndex, Read, TxnBegin,
     CtorTakeGate, CtorClearGate, TxnOpen, TxnOpenFails, TxnEnd, LoadReturns,
     ResizeNoSpace, ResizeTakeGate, ResizeMap, ResizeAllow
<1>5. CASE UNCHANGED vars
  BY <1>5 DEF vars
<1> QED
  BY <1>1, <1>2, <1>3, <1>4, <1>5 DEF Next

\* Every step keeps GateInv.
LEMMA GateInvStep == GateInv /\ [Next]_vars => GateInv'
  BY TypeStep, CountStep, MutexStep, ScopesStep, OpenStep, AloneStep DEF GateInv

\* The gate's inductive invariant holds for every set of threads.
THEOREM GateInvHolds == Spec => []GateInv
  BY GateInvInit, GateInvStep, PTL DEF Spec

\* do_resize moves the memory map only while no LMDB transaction is open, for
\* any number of threads and any nesting of reads in batches.
THEOREM ResizeIsExclusive == Spec => []ResizeExclusive
<1>1. GateInv => ResizeExclusive
  BY DEF GateInv, ResizeAlone, OpenIsCounted, ResizeExclusive
<1> QED
  BY GateInvHolds, <1>1, PTL

\* num_active_txns is always the number of counted objects.
THEOREM CountIsExact == Spec => []CountExact
<1>1. GateInv => CountExact
  BY DEF GateInv
<1> QED
  BY GateInvHolds, <1>1, PTL

\* Every variable keeps its type; the counter never wraps below zero.
THEOREM GateTypes == Spec => []TypeOK
<1>1. GateInv => TypeOK
  BY DEF GateInv
<1> QED
  BY GateInvHolds, <1>1, PTL

=============================================================================
