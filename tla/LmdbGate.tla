------------------------------ MODULE LmdbGate ------------------------------
(***************************************************************************)
(* The gate that keeps LMDB's memory map from being resized under a live    *)
(* transaction (txdb-lmdb.cpp, txdb-lmdb.h).  Every mdb_txn_safe is counted *)
(* in num_active_txns by its constructor, which briefly takes creation_gate;*)
(* a resize takes the same gate, keeps it, waits for the counter to drop to *)
(* zero, moves the map and opens the gate again.  Each step below is one    *)
(* access to the two atomics or one call into LMDB.                         *)
(***************************************************************************)
EXTENDS Integers, FiniteSets

CONSTANTS
    Threads,    \* the threads that use a CTxDB
    Loader,     \* the thread that runs CTxDB::LoadBlockIndex at start-up
    NoThread,   \* "cs_main is free", "LMDB's writer mutex is free"
    LoadForks   \* whether the start-up verification may find a bad block

ASSUME ThreadsAssumption ==
    /\ IsFiniteSet(Threads)
    /\ Loader \in Threads
    /\ NoThread \notin Threads
    /\ LoadForks \in BOOLEAN

\* What an mdb_txn_safe is constructed for: the cursor scan of LoadBlockIndex,
\* a write transaction (the batch of TxnBegin, or the local one of Write and
\* Erase), or the local read-only transaction of Read, ReadMultiple and Exists.
\* A thread nests them in this order, and holds at most one of each.
Kinds == {"load", "write", "read"}
Below == [k \in Kinds |-> CASE k = "load"  -> {}
                            [] k = "write" -> {"load"}
                            [] k = "read"  -> {"load", "write"}]

VARIABLES
    creation_gate,    \* the atomic_flag
    num_active_txns,  \* the atomic counter
    live,             \* the counted mdb_txn_safe objects, as <<thread, kind>>
    open,             \* those whose m_txn is a begun LMDB transaction
    writer,           \* the owner of LMDB's own writer mutex
    cs_main,          \* the owner of cs_main
    started,          \* LoadBlockIndex has returned: the other threads run
    pc,               \* the next step of each thread
    cur               \* the kind of the object each thread works on

vars == <<creation_gate, num_active_txns, live, open, writer, cs_main, started, pc, cur>>

Steps == {"idle", "ctor", "ctorInc", "ctorClear", "begin", "use", "dtor", "loaded",
          "resize", "wait", "setsize", "allow"}

TypeOK ==
    /\ creation_gate \in BOOLEAN
    /\ num_active_txns \in Nat
    /\ live \subseteq Threads \X Kinds
    /\ open \subseteq Threads \X Kinds
    /\ writer \in Threads \cup {NoThread}
    /\ cs_main \in Threads \cup {NoThread}
    /\ started \in BOOLEAN
    /\ pc \in [Threads -> Steps]
    /\ cur \in [Threads -> Kinds]

Init ==
    /\ creation_gate = FALSE
    /\ num_active_txns = 0
    /\ live = {}
    /\ open = {}
    /\ writer = NoThread
    /\ cs_main = NoThread
    /\ started = FALSE
    /\ pc = [t \in Threads |-> "idle"]
    /\ cur = [t \in Threads |-> "read"]

GoTo(t, s) == pc' = [pc EXCEPT ![t] = s]
Work(t, k) == cur' = [cur EXCEPT ![t] = k]
Obj(t) == <<t, cur[t]>>

-----------------------------------------------------------------------------
(* Callers of the database.                                                *)

LockMain(t) ==
    /\ started /\ pc[t] = "idle" /\ cs_main = NoThread
    /\ cs_main' = t
    /\ UNCHANGED <<creation_gate, num_active_txns, live, open, writer, started, pc, cur>>

UnlockMain(t) ==
    /\ pc[t] = "idle" /\ cs_main = t
    /\ cs_main' = NoThread
    /\ UNCHANGED <<creation_gate, num_active_txns, live, open, writer, started, pc, cur>>

\* CTxDB::LoadBlockIndex opens its cursor's transaction, once, before any
\* other thread is created.
LoadBlockIndex(t) ==
    /\ ~started /\ t = Loader /\ pc[t] = "idle"
    /\ GoTo(t, "ctor") /\ Work(t, "load")
    /\ UNCHANGED <<creation_gate, num_active_txns, live, open, writer, cs_main, started>>

\* CTxDB::Read and its kin: from a thread without a transaction, from the block
\* verification of LoadBlockIndex, or through a fresh CTxDB inside a batch.
Read(t) ==
    /\ \/ started /\ pc[t] = "idle"
       \/ pc[t] = "loaded"
       \/ pc[t] = "use" /\ cur[t] = "write"
    /\ GoTo(t, "ctor") /\ Work(t, "read")
    /\ UNCHANGED <<creation_gate, num_active_txns, live, open, writer, cs_main, started>>

\* Mutant: a thread writes without cs_main.
TxnBegin_NoMainLock(t) ==
    /\ started /\ pc[t] = "idle"
    /\ \E need_resize \in BOOLEAN : GoTo(t, IF need_resize THEN "resize" ELSE "ctor")
    /\ Work(t, "write")
    /\ UNCHANGED <<creation_gate, num_active_txns, live, open, writer, cs_main, started>>

\* CTxDB::TxnBegin, and Write and Erase outside a batch.  All of them run with
\* cs_main held, except the reorganisation LoadBlockIndex asks for when its
\* verification finds a bad block.  need_resize looks at the size of the map.
TxnBegin(t) ==
    /\ \/ started /\ pc[t] = "idle" /\ cs_main = t
       \/ LoadForks /\ pc[t] = "loaded"
    /\ \E need_resize \in BOOLEAN : GoTo(t, IF need_resize THEN "resize" ELSE "ctor")
    /\ Work(t, "write")
    /\ UNCHANGED <<creation_gate, num_active_txns, live, open, writer, cs_main, started>>

-----------------------------------------------------------------------------
(* mdb_txn_safe: constructor, lmdb_txn_begin, commit or abort, destructor.  *)

\* Mutant: the constructor counts without looking at the gate.
CtorTakeGate_Unchecked(t) ==
    /\ pc[t] = "ctor"
    /\ creation_gate' = TRUE
    /\ GoTo(t, "ctorInc")
    /\ UNCHANGED <<num_active_txns, live, open, writer, cs_main, started, cur>>

\* while (creation_gate.test_and_set()) sleep
CtorTakeGate(t) ==
    /\ pc[t] = "ctor" /\ ~creation_gate
    /\ creation_gate' = TRUE
    /\ GoTo(t, "ctorInc")
    /\ UNCHANGED <<num_active_txns, live, open, writer, cs_main, started, cur>>

\* num_active_txns++
CtorCount(t) ==
    /\ pc[t] = "ctorInc"
    /\ num_active_txns' = num_active_txns + 1
    /\ live' = live \cup {Obj(t)}
    /\ GoTo(t, "ctorClear")
    /\ UNCHANGED <<creation_gate, open, writer, cs_main, started, cur>>

\* creation_gate.clear()
CtorClearGate(t) ==
    /\ pc[t] = "ctorClear"
    /\ creation_gate' = FALSE
    /\ GoTo(t, "begin")
    /\ UNCHANGED <<num_active_txns, live, open, writer, cs_main, started, cur>>

\* lmdb_txn_begin: a write transaction first waits for LMDB's writer mutex.
TxnOpen(t) ==
    /\ pc[t] = "begin"
    /\ IF cur[t] = "write"
       THEN writer = NoThread /\ writer' = t
       ELSE UNCHANGED writer
    /\ open' = open \cup {Obj(t)}
    /\ GoTo(t, "use")
    /\ UNCHANGED <<creation_gate, num_active_txns, live, cs_main, started, cur>>

\* Mutant: a failed begin calls uncheck() and keeps m_check.
TxnOpenFails_Uncounts(t) ==
    /\ pc[t] = "begin"
    /\ num_active_txns' = num_active_txns - 1
    /\ GoTo(t, "dtor")
    /\ UNCHANGED <<creation_gate, live, open, writer, cs_main, started, cur>>

\* lmdb_txn_begin fails: the object is destroyed with a null m_txn.
TxnOpenFails(t) ==
    /\ pc[t] = "begin"
    /\ GoTo(t, "dtor")
    /\ UNCHANGED <<creation_gate, num_active_txns, live, open, writer, cs_main, started, cur>>

\* mdb_txn_safe::commit, abort or the mdb_txn_abort of the destructor.  The
\* scan of LoadBlockIndex commits long before its object goes out of scope.
TxnEnd(t) ==
    /\ pc[t] = "use"
    /\ open' = open \ {Obj(t)}
    /\ writer' = IF cur[t] = "write" THEN NoThread ELSE writer
    /\ GoTo(t, IF cur[t] = "load" THEN "loaded" ELSE "dtor")
    /\ UNCHANGED <<creation_gate, num_active_txns, live, cs_main, started, cur>>

\* LoadBlockIndex reaches its end and localTxn leaves its scope.
LoadReturns(t) ==
    /\ pc[t] = "loaded"
    /\ GoTo(t, "dtor")
    /\ UNCHANGED <<creation_gate, num_active_txns, live, open, writer, cs_main, started, cur>>

\* The thread is back in what surrounds the object that was destroyed.
ReturnTo(t) ==
    CASE cur[t] = "read" /\ <<t, "write">> \in live -> GoTo(t, "use") /\ Work(t, "write")
      [] ~(cur[t] = "read" /\ <<t, "write">> \in live) /\ cur[t] # "load" /\ <<t, "load">> \in live
           -> GoTo(t, "loaded") /\ Work(t, "load")
      [] OTHER -> GoTo(t, "idle") /\ UNCHANGED cur

\* Mutant: the move assignment leaves m_check set in the moved-from object, so
\* that two destructors uncount one construction.
Dtor_MovedFromToo(t) ==
    /\ pc[t] = "dtor"
    /\ num_active_txns' = num_active_txns - 2
    /\ live' = live \ {Obj(t)}
    /\ ReturnTo(t)
    /\ started' = (started \/ cur[t] = "load")
    /\ UNCHANGED <<creation_gate, open, writer, cs_main>>

\* The end of ~mdb_txn_safe: num_active_txns--
Dtor(t) ==
    /\ pc[t] = "dtor"
    /\ num_active_txns' = num_active_txns - 1
    /\ live' = live \ {Obj(t)}
    /\ ReturnTo(t)
    /\ started' = (started \/ cur[t] = "load")
    /\ UNCHANGED <<creation_gate, open, writer, cs_main>>

-----------------------------------------------------------------------------
(* CTxDB::do_resize.                                                       *)

\* The disk has no room for a larger map: do_resize throws before the gate.
ResizeNoSpace(t) ==
    /\ pc[t] = "resize"
    /\ IF <<t, "load">> \in live
       THEN GoTo(t, "dtor") /\ Work(t, "load")
       ELSE GoTo(t, "idle") /\ UNCHANGED cur
    /\ UNCHANGED <<creation_gate, num_active_txns, live, open, writer, cs_main, started>>

\* prevent_new_txns
ResizeTakeGate(t) ==
    /\ pc[t] = "resize" /\ ~creation_gate
    /\ creation_gate' = TRUE
    /\ GoTo(t, "wait")
    /\ UNCHANGED <<num_active_txns, live, open, writer, cs_main, started, cur>>

\* wait_no_active_txns leaves its loop
ResizeWaited(t) ==
    /\ pc[t] = "wait" /\ num_active_txns = 0
    /\ GoTo(t, "setsize")
    /\ UNCHANGED <<creation_gate, num_active_txns, live, open, writer, cs_main, started, cur>>

\* mdb_env_set_mapsize returns
ResizeMap(t) ==
    /\ pc[t] = "setsize"
    /\ GoTo(t, "allow")
    /\ UNCHANGED <<creation_gate, num_active_txns, live, open, writer, cs_main, started, cur>>

\* allow_new_txns at the end of the scope; a failed mdb_env_set_mapsize throws.
ResizeAllow(t) ==
    /\ pc[t] = "allow"
    /\ creation_gate' = FALSE
    /\ \E resized \in BOOLEAN :
         IF resized THEN GoTo(t, "ctor") /\ UNCHANGED cur
         ELSE IF <<t, "load">> \in live THEN GoTo(t, "dtor") /\ Work(t, "load")
         ELSE GoTo(t, "idle") /\ UNCHANGED cur
    /\ UNCHANGED <<num_active_txns, live, open, writer, cs_main, started>>

-----------------------------------------------------------------------------
\* The steps a thread takes on its own once it is inside the database code.
Progress(t) ==
    \/ CtorTakeGate(t) \/ CtorCount(t) \/ CtorClearGate(t)
    \/ TxnOpen(t) \/ TxnOpenFails(t) \/ TxnEnd(t) \/ LoadReturns(t) \/ Dtor(t)
    \/ ResizeNoSpace(t) \/ ResizeTakeGate(t) \/ ResizeWaited(t)
    \/ ResizeMap(t) \/ ResizeAllow(t)

Call(t) ==
    \/ LockMain(t) \/ UnlockMain(t)
    \/ LoadBlockIndex(t) \/ Read(t) \/ TxnBegin(t)

Next == \E t \in Threads : Progress(t) \/ Call(t)

Spec == Init /\ [][Next]_vars

\* A thread inside the database code is scheduled again and again.  The spin on
\* the gate is not assumed to be fair: a thread may lose every race for it.
FairSpec == Spec /\ \A t \in Threads : WF_vars(Progress(t))

-----------------------------------------------------------------------------
(* Properties.                                                              *)

Holding == {"ctorInc", "ctorClear", "wait", "setsize", "allow"}

\* mdb_env_set_mapsize runs only while no LMDB transaction of the process is
\* open, whatever the other threads were doing when do_resize began: LMDB's
\* contract for resizing, which the counter and the gate exist to keep.
ResizeExclusive ==
    \A t \in Threads : pc[t] = "setsize" => open = {}

\* The counter that do_resize waits on is the number of counted objects: the
\* move of an mdb_txn_safe, a failed begin, a nested read and a commit long
\* before the destructor neither leak a count nor return one twice.
CountExact == num_active_txns = Cardinality(live)

\* Once do_resize holds the gate it gets the map to itself and moves it: the
\* "LMDB memory map needs to be resized, doing that now." of its callers.
ResizeCompletes ==
    \A t \in Threads : pc[t] = "wait" ~> pc[t] # "wait"

-----------------------------------------------------------------------------
(* The inductive invariant behind ResizeExclusive and CountExact.           *)

\* Exactly the threads between taking and clearing the gate hold it, and they
\* are at most one.
GateMutex ==
    /\ creation_gate <=> \E t \in Threads : pc[t] \in Holding
    /\ \A t, u \in Threads : pc[t] \in Holding /\ pc[u] \in Holding => t = u

\* The counted objects of a thread are the one it works on, once its
\* constructor has counted it, and some of those that surround it.
ScopeOK(t) ==
    /\ pc[t] = "idle" => \A k \in Kinds : <<t, k>> \notin live
    /\ pc[t] \in {"ctor", "ctorInc", "resize", "wait", "setsize", "allow"} =>
           \A k \in Kinds : <<t, k>> \in live => k \in Below[cur[t]]
    /\ pc[t] \in {"ctorClear", "begin", "use", "dtor", "loaded"} =>
           /\ Obj(t) \in live
           /\ \A k \in Kinds : <<t, k>> \in live => k \in Below[cur[t]] \cup {cur[t]}
    /\ pc[t] = "loaded" => cur[t] = "load"
    /\ pc[t] \in {"resize", "wait", "setsize", "allow"} => cur[t] = "write"

NestedScopes == \A t \in Threads : ScopeOK(t)

\* An LMDB transaction is open only inside a counted object that is in use,
\* itself or around a nested read.
OpenIsCounted ==
    /\ open \subseteq live
    /\ \A t \in Threads :
        /\ <<t, "load">> \in open => pc[t] = "use" /\ cur[t] = "load"
        /\ <<t, "read">> \in open => pc[t] = "use" /\ cur[t] = "read"
        /\ <<t, "write">> \in open => cur[t] = "read" \/ (pc[t] = "use" /\ cur[t] = "write")

\* While the map moves no object is counted at all.
ResizeAlone ==
    \A t \in Threads : pc[t] = "setsize" => live = {}

GateInv == /\ TypeOK /\ IsFiniteSet(live) /\ CountExact
           /\ GateMutex /\ NestedScopes /\ OpenIsCounted /\ ResizeAlone

=============================================================================
