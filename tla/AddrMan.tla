------------------------------ MODULE AddrMan ------------------------------
(***************************************************************************)
(* CAddrMan (addrman.h, addrman.cpp): the addresses of peers, in new and     *)
(* tried buckets with three indexes over them, and peers.dat (CAddrDB).      *)
(* Every operation holds CAddrMan::cs, so that each is one step.             *)
(*                                                                          *)
(* The statistics of an entry but nLastSuccess (nTime, nLastTry, nAttempts,  *)
(* nServices) are left out, and with them Attempt_ and Connected_, which     *)
(* change nothing else.  What they decide is a choice: whether Add_ brings   *)
(* anything new, and which entry ShrinkNew finds terrible or oldest.         *)
(* Positions count from 1.                                                   *)
(***************************************************************************)
EXTENDS Integers, SequencesExt

CONSTANTS
    Service,            \* the routable addresses: records of an ip and a port
    Source,             \* where knowledge about an address comes from
    Gossip,             \* which source tells of which service
    GetNewBucket,       \* the new bucket of an ip and a source
    GetTriedBucket,     \* the tried bucket of an ip
    NewBuckets,         \* ADDRMAN_NEW_BUCKET_COUNT
    TriedBuckets,       \* ADDRMAN_TRIED_BUCKET_COUNT
    NewBucketSize,      \* ADDRMAN_NEW_BUCKET_SIZE
    TriedBucketSize,    \* ADDRMAN_TRIED_BUCKET_SIZE
    PerAddress,         \* ADDRMAN_NEW_BUCKETS_PER_ADDRESS
    InspectOnEvict,     \* ADDRMAN_TRIED_ENTRIES_INSPECT_ON_EVICT
    GetAddrPct,         \* ADDRMAN_GETADDR_MAX_PCT
    GetAddrMax,         \* ADDRMAN_GETADDR_MAX
    Time,               \* the times GetAdjustedTime returns
    MaxId               \* bound of nIdCount

Ip == { s.ip : s \in Service }

ASSUME AddrAssumption ==
    /\ Gossip \subseteq Service \X Source
    /\ GetNewBucket \in [Ip \X Source -> 1 .. NewBuckets]
    /\ GetTriedBucket \in [Ip -> 1 .. TriedBuckets]
    /\ NewBuckets \in Nat /\ TriedBuckets \in Nat
    /\ {NewBucketSize, TriedBucketSize, PerAddress, InspectOnEvict} \subseteq Nat \ {0}
    /\ {GetAddrPct, GetAddrMax} \subseteq Nat /\ Time \subseteq Nat \ {0}

VARIABLE am         \* the CAddrMan: a record of its tables

Empty == [mapInfo |-> <<>>, mapAddr |-> <<>>, vRandom |-> <<>>, nIdCount |-> 0,
          nTried |-> 0, vvTried |-> [k \in 1 .. TriedBuckets |-> <<>>],
          nNew |-> 0, vvNew |-> [b \in 1 .. NewBuckets |-> {}]]

Init == am = Empty

Find(m, s) == { n \in DOMAIN m.mapInfo : s.ip \in DOMAIN m.mapAddr /\ m.mapAddr[s.ip] = n }

\* The new buckets that hold an entry.
BucketsOf(m, n) == { b \in 1 .. NewBuckets : n \in m.vvNew[b] }

-----------------------------------------------------------------------------
(* The tables.                                                              *)

CAddrInfo(s, src, pos) ==
    [service |-> s, source |-> src, nLastSuccess |-> 0, nRefCount |-> 0, fInTried |-> FALSE,
     nRandomPos |-> pos]

\* An assignment to an element of a map.
Put(f, key, value) == [x \in DOMAIN f \cup {key} |-> IF x = key THEN value ELSE f[x]]

Create(m, s, src) ==
    [m EXCEPT !.nIdCount = @ + 1,
              !.mapInfo = Put(@, m.nIdCount, CAddrInfo(s, src, Len(m.vRandom) + 1)),
              !.mapAddr = Put(@, s.ip, m.nIdCount),
              !.vRandom = Append(@, m.nIdCount)]

\* Mutant: the position of the second entry is not updated.
SwapRandom_OneWay(m, i, j) ==
    IF i = j THEN m
    ELSE [m EXCEPT !.mapInfo[m.vRandom[i]].nRandomPos = j,
                   !.vRandom[i] = m.vRandom[j], !.vRandom[j] = m.vRandom[i]]

SwapRandom(m, i, j) ==
    IF i = j THEN m
    ELSE [m EXCEPT !.mapInfo[m.vRandom[i]].nRandomPos = j,
                   !.mapInfo[m.vRandom[j]].nRandomPos = i,
                   !.vRandom[i] = m.vRandom[j], !.vRandom[j] = m.vRandom[i]]

\* An entry that is in no bucket any more is deleted.
Delete(m, n) ==
    LET s == SwapRandom(m, m.mapInfo[n].nRandomPos, Len(m.vRandom))
    IN  [s EXCEPT !.vRandom = Front(@),
                  !.mapAddr = Restrict(@, DOMAIN @ \ {m.mapInfo[n].service.ip}),
                  !.mapInfo = Restrict(@, DOMAIN @ \ {n}),
                  !.nNew = @ - 1]

\* Bucket b loses entry n, the first terrible one or the oldest of four.
ShrinkNew(m, b, n) ==
    LET d == [m EXCEPT !.mapInfo[n].nRefCount = @ - 1, !.vvNew[b] = @ \ {n}]
    IN  IF d.mapInfo[n].nRefCount = 0 THEN Delete(d, n) ELSE d

\* The last part of Add_: an entry goes into a bucket, which may lose another one.
AddToBucket(m, n, b) ==
    LET r == [m EXCEPT !.mapInfo[n].nRefCount = @ + 1]
        shrunk == IF Cardinality(r.vvNew[b]) = NewBucketSize
                  THEN { ShrinkNew(r, b, v) : v \in r.vvNew[b] } ELSE {r}
    IN  IF n \in m.vvNew[b] THEN {m} ELSE { [x EXCEPT !.vvNew[b] = @ \cup {n}] : x \in shrunk }

\* The position to replace after count swaps with random positions p, and the bucket as
\* they leave it.  The position kept is the one the oldest entry was taken from, not the
\* one it was swapped to.
Inspect(m, v, count, p) ==
    LET step[i \in 0 .. count] ==
          IF i = 0 THEN [vTried |-> v, oldest |-> -1, pos |-> 0]
          ELSE LET last == step[i - 1]
                   temp == last.vTried[p[i]]
                   swapped == [last.vTried EXCEPT ![p[i]] = last.vTried[i], ![i] = temp]
               IN  IF \/ last.oldest = -1
                      \/ m.mapInfo[temp].nLastSuccess < m.mapInfo[last.oldest].nLastSuccess
                   THEN [vTried |-> swapped, oldest |-> temp, pos |-> p[i]]
                   ELSE [last EXCEPT !.vTried = swapped]
    IN  step[count]

SelectTried(m, v) ==
    LET count == IF InspectOnEvict < Len(v) THEN InspectOnEvict ELSE Len(v)
    IN  { Inspect(m, v, count, p) :
            p \in { q \in [1 .. count -> 1 .. Len(v)] : \A i \in 1 .. count : q[i] >= i } }

\* A full tried bucket: its victim goes back to its new bucket, or to the one that the
\* new entry came from.
Evict(m, n, origin, k, sel) ==
    LET old == sel.vTried[sel.pos]
        info == m.mapInfo[old]
        own == GetNewBucket[<<info.service.ip, info.source>>]
        b == IF Cardinality(m.vvNew[own]) < NewBucketSize THEN own ELSE origin
    IN  [m EXCEPT !.mapInfo[old].fInTried = FALSE, !.mapInfo[old].nRefCount = 1,
                  !.mapInfo[n].fInTried = TRUE,
                  !.vvNew[b] = @ \cup {old}, !.nNew = @ + 1,
                  !.vvTried[k] = [sel.vTried EXCEPT ![sel.pos] = n]]

MakeTried(m, n, origin) ==
    LET k == GetTriedBucket[m.mapInfo[n].service.ip]
        out == [m EXCEPT !.mapInfo[n].nRefCount = @ - Cardinality(BucketsOf(m, n)),
                         !.vvNew = [b \in 1 .. NewBuckets |-> @[b] \ {n}], !.nNew = @ - 1]
    IN  IF Len(m.vvTried[k]) < TriedBucketSize
        THEN { [out EXCEPT !.vvTried[k] = Append(@, n), !.nTried = @ + 1,
                           !.mapInfo[n].fInTried = TRUE] }
        ELSE { Evict(out, n, origin, k, sel) : sel \in SelectTried(out, out.vvTried[k]) }

-----------------------------------------------------------------------------
(* peers.dat.                                                               *)

\* The map is in the order of the ids: how many of S come before n, and the i-th of S.
Before(S, n) == Cardinality({ i \in S : i < n })
Nth(S, i) == CHOOSE n \in S : Before(S, n) = i - 1

InNew(m) == { n \in DOMAIN m.mapInfo : m.mapInfo[n].nRefCount # 0 }
InTried(m) == { n \in DOMAIN m.mapInfo : m.mapInfo[n].fInTried }

\* Mutant: the index of a new entry counts the tried ones too.
IndexOf_All(m, n) == Before(DOMAIN m.mapInfo, n)

\* mapUnkIds: the new entries with a smaller id.
IndexOf(m, n) == Before(InNew(m), n)

\* nRefCount, fInTried and nRandomPos are "memory only".
Saved(m, n) == [service |-> m.mapInfo[n].service, source |-> m.mapInfo[n].source,
                nLastSuccess |-> m.mapInfo[n].nLastSuccess]

\* New entries, tried entries and the new buckets, which name entries by their index.
Serialize(m) ==
    [new |-> [i \in 1 .. m.nNew |-> Saved(m, Nth(InNew(m), i))],
     tried |-> [i \in 1 .. m.nTried |-> Saved(m, Nth(InTried(m), i))],
     buckets |-> [b \in 1 .. NewBuckets |-> { IndexOf(m, n) : n \in m.vvNew[b] }]]

\* An entry read from peers.dat, with the next id.
Restore(m, e, tried) ==
    LET c == Create(m, e.service, e.source)
    IN  [c EXCEPT !.mapInfo[m.nIdCount].nLastSuccess = e.nLastSuccess,
                  !.mapInfo[m.nIdCount].fInTried = tried]

\* A tried entry is lost when its bucket is full.
RestoreTried(m, e) ==
    LET k == GetTriedBucket[e.service.ip]
    IN  IF Len(m.vvTried[k]) < TriedBucketSize
        THEN [Restore(m, e, TRUE) EXCEPT !.vvTried[k] = Append(@, m.nIdCount), !.nTried = @ + 1]
        ELSE m

RestoreNew(m, e) == [Restore(m, e, FALSE) EXCEPT !.nNew = @ + 1]

\* The tables after all entries are read, the new ones first.
Entries(f) ==
    LET new[i \in 0 .. Len(f.new)] ==
            IF i = 0 THEN Empty ELSE RestoreNew(new[i - 1], f.new[i])
        tried[i \in 0 .. Len(f.tried)] ==
            IF i = 0 THEN new[Len(f.new)] ELSE RestoreTried(tried[i - 1], f.tried[i])
    IN  tried[Len(f.tried)]

Unserialize(f) ==
    LET \* a bucket takes an entry that is in fewer than PerAddress buckets so far
        vvNew == [b \in 1 .. NewBuckets |->
                    { n \in f.buckets[b] :
                        Cardinality({ c \in 1 .. b - 1 : n \in f.buckets[c] }) < PerAddress }]
    IN  [Entries(f) EXCEPT
           !.vvNew = vvNew,
           !.mapInfo = [n \in DOMAIN @ |->
                          [@[n] EXCEPT !.nRefCount =
                             Cardinality({ b \in 1 .. NewBuckets : n \in vvNew[b] })]]]

-----------------------------------------------------------------------------
(* The operations.                                                          *)

\* Add_ of an address that is known: it goes into another bucket, unless it is tried,
\* in PerAddress buckets, without news, or the dice say no.
AddKnown(s, src) ==
    \E n \in Find(am, s) :
        /\ ~am.mapInfo[n].fInTried /\ am.mapInfo[n].nRefCount # PerAddress
        /\ am' \in AddToBucket(am, n, GetNewBucket[<<am.mapInfo[n].service.ip, src>>])

\* Add_ of an address that is not.
AddNew(s, src) ==
    /\ Find(am, s) = {} /\ am.nIdCount < MaxId
    /\ am' \in AddToBucket([Create(am, s, src) EXCEPT !.nNew = @ + 1], am.nIdCount,
                           GetNewBucket[<<s.ip, src>>])

\* Good_: "check whether we are talking about the exact same CService".
Good(s, nTime) ==
    \E n \in Find(am, s) :
        LET m == [am EXCEPT !.mapInfo[n].nLastSuccess = nTime]
        IN  /\ am.mapInfo[n].service = s
            /\ IF am.mapInfo[n].fInTried \/ BucketsOf(am, n) = {} THEN am' = m
               ELSE \E origin \in BucketsOf(am, n) : am' \in MakeTried(m, n, origin)

\* GetAddr_: the first nNodes positions are swapped with random later ones.
GetAddr ==
    LET size == Len(am.vRandom)
        part == (GetAddrPct * size) \div 100
        nNodes == IF part > GetAddrMax THEN GetAddrMax ELSE part
    IN  \E p \in [1 .. nNodes -> 1 .. size] :
            LET shuffled[n \in 0 .. nNodes] ==
                    IF n = 0 THEN am ELSE SwapRandom(shuffled[n - 1], n, p[n])
            IN  /\ \A n \in 1 .. nNodes : p[n] >= n
                /\ am' = shuffled[nNodes]

\* The program ends, or dies, and starts again.  DumpAddresses replaces peers.dat by a
\* rename, so that it is whole; it may be missing, or from an earlier state.  Every
\* state is an earlier one of what follows, so that reading back this one reaches
\* all that an old peers.dat does.
Restart == am' \in {Empty, Unserialize(Serialize(am))}

Next ==
    \/ \E g \in Gossip : AddKnown(g[1], g[2]) \/ AddNew(g[1], g[2])
    \/ \E s \in Service, t \in Time : Good(s, t)
    \/ GetAddr \/ Restart

Spec == Init /\ [][Next]_am

-----------------------------------------------------------------------------
(* Properties.                                                              *)

\* CAddrMan::Check_ returns 0: the cases are its error codes.
Check_(m) ==
    LET ids == DOMAIN m.mapInfo
        tried == InTried(m)
        places(n) == { x \in (1 .. TriedBuckets) \X (1 .. TriedBucketSize) :
                         x[2] <= Len(m.vvTried[x[1]]) /\ m.vvTried[x[1]][x[2]] = n }
    IN  /\ Len(m.vRandom) = m.nTried + m.nNew
        /\ \A n \in tried : m.mapInfo[n].nLastSuccess > 0 /\ m.mapInfo[n].nRefCount = 0
        /\ \A n \in ids \ tried : m.mapInfo[n].nRefCount \in 1 .. PerAddress
        /\ \A n \in ids :
             LET info == m.mapInfo[n]
             IN  /\ info.service.ip \in DOMAIN m.mapAddr /\ m.mapAddr[info.service.ip] = n
                 /\ info.nRandomPos \in 1 .. Len(m.vRandom) /\ m.vRandom[info.nRandomPos] = n
        /\ Cardinality(tried) = m.nTried /\ Cardinality(ids \ tried) = m.nNew
        /\ \A n \in tried : Cardinality(places(n)) = 1
        /\ \A n \in ids \ tried : Cardinality(BucketsOf(m, n)) = m.mapInfo[n].nRefCount
        /\ \A k \in 1 .. TriedBuckets : Range(m.vvTried[k]) \subseteq tried
        /\ \A b \in 1 .. NewBuckets : m.vvNew[b] \subseteq ids \ tried

\* The three indexes, the counters and the buckets agree, through evictions, deletions
\* and restarts, and no bucket outgrows its size ("there is certainly place there").
TablesAgree ==
    /\ Check_(am)
    /\ \A b \in 1 .. NewBuckets : Cardinality(am.vvNew[b]) <= NewBucketSize
    /\ \A k \in 1 .. TriedBuckets : Len(am.vvTried[k]) <= TriedBucketSize

\* "they are instead reconstructed from the other information": peers.dat written and
\* read back gives every address its tables and its buckets again.
ReloadKeepsTables ==
    LET r == Unserialize(Serialize(am))
        About(m) == { [info |-> [m.mapInfo[n] EXCEPT !.nRandomPos = 0], buckets |-> BucketsOf(m, n)]
                        : n \in DOMAIN m.mapInfo }
    IN  Check_(r) /\ About(r) = About(am)

\* The inductive strengthening of TablesAgree.  vRandom and the entries name each other.
RandomAgrees(m) ==
    /\ \A i \in 1 .. Len(m.vRandom) :
         m.vRandom[i] \in DOMAIN m.mapInfo /\ m.mapInfo[m.vRandom[i]].nRandomPos = i
    /\ \A n \in DOMAIN m.mapInfo :
         LET pos == m.mapInfo[n].nRandomPos
         IN  pos \in 1 .. Len(m.vRandom) /\ m.vRandom[pos] = n

\* An entry is found under its address.
AddrAgrees(m) ==
    \A n \in DOMAIN m.mapInfo :
      LET ip == m.mapInfo[n].service.ip
      IN  ip \in DOMAIN m.mapAddr /\ m.mapAddr[ip] = n

\* A tried entry is at one position of the tried bucket of its address, and nowhere else.
TriedBucketOf(m, n) == GetTriedBucket[m.mapInfo[n].service.ip]
TriedAgrees(m) ==
    /\ \A n \in InTried(m) :
         /\ m.mapInfo[n].nLastSuccess > 0 /\ m.mapInfo[n].nRefCount = 0
         /\ \E i \in 1 .. Len(m.vvTried[TriedBucketOf(m, n)]) :
              m.vvTried[TriedBucketOf(m, n)][i] = n
    /\ \A k \in 1 .. TriedBuckets :
         /\ Len(m.vvTried[k]) <= TriedBucketSize
         /\ \A i \in 1 .. Len(m.vvTried[k]) :
              /\ m.vvTried[k][i] \in InTried(m) /\ TriedBucketOf(m, m.vvTried[k][i]) = k
              /\ \A j \in 1 .. Len(m.vvTried[k]) : m.vvTried[k][i] = m.vvTried[k][j] => i = j

\* The new buckets hold entries that are not tried, and not too many.
NewAgrees(m) ==
    \A b \in 1 .. NewBuckets :
      /\ m.vvNew[b] \subseteq DOMAIN m.mapInfo \ InTried(m)
      /\ Cardinality(m.vvNew[b]) <= NewBucketSize

\* The reference count of an entry is the number of its buckets.
RefsAgree(m) ==
    \A n \in DOMAIN m.mapInfo \ InTried(m) :
      /\ m.mapInfo[n].nRefCount = Cardinality(BucketsOf(m, n))
      /\ m.mapInfo[n].nRefCount \in 1 .. PerAddress

CountsAgree(m) ==
    /\ DOMAIN m.mapInfo \subseteq 0 .. m.nIdCount - 1
    /\ Cardinality(InTried(m)) = m.nTried
    /\ Cardinality(DOMAIN m.mapInfo \ InTried(m)) = m.nNew
    /\ Len(m.vRandom) = m.nTried + m.nNew

Sound(m) == /\ RandomAgrees(m) /\ AddrAgrees(m) /\ TriedAgrees(m)
            /\ NewAgrees(m) /\ RefsAgree(m) /\ CountsAgree(m)

\* SelectTried, "find the least recently tried among them": when all of a bucket is
\* inspected, the entry evicted from it is the one that succeeded least recently.
EvictsLeastRecent ==
    [][(\E s \in Service, t \in Time : Good(s, t)) =>
         \A k \in 1 .. TriedBuckets :
           \A n \in Range(am.vvTried[k]) \ Range(am'.vvTried[k]), o \in Range(am.vvTried[k]) :
             am.mapInfo[n].nLastSuccess <= am.mapInfo[o].nLastSuccess]_am

=============================================================================
