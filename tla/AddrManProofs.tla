--------------------------- MODULE AddrManProofs ---------------------------
(***************************************************************************)
(* The address manager, for any addresses, sources and sizes of the         *)
(* buckets: Check_ finds nothing after any operation, no bucket outgrows    *)
(* its size, and peers.dat gives every address its tables back.             *)
(***************************************************************************)
EXTENDS AddrMan, FiniteSetTheorems, SequenceTheorems, TLAPS

-----------------------------------------------------------------------------
(* Loops and sets of numbers.                                               *)

\* A set that 0 is in and that a step of the loop never leaves has all steps.
LEMMA UpTo ==
    ASSUME NEW n \in Nat, NEW S, 0 \in S, \A k \in 1..n : k - 1 \in S => k \in S
    PROVE  0..n \subseteq S
<1> DEFINE R == { p \in Nat \X Nat : p[1] < p[2] }
           C == (0..n) \ S
<1> SUFFICES ASSUME C # {} PROVE FALSE
  OBVIOUS
<1>1. IsWellFoundedOn(R, Nat)
  BY NatLessThanWellFounded DEF OpToRel
<1>2. C \subseteq Nat
  OBVIOUS
<1>3. \E k \in C : \A j \in C : <<j, k>> \notin R
  <2> HIDE DEF R, C
  <2> QED BY <1>1, <1>2, WFMin
<1>4. PICK k \in C : \A j \in C : <<j, k>> \notin R
  BY <1>3
<1>5. k \in 1..n /\ k - 1 \in 0..n /\ k \notin S
  BY <1>4
<1>6. k - 1 \in C /\ <<k - 1, k>> \in R
  BY <1>5
<1> QED BY <1>4, <1>6

\* A loop of n steps in T that starts with s, and a function that is its states.
LoopData(T, n, s, F) == n \in Nat /\ s \in T /\ F \in [T \X Int -> T]
Loop(f, n, s, F) == \A k \in 0..n : f[k] = IF k = 0 THEN s ELSE F[<<f[k - 1], k>>]

\* There is such a function.
LEMMA LoopExists ==
    ASSUME NEW T, NEW n, NEW s, NEW F, LoopData(T, n, s, F)
    PROVE  \E f \in [0..n -> T] : Loop(f, n, s, F)
<1> USE DEF LoopData, Loop
<1> DEFINE Sol(f, m) == /\ f \in [0..m -> T]
                        /\ \A k \in 0..m : f[k] = IF k = 0 THEN s ELSE F[<<f[k - 1], k>>]
           S == { m \in 0..n : \E f : Sol(f, m) }
<1>1. 0 \in S
  <2>1. Sol([k \in 0..0 |-> s], 0)
    OBVIOUS
  <2> HIDE DEF Sol
  <2> QED BY <2>1
<1>2. ASSUME NEW m \in 1..n, m - 1 \in S PROVE m \in S
  <2>1. PICK f : Sol(f, m - 1)
    BY <1>2
  <2> DEFINE g == [k \in 0..m |-> IF k = m THEN F[<<f[m - 1], m>>] ELSE f[k]]
  <2>2. m - 1 \in 0..(m - 1) /\ m \in 0..m /\ m # 0 /\ m \in Int
    OBVIOUS
  <2>3. F[<<f[m - 1], m>>] \in T
    <3>1. f[m - 1] \in T
      BY <2>1, <2>2
    <3> QED BY <3>1, <2>2
  <2>4. g \in [0..m -> T]
    <3>1. \A k \in 0..m : k # m => k \in 0..(m - 1)
      OBVIOUS
    <3> QED BY <2>1, <2>3, <3>1
  <2>5. ASSUME NEW k \in 0..m PROVE g[k] = IF k = 0 THEN s ELSE F[<<g[k - 1], k>>]
    <3>1. CASE k = m
      <4>1. g[k - 1] = f[m - 1] /\ g[k] = F[<<f[m - 1], m>>]
        BY <2>2, <3>1
      <4> QED BY <4>1, <2>2, <3>1
    <3>2. CASE k # m /\ k # 0
      <4>1. k \in 0..(m - 1) /\ k - 1 \in 0..m /\ k - 1 # m
        BY <3>2
      <4>2. g[k] = f[k] /\ g[k - 1] = f[k - 1]
        BY <3>2, <4>1
      <4> QED BY <4>1, <4>2, <2>1, <3>2
    <3>3. CASE k = 0
      <4>1. k \in 0..(m - 1) /\ k # m
        BY <3>3
      <4> QED BY <4>1, <2>1, <3>3
    <3> QED BY <3>1, <3>2, <3>3
  <2>6. Sol(g, m)
    BY <2>4, <2>5
  <2> HIDE DEF Sol
  <2> QED BY <2>6
<1>3. 0..n \subseteq S
  <2> HIDE DEF S
  <2> QED BY <1>1, <1>2, UpTo
<1>4. n \in S
  BY <1>3
<1>5. PICK f : Sol(f, n)
  BY <1>4
<1> QED BY <1>5

\* A function on 1..n is a sequence of length n.
LEMMA FunIsSeq ==
    ASSUME NEW T, NEW n \in Nat, NEW f \in [1..n -> T]
    PROVE  f \in Seq(T) /\ Len(f) = n
<1>1. f \in Seq(T)
  BY SeqDef
<1>2. DOMAIN f = 1..Len(f) /\ Len(f) \in Nat /\ DOMAIN f = 1..n
  BY <1>1, LenProperties
<1>3. n # 0 => n \in 1..Len(f)
  BY <1>2
<1>4. Len(f) # 0 => Len(f) \in 1..n
  BY <1>2
<1>5. Len(f) = n
  <2> DEFINE l == Len(f)
  <2>1. l \in Nat
    BY <1>2
  <2> HIDE DEF l
  <2>2. n # 0 => n \in 1..l
    BY <1>3 DEF l
  <2>3. l # 0 => l \in 1..n
    BY <1>4 DEF l
  <2>4. l = n
    BY <2>1, <2>2, <2>3
  <2> QED BY <2>4 DEF l
<1> QED BY <1>1, <1>5

-----------------------------------------------------------------------------
(* The order of the map.                                                    *)

\* Of two ids of a finite set, the smaller one has fewer before it.
LEMMA BeforeGrows ==
    ASSUME NEW S, S \subseteq Nat, IsFiniteSet(S), NEW x \in S, NEW y \in S, x < y
    PROVE  Before(S, x) < Before(S, y)
<1> DEFINE X == { i \in S : i < x }
           Y == { i \in S : i < y }
<1>1. X \subseteq Y /\ x \in Y /\ x \notin X /\ Y \subseteq S
  <2>1. \A i \in S : i < x => i < y
    OBVIOUS
  <2>2. x \in Nat /\ ~(x < x)
    OBVIOUS
  <2> QED BY <2>1, <2>2
<1> HIDE DEF X, Y
<1>2. IsFiniteSet(Y) /\ IsFiniteSet(X)
  BY <1>1, FS_Subset
<1>3. Cardinality(X) <= Cardinality(Y) /\ (Cardinality(Y) = Cardinality(X) => Y = X)
  BY <1>1, <1>2, FS_Subset
<1>4. Cardinality(X) \in Nat /\ Cardinality(Y) \in Nat
  BY <1>2, FS_CardinalityType
<1>5. Cardinality(X) < Cardinality(Y)
  BY <1>1, <1>3, <1>4
<1> QED BY <1>5 DEF Before, X, Y

\* An id has fewer before it than there are.
LEMMA BeforeBound ==
    ASSUME NEW S, S \subseteq Nat, IsFiniteSet(S), NEW x \in S
    PROVE  Before(S, x) \in 0..(Cardinality(S) - 1)
<1> DEFINE X == { i \in S : i < x }
<1>1. X \subseteq S /\ x \notin X
  OBVIOUS
<1> HIDE DEF X
<1>2. IsFiniteSet(X) /\ Cardinality(X) <= Cardinality(S) /\ (Cardinality(S) = Cardinality(X) => S = X)
  BY <1>1, FS_Subset
<1>3. Cardinality(X) \in Nat /\ Cardinality(S) \in Nat
  BY <1>2, FS_CardinalityType
<1>4. Cardinality(X) \in 0..(Cardinality(S) - 1)
  BY <1>1, <1>2, <1>3
<1> QED BY <1>4 DEF Before, X

\* Before(S, .) numbers a finite set of ids, and Nth is its inverse.
LEMMA NthIs ==
    ASSUME NEW S, S \subseteq Nat, IsFiniteSet(S)
    PROVE  /\ \A x, y \in S : Before(S, x) = Before(S, y) => x = y
           /\ \A x \in S : Before(S, x) \in 0..(Cardinality(S) - 1)
           /\ \A i \in 1..Cardinality(S) : Nth(S, i) \in S /\ Before(S, Nth(S, i)) = i - 1
<1> DEFINE N == 0..(Cardinality(S) - 1)
           f == [x \in S |-> Before(S, x)]
<1>1. \A x \in S : Before(S, x) \in N
  BY BeforeBound
<1>2. ASSUME NEW x \in S, NEW y \in S, Before(S, x) = Before(S, y) PROVE x = y
  <2>1. ~(Before(S, x) < Before(S, y)) /\ ~(Before(S, y) < Before(S, x))
    BY <1>1, <1>2
  <2>2. ~(x < y) /\ ~(y < x)
    BY <2>1, BeforeGrows
  <2>3. x \in Nat /\ y \in Nat
    OBVIOUS
  <2> QED BY <2>2, <2>3
<1>3. Cardinality(S) \in Nat
  BY FS_CardinalityType
<1>4. IsFiniteSet(N) /\ Cardinality(N) = Cardinality(S)
  <2>1. 0 \in Int /\ Cardinality(S) - 1 \in Int
    BY <1>3
  <2>2. IsFiniteSet(N) /\ Cardinality(N) = IF 0 > Cardinality(S) - 1 THEN 0 ELSE Cardinality(S) - 1 - 0 + 1
    BY <2>1, FS_Interval
  <2> QED BY <1>3, <2>2
<1>5. f \in Injection(S, N)
  <2>1. f \in [S -> N]
    BY <1>1
  <2>2. IsInjective(f)
    BY <1>2 DEF IsInjective
  <2> HIDE DEF f, N
  <2> QED BY <2>1, <2>2 DEF Injection
<1>6. f \in Surjection(S, N)
  <2> HIDE DEF f, N
  <2> QED BY <1>4, <1>5, FS_Injection
<1>7. ASSUME NEW i \in 1..Cardinality(S) PROVE Nth(S, i) \in S /\ Before(S, Nth(S, i)) = i - 1
  <2>1. i - 1 \in N
    BY <1>3
  <2>2. \E x \in S : f[x] = i - 1
    <3> HIDE DEF f, N
    <3> QED BY <1>6, <2>1 DEF Surjection
  <2>3. PICK x \in S : Before(S, x) = i - 1
    BY <2>2
  <2> QED BY <2>3 DEF Nth
<1> QED BY <1>1, <1>2, <1>7

-----------------------------------------------------------------------------
(* The types of the tables.                                                 *)

CAddrInfos == [service : Service, source : Source, nLastSuccess : Nat, nRefCount : Nat,
               fInTried : BOOLEAN, nRandomPos : Nat]
Infos == UNION { [D -> CAddrInfos] : D \in SUBSET Nat }
Addrs == UNION { [D -> Nat] : D \in SUBSET Ip }
Tables == [mapInfo : Infos, mapAddr : Addrs, vRandom : Seq(Nat), nIdCount : Nat,
           nTried : Nat, vvTried : [1 .. TriedBuckets -> Seq(Nat)],
           nNew : Nat, vvNew : [1 .. NewBuckets -> SUBSET Nat]]

\* The type of mapInfo, without its set of domains.
LEMMA InfosType ==
    \A f : f \in Infos <=> /\ f = [n \in DOMAIN f |-> f[n]]
                           /\ DOMAIN f \subseteq Nat
                           /\ \A n \in DOMAIN f : f[n] \in CAddrInfos
<1>1. ASSUME NEW f \in Infos
      PROVE  f = [n \in DOMAIN f |-> f[n]] /\ DOMAIN f \subseteq Nat /\ \A n \in DOMAIN f : f[n] \in CAddrInfos
  <2>1. PICK D \in SUBSET Nat : f \in [D -> CAddrInfos]
    BY DEF Infos
  <2> QED BY <2>1
<1>2. ASSUME NEW f, f = [n \in DOMAIN f |-> f[n]], DOMAIN f \subseteq Nat,
             \A n \in DOMAIN f : f[n] \in CAddrInfos
      PROVE  f \in Infos
  <2>1. f \in [DOMAIN f -> CAddrInfos]
    BY <1>2
  <2> QED BY <1>2, <2>1 DEF Infos
<1> QED BY <1>1, <1>2

\* The type of mapAddr, the same way.
LEMMA AddrsType ==
    \A f : f \in Addrs <=> /\ f = [n \in DOMAIN f |-> f[n]]
                           /\ DOMAIN f \subseteq Ip
                           /\ \A n \in DOMAIN f : f[n] \in Nat
<1>1. ASSUME NEW f \in Addrs
      PROVE  f = [n \in DOMAIN f |-> f[n]] /\ DOMAIN f \subseteq Ip /\ \A n \in DOMAIN f : f[n] \in Nat
  <2>1. PICK D \in SUBSET Ip : f \in [D -> Nat]
    BY DEF Addrs
  <2> QED BY <2>1
<1>2. ASSUME NEW f, f = [n \in DOMAIN f |-> f[n]], DOMAIN f \subseteq Ip, \A n \in DOMAIN f : f[n] \in Nat
      PROVE  f \in Addrs
  <2>1. f \in [DOMAIN f -> Nat]
    BY <1>2
  <2> QED BY <1>2, <2>1 DEF Addrs
<1> QED BY <1>1, <1>2

\* The types of the fields.
LEMMA TablesFields ==
    ASSUME NEW m \in Tables
    PROVE  /\ m.mapInfo \in Infos /\ m.mapAddr \in Addrs /\ m.vRandom \in Seq(Nat)
           /\ m.nIdCount \in Nat /\ m.nTried \in Nat /\ m.nNew \in Nat
           /\ m.vvTried \in [1 .. TriedBuckets -> Seq(Nat)] /\ m.vvNew \in [1 .. NewBuckets -> SUBSET Nat]
           /\ DOMAIN m.mapInfo \subseteq Nat
           /\ \A n \in DOMAIN m.mapInfo : m.mapInfo[n] \in CAddrInfos
BY InfosType DEF Tables

\* The constants.
LEMMA Sizes ==
    /\ NewBuckets \in Nat /\ TriedBuckets \in Nat
    /\ NewBucketSize \in Nat /\ NewBucketSize # 0 /\ TriedBucketSize \in Nat /\ TriedBucketSize # 0
    /\ PerAddress \in Nat /\ PerAddress # 0 /\ InspectOnEvict \in Nat /\ InspectOnEvict # 0
    /\ GetAddrPct \in Nat /\ GetAddrMax \in Nat
BY AddrAssumption

\* The fields of an entry.
LEMMA InfoFields ==
    ASSUME NEW e \in CAddrInfos
    PROVE  /\ e.service \in Service /\ e.source \in Source /\ e.nLastSuccess \in Nat
           /\ e.nRefCount \in Nat /\ e.fInTried \in BOOLEAN /\ e.nRandomPos \in Nat
           /\ e.service.ip \in Ip
           /\ GetTriedBucket[e.service.ip] \in 1 .. TriedBuckets
           /\ \A src \in Source : GetNewBucket[<<e.service.ip, src>>] \in 1 .. NewBuckets
<1>1. e.service \in Service /\ e.source \in Source
  BY DEF CAddrInfos
<1>2. e.service.ip \in Ip
  BY <1>1 DEF Ip
<1>3. GetTriedBucket[e.service.ip] \in 1 .. TriedBuckets
  BY <1>2, AddrAssumption
<1>4. \A src \in Source : GetNewBucket[<<e.service.ip, src>>] \in 1 .. NewBuckets
  BY <1>2, AddrAssumption
<1> QED BY <1>1, <1>2, <1>3, <1>4 DEF CAddrInfos

\* What the predicates on the tables but RandomAgrees depend on.
SameInfo(e, f) == /\ f.service = e.service /\ f.source = e.source
                  /\ f.nLastSuccess = e.nLastSuccess /\ f.nRefCount = e.nRefCount
                  /\ f.fInTried = e.fInTried
SamePlaces(m, s) ==
    /\ DOMAIN s.mapInfo = DOMAIN m.mapInfo
    /\ \A n \in DOMAIN m.mapInfo : SameInfo(m.mapInfo[n], s.mapInfo[n])
    /\ s.mapAddr = m.mapAddr /\ s.nIdCount = m.nIdCount /\ Len(s.vRandom) = Len(m.vRandom)
    /\ s.nTried = m.nTried /\ s.vvTried = m.vvTried /\ s.nNew = m.nNew /\ s.vvNew = m.vvNew

\* They do.
LEMMA PlacesKeep ==
    ASSUME NEW m, NEW s, SamePlaces(m, s)
    PROVE  /\ InTried(s) = InTried(m)
           /\ \A n : BucketsOf(s, n) = BucketsOf(m, n)
           /\ AddrAgrees(m) => AddrAgrees(s)
           /\ TriedAgrees(m) => TriedAgrees(s)
           /\ NewAgrees(m) => NewAgrees(s)
           /\ RefsAgree(m) => RefsAgree(s)
           /\ CountsAgree(m) => CountsAgree(s)
<1>1. InTried(s) = InTried(m)
  BY DEF SamePlaces, SameInfo, InTried
<1>2. \A n : BucketsOf(s, n) = BucketsOf(m, n)
  BY DEF SamePlaces, BucketsOf
<1>3. AddrAgrees(m) => AddrAgrees(s)
  BY DEF SamePlaces, SameInfo, AddrAgrees
<1>4. \A n \in DOMAIN m.mapInfo : TriedBucketOf(s, n) = TriedBucketOf(m, n)
  BY DEF SamePlaces, SameInfo, TriedBucketOf
<1>5. InTried(m) \subseteq DOMAIN m.mapInfo
  BY DEF InTried
<1>6. TriedAgrees(m) => TriedAgrees(s)
  BY <1>1, <1>4, <1>5 DEF SamePlaces, SameInfo, TriedAgrees
<1>7. NewAgrees(m) => NewAgrees(s)
  BY <1>1 DEF SamePlaces, NewAgrees
<1>8. RefsAgree(m) => RefsAgree(s)
  BY <1>1, <1>2 DEF SamePlaces, SameInfo, RefsAgree
<1>9. CountsAgree(m) => CountsAgree(s)
  BY <1>1 DEF SamePlaces, CountsAgree
<1> QED BY <1>1, <1>2, <1>3, <1>6, <1>7, <1>8, <1>9

\* SwapRandom keeps vRandom and the entries together, and nothing else changes.
LEMMA SwapKeeps ==
    ASSUME NEW m \in Tables, RandomAgrees(m),
           NEW i \in 1..Len(m.vRandom), NEW j \in 1..Len(m.vRandom)
    PROVE  /\ SwapRandom(m, i, j) \in Tables
           /\ RandomAgrees(SwapRandom(m, i, j))
           /\ SamePlaces(m, SwapRandom(m, i, j))
           /\ SwapRandom(m, i, j).vRandom[j] = m.vRandom[i]
<1> DEFINE s == SwapRandom(m, i, j)
           x == m.vRandom[i]
           y == m.vRandom[j]
           info == [n \in DOMAIN m.mapInfo |->
                      IF n = x THEN [m.mapInfo[n] EXCEPT !.nRandomPos = j]
                      ELSE IF n = y THEN [m.mapInfo[n] EXCEPT !.nRandomPos = i] ELSE m.mapInfo[n]]
           rnd == [k \in 1..Len(m.vRandom) |-> IF k = j THEN x ELSE IF k = i THEN y ELSE m.vRandom[k]]
<1>1. CASE i = j
  <2>1. s = m
    BY <1>1 DEF SwapRandom
  <2>2. SamePlaces(m, m)
    BY DEF SamePlaces, SameInfo
  <2> QED BY <1>1, <2>1, <2>2
<1>2. CASE i # j
  <2>1. /\ x \in DOMAIN m.mapInfo /\ m.mapInfo[x].nRandomPos = i
        /\ y \in DOMAIN m.mapInfo /\ m.mapInfo[y].nRandomPos = j /\ x # y
    BY <1>2 DEF RandomAgrees
  <2>2. /\ m.mapInfo \in [DOMAIN m.mapInfo -> CAddrInfos] /\ DOMAIN m.mapInfo \subseteq Nat
        /\ m.vRandom \in Seq(Nat) /\ Len(m.vRandom) \in Nat
        /\ m.vRandom \in [1..Len(m.vRandom) -> Nat]
        /\ i \in Nat /\ j \in Nat /\ x \in Nat /\ y \in Nat
    BY TablesFields, InfosType
  <2>3. s.mapInfo = info
    BY <1>2, <2>1, <2>2 DEF SwapRandom, Tables, CAddrInfos
  <2>4. s.vRandom = rnd
    <3>1. s.vRandom = [m.vRandom EXCEPT ![i] = m.vRandom[j], ![j] = m.vRandom[i]]
      BY <1>2 DEF SwapRandom, Tables
    <3> QED BY <1>2, <2>2, <3>1
  <2>5. /\ s.mapAddr = m.mapAddr /\ s.nIdCount = m.nIdCount /\ s.nTried = m.nTried
        /\ s.vvTried = m.vvTried /\ s.nNew = m.nNew /\ s.vvNew = m.vvNew
        /\ s = [mapInfo |-> s.mapInfo, mapAddr |-> s.mapAddr, vRandom |-> s.vRandom,
                nIdCount |-> s.nIdCount, nTried |-> s.nTried, vvTried |-> s.vvTried,
                nNew |-> s.nNew, vvNew |-> s.vvNew]
    BY <1>2 DEF SwapRandom, Tables
  <2>6. info \in Infos
    <3>1. ASSUME NEW e \in CAddrInfos, NEW k \in Nat PROVE [e EXCEPT !.nRandomPos = k] \in CAddrInfos
      BY DEF CAddrInfos
    <3>2. \A n \in DOMAIN m.mapInfo : info[n] \in CAddrInfos
      BY <2>2, <3>1
    <3>3. info = [n \in DOMAIN info |-> info[n]] /\ DOMAIN info = DOMAIN m.mapInfo
      OBVIOUS
    <3> HIDE DEF info
    <3> QED BY <3>2, <3>3, <2>2, InfosType
  <2>7. rnd \in Seq(Nat) /\ Len(rnd) = Len(m.vRandom)
    <3>1. \A k \in 1..Len(m.vRandom) : rnd[k] \in Nat
      BY <2>2
    <3>2. rnd \in [1..Len(m.vRandom) -> Nat]
      BY <3>1
    <3> HIDE DEF rnd
    <3> QED BY <2>2, <3>2, FunIsSeq
  <2> HIDE DEF s
  <2>8. s \in Tables
    <3> HIDE DEF info, rnd
    <3> QED BY <2>3, <2>4, <2>5, <2>6, <2>7, TablesFields DEF Tables
  <2>9. SamePlaces(m, s)
    <3>1. \A n \in DOMAIN m.mapInfo : SameInfo(m.mapInfo[n], info[n])
      BY <2>2 DEF SameInfo, CAddrInfos
    <3> QED BY <2>3, <2>4, <2>5, <2>7, <3>1 DEF SamePlaces
  <2>10. \A n \in DOMAIN m.mapInfo :
           info[n].nRandomPos = IF n = x THEN j ELSE IF n = y THEN i ELSE m.mapInfo[n].nRandomPos
    BY <2>2 DEF CAddrInfos
  <2>11. RandomAgrees(s)
    <3>1. DOMAIN info = DOMAIN m.mapInfo /\ Len(rnd) = Len(m.vRandom)
      BY <2>7
    <3>2. \A k \in 1..Len(m.vRandom) : rnd[k] = IF k = j THEN x ELSE IF k = i THEN y ELSE m.vRandom[k]
      OBVIOUS
    <3> HIDE DEF info, rnd
    <3>3. \A k \in 1..Len(rnd) : rnd[k] \in DOMAIN info /\ info[rnd[k]].nRandomPos = k
      BY <3>1, <3>2, <2>1, <2>10, <1>2 DEF RandomAgrees
    <3>4. \A n \in DOMAIN info : info[n].nRandomPos \in 1..Len(rnd) /\ rnd[info[n].nRandomPos] = n
      BY <3>1, <3>2, <2>1, <2>10, <1>2 DEF RandomAgrees
    <3> QED BY <3>3, <3>4, <2>3, <2>4 DEF RandomAgrees
  <2>12. s.vRandom[j] = x
    BY <2>4
  <2> QED BY <2>8, <2>9, <2>11, <2>12 DEF s
<1> QED BY <1>1, <1>2

-----------------------------------------------------------------------------
(* Entries come and go.                                                     *)

\* All of Sound but the reference counts.
Base(m) == /\ RandomAgrees(m) /\ AddrAgrees(m) /\ TriedAgrees(m)
           /\ NewAgrees(m) /\ CountsAgree(m)

\* Everything is finite.
LEMMA BaseFinite ==
    ASSUME NEW m \in Tables, CountsAgree(m)
    PROVE  /\ IsFiniteSet(DOMAIN m.mapInfo) /\ IsFiniteSet(InTried(m))
           /\ InTried(m) \subseteq DOMAIN m.mapInfo
           /\ IsFiniteSet(DOMAIN m.mapInfo \ InTried(m))
           /\ NewAgrees(m) => \A b \in 1..NewBuckets : IsFiniteSet(m.vvNew[b])
           /\ \A n : IsFiniteSet(BucketsOf(m, n)) /\ Cardinality(BucketsOf(m, n)) \in Nat
<1>1. IsFiniteSet(DOMAIN m.mapInfo)
  <2>1. 0 \in Int /\ m.nIdCount - 1 \in Int
    BY TablesFields
  <2>2. IsFiniteSet(0 .. m.nIdCount - 1)
    BY <2>1, FS_Interval
  <2> QED BY <2>2, FS_Subset DEF CountsAgree
<1>2. InTried(m) \subseteq DOMAIN m.mapInfo
  BY DEF InTried
<1>3. IsFiniteSet(InTried(m)) /\ IsFiniteSet(DOMAIN m.mapInfo \ InTried(m))
  BY <1>1, <1>2, FS_Subset
<1>4. ASSUME NewAgrees(m), NEW b \in 1..NewBuckets PROVE IsFiniteSet(m.vvNew[b])
  <2>1. m.vvNew[b] \subseteq DOMAIN m.mapInfo
    BY <1>4 DEF NewAgrees
  <2> QED BY <1>1, <2>1, FS_Subset
<1>5. ASSUME NEW n PROVE IsFiniteSet(BucketsOf(m, n)) /\ Cardinality(BucketsOf(m, n)) \in Nat
  <2>1. BucketsOf(m, n) \subseteq 1..NewBuckets
    BY DEF BucketsOf
  <2>2. 1 \in Int /\ NewBuckets \in Int
    BY AddrAssumption
  <2>3. IsFiniteSet(1..NewBuckets)
    BY <2>2, FS_Interval
  <2>4. IsFiniteSet(BucketsOf(m, n))
    BY <2>1, <2>3, FS_Subset
  <2> QED BY <2>4, FS_CardinalityType
<1> QED BY <1>1, <1>2, <1>3, <1>4, <1>5

\* z is m with an entry e, which has the next id and the last random position.
Inserted(m, e, z) ==
    /\ DOMAIN z.mapInfo = DOMAIN m.mapInfo \cup {m.nIdCount}
    /\ z.mapInfo[m.nIdCount] = e
    /\ \A n \in DOMAIN m.mapInfo : z.mapInfo[n] = m.mapInfo[n]
    /\ DOMAIN z.mapAddr = DOMAIN m.mapAddr \cup {e.service.ip}
    /\ z.mapAddr[e.service.ip] = m.nIdCount
    /\ \A ip \in DOMAIN m.mapAddr : ip # e.service.ip => z.mapAddr[ip] = m.mapAddr[ip]
    /\ z.vRandom = Append(m.vRandom, m.nIdCount)
    /\ z.nIdCount = m.nIdCount + 1
    /\ z.vvNew = m.vvNew
    /\ e.nRandomPos = Len(m.vRandom) + 1

\* No entry has the address.
IsFresh(m, ip) == \A n \in DOMAIN m.mapInfo : m.mapInfo[n].service.ip # ip

\* Create makes such an entry.
LEMMA CreateInserts ==
    ASSUME NEW m \in Tables, m.nIdCount \notin DOMAIN m.mapInfo, NEW s \in Service, NEW src \in Source
    PROVE  /\ Create(m, s, src) \in Tables
           /\ CAddrInfo(s, src, Len(m.vRandom) + 1) \in CAddrInfos
           /\ Inserted(m, CAddrInfo(s, src, Len(m.vRandom) + 1), Create(m, s, src))
           /\ Create(m, s, src).nTried = m.nTried /\ Create(m, s, src).vvTried = m.vvTried
           /\ Create(m, s, src).nNew = m.nNew
<1> DEFINE z == Create(m, s, src)
           e == CAddrInfo(s, src, Len(m.vRandom) + 1)
           info == Put(m.mapInfo, m.nIdCount, e)
           addr == Put(m.mapAddr, s.ip, m.nIdCount)
<1>1. /\ m.mapInfo \in Infos /\ m.mapAddr \in Addrs /\ m.vRandom \in Seq(Nat) /\ m.nIdCount \in Nat
      /\ m.nIdCount + 1 \in Nat /\ Len(m.vRandom) \in Nat /\ s.ip \in Ip
  BY TablesFields DEF Ip
<1>2. e \in CAddrInfos /\ e.service = s /\ e.nRandomPos = Len(m.vRandom) + 1
  BY <1>1 DEF CAddrInfo, CAddrInfos
<1>3. z = [mapInfo |-> info, mapAddr |-> addr, vRandom |-> Append(m.vRandom, m.nIdCount),
           nIdCount |-> m.nIdCount + 1, nTried |-> m.nTried, vvTried |-> m.vvTried,
           nNew |-> m.nNew, vvNew |-> m.vvNew]
  <2> HIDE DEF e
  <2>1. z = [m EXCEPT !.nIdCount = m.nIdCount + 1, !.mapInfo = info, !.mapAddr = addr,
                      !.vRandom = Append(m.vRandom, m.nIdCount)]
    BY DEF Create, Tables, e
  <2> HIDE DEF info, addr, z
  <2> QED BY <2>1 DEF Tables
<1> HIDE DEF e, z
<1>4. /\ DOMAIN info = DOMAIN m.mapInfo \cup {m.nIdCount} /\ info[m.nIdCount] = e
      /\ \A n \in DOMAIN m.mapInfo : n # m.nIdCount => info[n] = m.mapInfo[n]
      /\ info = [n \in DOMAIN info |-> info[n]]
  BY DEF Put
<1>5. /\ DOMAIN addr = DOMAIN m.mapAddr \cup {s.ip} /\ addr[s.ip] = m.nIdCount
      /\ \A ip \in DOMAIN m.mapAddr : ip # s.ip => addr[ip] = m.mapAddr[ip]
      /\ addr = [n \in DOMAIN addr |-> addr[n]]
  BY DEF Put
<1> HIDE DEF info, addr
<1>6. info \in Infos
  BY <1>1, <1>2, <1>4, InfosType
<1>7. addr \in Addrs
  BY <1>1, <1>5, AddrsType
<1>8. Append(m.vRandom, m.nIdCount) \in Seq(Nat)
  BY <1>1
<1>9. z \in Tables
  BY <1>1, <1>3, <1>6, <1>7, <1>8, TablesFields DEF Tables
<1> QED BY <1>2, <1>3, <1>4, <1>5, <1>9 DEF Inserted, z, e

\* The next id is not in use, and the indexes agree about the entry that gets it.
LEMMA InsertIndexes ==
    ASSUME NEW m \in Tables, RandomAgrees(m), AddrAgrees(m), CountsAgree(m),
           NEW e, NEW z, Inserted(m, e, z), IsFresh(m, e.service.ip)
    PROVE  /\ m.nIdCount \notin DOMAIN m.mapInfo
           /\ RandomAgrees(z) /\ AddrAgrees(z)
           /\ Len(z.vRandom) = Len(m.vRandom) + 1
           /\ DOMAIN z.mapInfo \subseteq 0 .. z.nIdCount - 1
<1>1. m.nIdCount \in Nat /\ m.vRandom \in Seq(Nat) /\ Len(m.vRandom) \in Nat
  BY TablesFields
<1>2. DOMAIN m.mapInfo \subseteq 0 .. m.nIdCount - 1 /\ m.nIdCount \notin DOMAIN m.mapInfo
  BY <1>1 DEF CountsAgree
<1>3. /\ Len(z.vRandom) = Len(m.vRandom) + 1
      /\ \A i \in 1..Len(m.vRandom) : z.vRandom[i] = m.vRandom[i]
      /\ z.vRandom[Len(m.vRandom) + 1] = m.nIdCount
  BY <1>1, AppendProperties DEF Inserted
<1>4. RandomAgrees(z)
  <2>1. ASSUME NEW i \in 1..Len(z.vRandom)
        PROVE  z.vRandom[i] \in DOMAIN z.mapInfo /\ z.mapInfo[z.vRandom[i]].nRandomPos = i
    <3>1. CASE i = Len(m.vRandom) + 1
      BY <3>1, <1>3 DEF Inserted
    <3>2. CASE i # Len(m.vRandom) + 1
      <4>1. i \in 1..Len(m.vRandom)
        BY <3>2, <1>1, <1>3
      <4> QED BY <4>1, <1>3 DEF Inserted, RandomAgrees
    <3> QED BY <3>1, <3>2
  <2>2. ASSUME NEW n \in DOMAIN z.mapInfo
        PROVE  /\ z.mapInfo[n].nRandomPos \in 1..Len(z.vRandom)
               /\ z.vRandom[z.mapInfo[n].nRandomPos] = n
    <3>1. CASE n = m.nIdCount
      BY <3>1, <1>1, <1>3 DEF Inserted
    <3>2. CASE n # m.nIdCount
      <4> DEFINE i == m.mapInfo[n].nRandomPos
                 l == Len(m.vRandom)
      <4>1. n \in DOMAIN m.mapInfo /\ z.mapInfo[n] = m.mapInfo[n]
        BY <3>2 DEF Inserted
      <4>2. i \in 1..l /\ m.vRandom[i] = n
        BY <4>1 DEF RandomAgrees
      <4>3. l \in Nat /\ Len(z.vRandom) = l + 1 /\ z.vRandom[i] = m.vRandom[i]
        BY <4>2, <1>1, <1>3
      <4>4. z.mapInfo[n].nRandomPos = i
        BY <4>1
      <4> HIDE DEF i, l
      <4>5. i \in 1..Len(z.vRandom)
        BY <4>2, <4>3
      <4> QED BY <4>2, <4>3, <4>4, <4>5
    <3> QED BY <3>1, <3>2
  <2> QED BY <2>1, <2>2 DEF RandomAgrees
<1>5. AddrAgrees(z)
  BY DEF AddrAgrees, Inserted, IsFresh
<1>6. DOMAIN z.mapInfo \subseteq 0 .. z.nIdCount - 1
  BY <1>1, <1>2 DEF Inserted
<1> QED BY <1>2, <1>3, <1>4, <1>5, <1>6

\* An entry that is not tried yet, and that is in no bucket.
InsertedNew(m, e, z) ==
    /\ ~e.fInTried /\ z.vvTried = m.vvTried /\ z.nTried = m.nTried /\ z.nNew = m.nNew + 1

\* Such an entry keeps all but the counts of references in order.
LEMMA InsertNew ==
    ASSUME NEW m \in Tables, Base(m), NEW e, NEW z, Inserted(m, e, z), IsFresh(m, e.service.ip),
           InsertedNew(m, e, z)
    PROVE  /\ Base(z) /\ InTried(z) = InTried(m)
           /\ \A n : BucketsOf(z, n) = BucketsOf(m, n)
           /\ BucketsOf(z, m.nIdCount) = {}
<1> USE DEF Base
<1>1. /\ m.nIdCount \notin DOMAIN m.mapInfo /\ RandomAgrees(z) /\ AddrAgrees(z)
      /\ Len(z.vRandom) = Len(m.vRandom) + 1 /\ DOMAIN z.mapInfo \subseteq 0 .. z.nIdCount - 1
  BY InsertIndexes
<1>2. InTried(z) = InTried(m)
  BY <1>1 DEF InTried, Inserted, InsertedNew
<1>3. \A n : BucketsOf(z, n) = BucketsOf(m, n)
  BY DEF BucketsOf, Inserted
<1>4. BucketsOf(z, m.nIdCount) = {}
  BY <1>1, <1>3 DEF BucketsOf, NewAgrees
<1>5. \A n \in InTried(m) : z.mapInfo[n] = m.mapInfo[n] /\ TriedBucketOf(z, n) = TriedBucketOf(m, n)
  BY DEF InTried, Inserted, TriedBucketOf
<1>6. TriedAgrees(z)
  BY <1>2, <1>5 DEF TriedAgrees, InsertedNew
<1>7. NewAgrees(z)
  BY <1>2 DEF NewAgrees, Inserted
<1>8. CountsAgree(z)
  <2> DEFINE S == DOMAIN m.mapInfo \ InTried(m)
  <2>1. DOMAIN z.mapInfo \ InTried(z) = S \cup {m.nIdCount} /\ m.nIdCount \notin S
    BY <1>1, <1>2 DEF Inserted, InTried
  <2>2. IsFiniteSet(S) /\ Cardinality(S) = m.nNew /\ Len(m.vRandom) = m.nTried + m.nNew
    BY BaseFinite DEF CountsAgree
  <2>3. Cardinality(S \cup {m.nIdCount}) = m.nNew + 1
    <3> HIDE DEF S
    <3> QED BY <2>1, <2>2, FS_AddElement
  <2>4. m.nTried \in Nat /\ m.nNew \in Nat
    BY TablesFields
  <2>5. z.nTried = m.nTried /\ z.nNew = m.nNew + 1
    BY DEF InsertedNew
  <2>6. Len(z.vRandom) = z.nTried + z.nNew
    BY <1>1, <2>2, <2>4, <2>5
  <2>7. Cardinality(InTried(z)) = z.nTried
    BY <1>2, <2>5 DEF CountsAgree
  <2>8. Cardinality(DOMAIN z.mapInfo \ InTried(z)) = z.nNew
    BY <2>1, <2>3, <2>5
  <2> QED BY <1>1, <2>6, <2>7, <2>8 DEF CountsAgree
<1> QED BY <1>1, <1>2, <1>3, <1>4, <1>6, <1>7, <1>8

\* A tried entry, which is appended to its bucket.
InsertedTried(m, e, z, k) ==
    /\ e.fInTried /\ e.nLastSuccess > 0 /\ e.nRefCount = 0
    /\ k = GetTriedBucket[e.service.ip] /\ Len(m.vvTried[k]) < TriedBucketSize
    /\ z.vvTried = [m.vvTried EXCEPT ![k] = Append(@, m.nIdCount)]
    /\ z.nTried = m.nTried + 1 /\ z.nNew = m.nNew

\* Such an entry does, too.
LEMMA InsertTried ==
    ASSUME NEW m \in Tables, Base(m), NEW e, NEW z, Inserted(m, e, z), IsFresh(m, e.service.ip),
           NEW k \in 1..TriedBuckets, InsertedTried(m, e, z, k)
    PROVE  /\ Base(z) /\ InTried(z) = InTried(m) \cup {m.nIdCount}
<1> USE DEF Base
<1>1. /\ m.nIdCount \notin DOMAIN m.mapInfo /\ RandomAgrees(z) /\ AddrAgrees(z)
      /\ Len(z.vRandom) = Len(m.vRandom) + 1 /\ DOMAIN z.mapInfo \subseteq 0 .. z.nIdCount - 1
  BY InsertIndexes
<1>2. InTried(z) = InTried(m) \cup {m.nIdCount} /\ m.nIdCount \notin InTried(m)
  BY <1>1 DEF InTried, Inserted, InsertedTried
<1>3. \A n \in InTried(m) : z.mapInfo[n] = m.mapInfo[n] /\ TriedBucketOf(z, n) = TriedBucketOf(m, n)
  BY DEF InTried, Inserted, TriedBucketOf
<1>4. TriedBucketOf(z, m.nIdCount) = k
  BY DEF TriedBucketOf, Inserted, InsertedTried
<1>5. /\ m.vvTried \in [1..TriedBuckets -> Seq(Nat)] /\ m.nIdCount \in Nat
      /\ \A j \in 1..TriedBuckets : m.vvTried[j] \in Seq(Nat) /\ Len(m.vvTried[j]) \in Nat
      /\ TriedBucketSize \in Nat
  <2>1. m.vvTried \in [1..TriedBuckets -> Seq(Nat)] /\ m.nIdCount \in Nat
    BY TablesFields
  <2>2. \A j \in 1..TriedBuckets : m.vvTried[j] \in Seq(Nat)
    BY <2>1
  <2> QED BY <2>1, <2>2, Sizes
<1>6. /\ Len(z.vvTried[k]) = Len(m.vvTried[k]) + 1
      /\ \A i \in 1..Len(m.vvTried[k]) : z.vvTried[k][i] = m.vvTried[k][i]
      /\ z.vvTried[k][Len(m.vvTried[k]) + 1] = m.nIdCount
  <2>1. z.vvTried[k] = Append(m.vvTried[k], m.nIdCount)
    BY <1>5 DEF InsertedTried
  <2>2. m.vvTried[k] \in Seq(Nat)
    BY <1>5
  <2> QED BY <2>1, <2>2, <1>5, AppendProperties
<1>7. \A j \in 1..TriedBuckets : j # k => z.vvTried[j] = m.vvTried[j]
  BY <1>5 DEF InsertedTried
<1>8. TriedAgrees(z)
  <2>1. ASSUME NEW n \in InTried(z)
        PROVE  /\ z.mapInfo[n].nLastSuccess > 0 /\ z.mapInfo[n].nRefCount = 0
               /\ \E i \in 1 .. Len(z.vvTried[TriedBucketOf(z, n)]) :
                    z.vvTried[TriedBucketOf(z, n)][i] = n
    <3>1. CASE n = m.nIdCount
      <4>1. Len(m.vvTried[k]) + 1 \in 1..Len(z.vvTried[k])
        BY <1>5, <1>6
      <4>2. z.vvTried[k][Len(m.vvTried[k]) + 1] = n
        BY <3>1, <1>6
      <4>3. z.mapInfo[n] = e
        BY <3>1 DEF Inserted
      <4>4. e.nLastSuccess > 0 /\ e.nRefCount = 0
        BY DEF InsertedTried
      <4> QED BY <3>1, <4>1, <4>2, <4>3, <4>4, <1>4
    <3>2. CASE n \in InTried(m)
      <4>1. PICK i \in 1..Len(m.vvTried[TriedBucketOf(m, n)]) : m.vvTried[TriedBucketOf(m, n)][i] = n
        BY <3>2 DEF TriedAgrees
      <4>2. TriedBucketOf(m, n) \in 1..TriedBuckets
        <5>1. n \in DOMAIN m.mapInfo
          BY <3>2 DEF InTried
        <5>2. m.mapInfo[n] \in CAddrInfos
          BY <5>1, TablesFields
        <5> QED BY <5>2, InfoFields DEF TriedBucketOf
      <4>3. i \in 1..Len(z.vvTried[TriedBucketOf(m, n)]) /\ z.vvTried[TriedBucketOf(m, n)][i] = n
        <5>1. CASE TriedBucketOf(m, n) = k
          <6>1. i \in 1..Len(m.vvTried[k]) /\ m.vvTried[k][i] = n
            BY <4>1, <5>1
          <6>2. i \in 1..Len(z.vvTried[k]) /\ z.vvTried[k][i] = n
            <7>1. Len(m.vvTried[k]) \in Nat
              BY <1>5
            <7>2. z.vvTried[k][i] = n
              BY <6>1, <1>6
            <7>3. i \in 1..(Len(m.vvTried[k]) + 1)
              BY <6>1, <7>1
            <7> QED BY <7>2, <7>3, <1>6
          <6> QED BY <5>1, <6>2
        <5>2. CASE TriedBucketOf(m, n) # k
          BY <4>1, <4>2, <5>2, <1>7
        <5> QED BY <5>1, <5>2
      <4> QED BY <3>2, <4>3, <1>3 DEF TriedAgrees
    <3> QED BY <3>1, <3>2, <1>2
  <2>2. ASSUME NEW j \in 1..TriedBuckets, j # k
        PROVE  /\ Len(z.vvTried[j]) <= TriedBucketSize
               /\ \A i \in 1..Len(z.vvTried[j]) :
                    /\ z.vvTried[j][i] \in InTried(z) /\ TriedBucketOf(z, z.vvTried[j][i]) = j
                    /\ \A l \in 1..Len(z.vvTried[j]) : z.vvTried[j][i] = z.vvTried[j][l] => i = l
    BY <2>2, <1>2, <1>3, <1>7 DEF TriedAgrees
  <2>3. Len(z.vvTried[k]) <= TriedBucketSize
    <3>1. Len(m.vvTried[k]) < TriedBucketSize
      BY DEF InsertedTried
    <3> QED BY <3>1, <1>5, <1>6
  <2>4. ASSUME NEW i \in 1..Len(z.vvTried[k])
        PROVE  /\ z.vvTried[k][i] \in InTried(z) /\ TriedBucketOf(z, z.vvTried[k][i]) = k
               /\ \A l \in 1..Len(z.vvTried[k]) : z.vvTried[k][i] = z.vvTried[k][l] => i = l
    <3>1. \A l \in 1..Len(z.vvTried[k]) : l \in 1..Len(m.vvTried[k]) \/ l = Len(m.vvTried[k]) + 1
      BY <1>5, <1>6
    <3>2. \A l \in 1..Len(m.vvTried[k]) : /\ m.vvTried[k][l] \in InTried(m)
                                          /\ TriedBucketOf(m, m.vvTried[k][l]) = k
                                          /\ m.vvTried[k][l] # m.nIdCount
      BY <1>2 DEF TriedAgrees
    <3>3. CASE i = Len(m.vvTried[k]) + 1
      BY <3>1, <3>2, <3>3, <1>2, <1>4, <1>6
    <3>4. CASE i \in 1..Len(m.vvTried[k])
      <4>1. z.vvTried[k][i] = m.vvTried[k][i] /\ m.vvTried[k][i] \in InTried(m)
        BY <3>2, <3>4, <1>6
      <4>2. \A l \in 1..Len(z.vvTried[k]) : z.vvTried[k][i] = z.vvTried[k][l] => i = l
        <5>1. \A l \in 1..Len(m.vvTried[k]) : m.vvTried[k][i] = m.vvTried[k][l] => i = l
          BY <3>4 DEF TriedAgrees
        <5>2. m.vvTried[k][i] # m.nIdCount
          BY <3>2, <3>4
        <5> QED BY <4>1, <5>1, <5>2, <3>1, <1>6
      <4> QED BY <4>1, <4>2, <3>2, <3>4, <1>2, <1>3
    <3> QED BY <3>1, <3>3, <3>4
  <2> QED BY <2>1, <2>2, <2>3, <2>4 DEF TriedAgrees
<1>9. NewAgrees(z)
  <2>1. DOMAIN m.mapInfo \ InTried(m) \subseteq DOMAIN z.mapInfo \ InTried(z)
    BY <1>1, <1>2 DEF Inserted
  <2> QED BY <2>1 DEF NewAgrees, Inserted
<1>10. CountsAgree(z)
  <2>1. DOMAIN z.mapInfo \ InTried(z) = DOMAIN m.mapInfo \ InTried(m)
    BY <1>1, <1>2 DEF Inserted
  <2>2. /\ IsFiniteSet(InTried(m)) /\ Cardinality(InTried(m)) = m.nTried
        /\ Len(m.vRandom) = m.nTried + m.nNew
    BY BaseFinite DEF CountsAgree
  <2>3. Cardinality(InTried(z)) = m.nTried + 1
    BY <1>2, <2>2, FS_AddElement
  <2>4. m.nTried \in Nat /\ m.nNew \in Nat
    BY TablesFields
  <2>5. z.nTried = m.nTried + 1 /\ z.nNew = m.nNew
    BY DEF InsertedTried
  <2>6. Len(z.vRandom) = z.nTried + z.nNew
    BY <1>1, <2>2, <2>4, <2>5
  <2>7. Cardinality(InTried(z)) = z.nTried
    BY <2>3, <2>5
  <2>8. Cardinality(DOMAIN z.mapInfo \ InTried(z)) = z.nNew
    BY <2>1, <2>5 DEF CountsAgree
  <2> QED BY <1>1, <2>6, <2>7, <2>8 DEF CountsAgree
<1> QED BY <1>1, <1>2, <1>8, <1>9, <1>10

\* Delete takes out an entry that is in no bucket.
LEMMA DeleteKeeps ==
    ASSUME NEW m \in Tables, Base(m), NEW n \in DOMAIN m.mapInfo \ InTried(m), BucketsOf(m, n) = {}
    PROVE  /\ Delete(m, n) \in Tables /\ Base(Delete(m, n))
           /\ DOMAIN Delete(m, n).mapInfo = DOMAIN m.mapInfo \ {n}
           /\ \A x \in DOMAIN m.mapInfo \ {n} : SameInfo(m.mapInfo[x], Delete(m, n).mapInfo[x])
           /\ InTried(Delete(m, n)) = InTried(m)
           /\ Delete(m, n).vvNew = m.vvNew
<1> USE DEF Base
<1> DEFINE ip == m.mapInfo[n].service.ip
           l == Len(m.vRandom)
           s == SwapRandom(m, m.mapInfo[n].nRandomPos, l)
           d == Delete(m, n)
<1>1. /\ m.mapInfo[n].nRandomPos \in 1..l /\ m.vRandom[m.mapInfo[n].nRandomPos] = n
      /\ l \in Nat /\ l \in 1..l
  <2>1. m.mapInfo[n].nRandomPos \in 1..l /\ m.vRandom[m.mapInfo[n].nRandomPos] = n
    BY DEF RandomAgrees
  <2>2. m.vRandom \in Seq(Nat)
    BY TablesFields
  <2> HIDE DEF l
  <2>3. l \in Nat
    BY <2>2, LenProperties DEF l
  <2> QED BY <2>1, <2>3
<1>2. s \in Tables /\ RandomAgrees(s) /\ SamePlaces(m, s) /\ s.vRandom[l] = n
  BY <1>1, SwapKeeps
<1>3. d = [s EXCEPT !.vRandom = Front(s.vRandom),
                    !.mapAddr = Restrict(s.mapAddr, DOMAIN s.mapAddr \ {ip}),
                    !.mapInfo = Restrict(s.mapInfo, DOMAIN s.mapInfo \ {n}),
                    !.nNew = s.nNew - 1]
  BY DEF Delete
<1> HIDE DEF s, d
<1>4. /\ d.vRandom = Front(s.vRandom)
      /\ d.mapAddr = [x \in DOMAIN s.mapAddr \ {ip} |-> s.mapAddr[x]]
      /\ d.mapInfo = [x \in DOMAIN s.mapInfo \ {n} |-> s.mapInfo[x]]
      /\ d.nNew = s.nNew - 1 /\ d.nTried = s.nTried /\ d.nIdCount = s.nIdCount
      /\ d.vvTried = s.vvTried /\ d.vvNew = s.vvNew
      /\ d = [mapInfo |-> d.mapInfo, mapAddr |-> d.mapAddr, vRandom |-> d.vRandom,
              nIdCount |-> d.nIdCount, nTried |-> d.nTried, vvTried |-> d.vvTried,
              nNew |-> d.nNew, vvNew |-> d.vvNew]
  BY <1>2, <1>3 DEF Tables, Restrict
<1>5. /\ DOMAIN s.mapInfo = DOMAIN m.mapInfo /\ s.mapAddr = m.mapAddr /\ s.nIdCount = m.nIdCount
      /\ Len(s.vRandom) = l /\ s.nTried = m.nTried /\ s.vvTried = m.vvTried
      /\ s.nNew = m.nNew /\ s.vvNew = m.vvNew
  BY <1>2 DEF SamePlaces
<1>6. \A x \in DOMAIN m.mapInfo : SameInfo(m.mapInfo[x], s.mapInfo[x])
  BY <1>2 DEF SamePlaces
<1>7. /\ DOMAIN d.mapInfo = DOMAIN m.mapInfo \ {n}
      /\ \A x \in DOMAIN d.mapInfo : d.mapInfo[x] = s.mapInfo[x] /\ x \in DOMAIN m.mapInfo /\ x # n
  BY <1>4, <1>5
<1>8. /\ d.vRandom \in Seq(Nat) /\ Len(d.vRandom) = l - 1
      /\ \A i \in 1..(l - 1) : d.vRandom[i] = s.vRandom[i]
  <2>1. s.vRandom \in Seq(Nat)
    BY <1>2, TablesFields
  <2>2. 1 \in Int /\ l - 1 \in Int /\ 1..(l - 1) \subseteq 1..l
    BY <1>1
  <2>3. \A i \in 1..(l - 1) : s.vRandom[i] \in Nat
    BY <2>1, <2>2, <1>5, ElementOfSeq
  <2>4. d.vRandom = SubSeq(s.vRandom, 1, l - 1)
    BY <1>4, <1>5 DEF Front
  <2>5. /\ d.vRandom \in Seq(Nat)
        /\ Len(d.vRandom) = IF 1 <= l - 1 THEN l - 1 - 1 + 1 ELSE 0
        /\ \A i \in 1 .. Len(d.vRandom) : d.vRandom[i] = s.vRandom[1 + i - 1]
    BY <2>2, <2>3, <2>4, SubSeqProperties
  <2>6. Len(d.vRandom) = l - 1
    BY <2>5, <1>1
  <2> QED BY <2>5, <2>6
<1>9. d \in Tables
  <2>1. d.mapInfo \in Infos
    <3>1. s.mapInfo \in Infos
      BY <1>2, TablesFields
    <3> QED BY <3>1, <1>4, InfosType
  <2>2. d.mapAddr \in Addrs
    <3>1. s.mapAddr \in Addrs
      BY <1>2, TablesFields
    <3> QED BY <3>1, <1>4, AddrsType
  <2>3. d.nNew \in Nat
    <3>1. IsFiniteSet(DOMAIN m.mapInfo \ InTried(m)) /\ Cardinality(DOMAIN m.mapInfo \ InTried(m)) = m.nNew
      BY BaseFinite DEF CountsAgree
    <3>2. m.nNew # 0 /\ m.nNew \in Nat
      BY <3>1, FS_EmptySet, FS_CardinalityType
    <3> QED BY <3>2, <1>4, <1>5
  <2> QED BY <2>1, <2>2, <2>3, <1>2, <1>4, <1>8, TablesFields DEF Tables
<1>10. InTried(d) = InTried(m)
  BY <1>6, <1>7 DEF InTried, SameInfo
<1>11. RandomAgrees(d)
  <2>1. \A i \in 1..l : s.vRandom[i] \in DOMAIN m.mapInfo /\ s.mapInfo[s.vRandom[i]].nRandomPos = i
    BY <1>2, <1>5 DEF RandomAgrees
  <2>2. \A x \in DOMAIN m.mapInfo : s.mapInfo[x].nRandomPos \in 1..l /\ s.vRandom[s.mapInfo[x].nRandomPos] = x
    BY <1>2, <1>5 DEF RandomAgrees
  <2>3. ASSUME NEW i \in 1..(l - 1) PROVE d.vRandom[i] \in DOMAIN d.mapInfo /\ d.mapInfo[d.vRandom[i]].nRandomPos = i
    <3>1. i \in 1..l /\ i # l
      BY <1>1
    <3>2. s.vRandom[i] # n
      BY <1>1, <1>2, <3>1, <2>1
    <3> QED BY <3>1, <3>2, <2>1, <1>7, <1>8
  <2>4. ASSUME NEW x \in DOMAIN d.mapInfo
        PROVE  d.mapInfo[x].nRandomPos \in 1..(l - 1) /\ d.vRandom[d.mapInfo[x].nRandomPos] = x
    <3>1. x \in DOMAIN m.mapInfo /\ x # n /\ d.mapInfo[x] = s.mapInfo[x]
      BY <1>7
    <3>2. s.mapInfo[x].nRandomPos # l /\ s.mapInfo[x].nRandomPos \in 1..l
      BY <3>1, <1>2, <2>2
    <3>3. s.mapInfo[x].nRandomPos \in 1..(l - 1)
      BY <1>1, <3>2
    <3> QED BY <3>1, <3>3, <2>2, <1>8
  <2> QED BY <2>3, <2>4, <1>8 DEF RandomAgrees
<1>12. AddrAgrees(d)
  <2>1. ASSUME NEW x \in DOMAIN d.mapInfo
        PROVE  /\ d.mapInfo[x].service.ip \in DOMAIN d.mapAddr
               /\ d.mapAddr[d.mapInfo[x].service.ip] = x
    <3>1. x \in DOMAIN m.mapInfo /\ x # n /\ d.mapInfo[x].service = m.mapInfo[x].service
      BY <1>6, <1>7 DEF SameInfo
    <3>2. /\ m.mapInfo[x].service.ip \in DOMAIN m.mapAddr /\ m.mapAddr[m.mapInfo[x].service.ip] = x
          /\ m.mapAddr[ip] = n
      BY <3>1 DEF AddrAgrees
    <3>3. m.mapInfo[x].service.ip # ip
      BY <3>1, <3>2
    <3> QED BY <3>1, <3>2, <3>3, <1>4, <1>5
  <2> QED BY <2>1 DEF AddrAgrees
<1>13. TriedAgrees(d)
  <2>1. \A x \in InTried(m) : /\ d.mapInfo[x].nLastSuccess = m.mapInfo[x].nLastSuccess
                              /\ d.mapInfo[x].nRefCount = m.mapInfo[x].nRefCount
                              /\ TriedBucketOf(d, x) = TriedBucketOf(m, x)
    BY <1>6, <1>7, <1>10 DEF InTried, SameInfo, TriedBucketOf
  <2>2. d.vvTried = m.vvTried
    BY <1>4, <1>5
  <2>3. TriedAgrees(m)
    OBVIOUS
  <2> HIDE DEF Base
  <2>4. ASSUME NEW x \in InTried(d)
        PROVE  /\ d.mapInfo[x].nLastSuccess > 0 /\ d.mapInfo[x].nRefCount = 0
               /\ \E i \in 1 .. Len(d.vvTried[TriedBucketOf(d, x)]) : d.vvTried[TriedBucketOf(d, x)][i] = x
    BY <2>1, <2>2, <2>3, <1>10 DEF TriedAgrees
  <2>5. ASSUME NEW k \in 1..TriedBuckets
        PROVE  /\ Len(d.vvTried[k]) <= TriedBucketSize
               /\ \A i \in 1 .. Len(d.vvTried[k]) :
                    /\ d.vvTried[k][i] \in InTried(d) /\ TriedBucketOf(d, d.vvTried[k][i]) = k
                    /\ \A j \in 1 .. Len(d.vvTried[k]) : d.vvTried[k][i] = d.vvTried[k][j] => i = j
    <3>1. /\ Len(m.vvTried[k]) <= TriedBucketSize
          /\ \A i \in 1 .. Len(m.vvTried[k]) :
               /\ m.vvTried[k][i] \in InTried(m) /\ TriedBucketOf(m, m.vvTried[k][i]) = k
               /\ \A j \in 1 .. Len(m.vvTried[k]) : m.vvTried[k][i] = m.vvTried[k][j] => i = j
      BY <2>3 DEF TriedAgrees
    <3> QED BY <3>1, <2>1, <2>2, <1>10
  <2> QED BY <2>4, <2>5 DEF TriedAgrees
<1>14. NewAgrees(d)
  <2>1. \A b \in 1..NewBuckets : n \notin m.vvNew[b]
    BY DEF BucketsOf
  <2> QED BY <2>1, <1>4, <1>5, <1>7, <1>10 DEF NewAgrees
<1>15. CountsAgree(d)
  <2> DEFINE S == DOMAIN m.mapInfo \ InTried(m)
  <2>1. DOMAIN d.mapInfo \ InTried(d) = S \ {n} /\ n \in S
    BY <1>7, <1>10
  <2>2. /\ IsFiniteSet(S) /\ Cardinality(S) = m.nNew /\ l = m.nTried + m.nNew
        /\ Cardinality(InTried(m)) = m.nTried
    BY BaseFinite DEF CountsAgree
  <2>3. Cardinality(S \ {n}) = m.nNew - 1
    <3> HIDE DEF S
    <3> QED BY <2>1, <2>2, FS_RemoveElement
  <2>4. m.nTried \in Nat /\ m.nNew \in Nat
    BY TablesFields
  <2>5. l - 1 = m.nTried + (m.nNew - 1)
    BY <2>2, <2>4
  <2>6. Len(d.vRandom) = d.nTried + d.nNew
    BY <2>5, <1>4, <1>5, <1>8
  <2>7. DOMAIN d.mapInfo \subseteq 0 .. d.nIdCount - 1
    BY <1>4, <1>5, <1>7 DEF CountsAgree
  <2>8. Cardinality(InTried(d)) = d.nTried /\ Cardinality(DOMAIN d.mapInfo \ InTried(d)) = d.nNew
    BY <2>1, <2>2, <2>3, <1>4, <1>5, <1>10
  <2> QED BY <2>6, <2>7, <2>8 DEF CountsAgree
<1>16. \A x \in DOMAIN m.mapInfo \ {n} : SameInfo(m.mapInfo[x], d.mapInfo[x])
  BY <1>6, <1>7
<1> QED BY <1>4, <1>5, <1>7, <1>9, <1>10, <1>11, <1>12, <1>13, <1>14, <1>15, <1>16 DEF d

-----------------------------------------------------------------------------
(* Add_.                                                                    *)

\* z differs from m in the new buckets and the counts of references to them.
SameButRefs(m, z) ==
    /\ DOMAIN z.mapInfo = DOMAIN m.mapInfo
    /\ \A x \in DOMAIN m.mapInfo :
         /\ z.mapInfo[x].service = m.mapInfo[x].service /\ z.mapInfo[x].source = m.mapInfo[x].source
         /\ z.mapInfo[x].nLastSuccess = m.mapInfo[x].nLastSuccess
         /\ z.mapInfo[x].fInTried = m.mapInfo[x].fInTried
         /\ z.mapInfo[x].nRandomPos = m.mapInfo[x].nRandomPos
    /\ \A x \in InTried(m) : z.mapInfo[x].nRefCount = m.mapInfo[x].nRefCount
    /\ z.mapAddr = m.mapAddr /\ z.vRandom = m.vRandom /\ z.nIdCount = m.nIdCount
    /\ z.nTried = m.nTried /\ z.vvTried = m.vvTried /\ z.nNew = m.nNew

\* Everything but the new buckets and their counts is kept.
LEMMA RefsAreFree ==
    ASSUME NEW m, NEW z, Base(m), SameButRefs(m, z)
    PROVE  /\ InTried(z) = InTried(m)
           /\ RandomAgrees(z) /\ AddrAgrees(z) /\ TriedAgrees(z) /\ CountsAgree(z)
<1> USE DEF Base
<1>1. InTried(z) = InTried(m)
  BY DEF InTried, SameButRefs
<1>2. RandomAgrees(z)
  BY DEF RandomAgrees, SameButRefs
<1>3. AddrAgrees(z)
  BY DEF AddrAgrees, SameButRefs
<1>4. TriedAgrees(z)
  <2>1. \A x \in InTried(m) : /\ z.mapInfo[x].nLastSuccess = m.mapInfo[x].nLastSuccess
                              /\ z.mapInfo[x].nRefCount = m.mapInfo[x].nRefCount
                              /\ TriedBucketOf(z, x) = TriedBucketOf(m, x)
    BY DEF SameButRefs, TriedBucketOf, InTried
  <2>2. z.vvTried = m.vvTried
    BY DEF SameButRefs
  <2> QED BY <1>1, <2>1, <2>2 DEF TriedAgrees
<1>5. CountsAgree(z)
  BY <1>1 DEF CountsAgree, SameButRefs
<1> QED BY <1>1, <1>2, <1>3, <1>4, <1>5

\* The reference counts of all entries but n.
RefsBut(m, n) ==
    \A x \in DOMAIN m.mapInfo \ InTried(m) :
      x # n => /\ m.mapInfo[x].nRefCount = Cardinality(BucketsOf(m, x))
               /\ m.mapInfo[x].nRefCount \in 1 .. PerAddress

\* A new count, and another set of entries in one bucket.
SetRef(m, n, c, b, S) == [m EXCEPT !.mapInfo[n].nRefCount = c, !.vvNew[b] = S]

\* Nothing else changes.
LEMMA SetRefIs ==
    ASSUME NEW m \in Tables, Base(m), NEW n \in DOMAIN m.mapInfo \ InTried(m), NEW c \in Nat,
           NEW b \in 1..NewBuckets, NEW S \in SUBSET Nat
    PROVE  /\ SetRef(m, n, c, b, S) \in Tables
           /\ SameButRefs(m, SetRef(m, n, c, b, S))
           /\ SetRef(m, n, c, b, S).mapInfo[n].nRefCount = c
           /\ \A x \in DOMAIN m.mapInfo \ {n} :
                SetRef(m, n, c, b, S).mapInfo[x].nRefCount = m.mapInfo[x].nRefCount
           /\ SetRef(m, n, c, b, S).vvNew[b] = S
           /\ \A a \in 1..NewBuckets : a # b => SetRef(m, n, c, b, S).vvNew[a] = m.vvNew[a]
<1> DEFINE z == SetRef(m, n, c, b, S)
           info == [m.mapInfo EXCEPT ![n] = [m.mapInfo[n] EXCEPT !.nRefCount = c]]
           new == [m.vvNew EXCEPT ![b] = S]
<1>1. m.mapInfo \in Infos /\ m.vvNew \in [1..NewBuckets -> SUBSET Nat] /\ m.mapInfo[n] \in CAddrInfos
  BY TablesFields
<1>2. z = [m EXCEPT !.mapInfo = info, !.vvNew = new]
  BY DEF SetRef, Tables
<1>3. info \in Infos
  <2>1. [m.mapInfo[n] EXCEPT !.nRefCount = c] \in CAddrInfos
    BY <1>1 DEF CAddrInfos
  <2>2. /\ info = [x \in DOMAIN m.mapInfo |-> IF x = n THEN [m.mapInfo[n] EXCEPT !.nRefCount = c] ELSE m.mapInfo[x]]
    BY <1>1, InfosType
  <2> HIDE DEF info
  <2>3. DOMAIN info = DOMAIN m.mapInfo /\ info = [x \in DOMAIN info |-> info[x]]
    BY <2>2
  <2>4. \A x \in DOMAIN info : info[x] \in CAddrInfos
    BY <2>1, <2>2, <2>3, <1>1, InfosType
  <2> QED BY <2>3, <2>4, <1>1, InfosType
<1>4. new \in [1..NewBuckets -> SUBSET Nat] /\ new[b] = S /\ \A a \in 1..NewBuckets : a # b => new[a] = m.vvNew[a]
  BY <1>1
<1>5. /\ DOMAIN info = DOMAIN m.mapInfo /\ info[n] = [m.mapInfo[n] EXCEPT !.nRefCount = c]
      /\ \A x \in DOMAIN m.mapInfo \ {n} : info[x] = m.mapInfo[x]
  BY <1>1, InfosType
<1> HIDE DEF info, new, z
<1>6. /\ z.mapInfo = info /\ z.vvNew = new /\ z.mapAddr = m.mapAddr /\ z.vRandom = m.vRandom
      /\ z.nIdCount = m.nIdCount /\ z.nTried = m.nTried /\ z.vvTried = m.vvTried /\ z.nNew = m.nNew
      /\ z \in Tables
  BY <1>2, <1>3, <1>4 DEF Tables
<1>7. /\ info[n].nRefCount = c /\ info[n].service = m.mapInfo[n].service
      /\ info[n].source = m.mapInfo[n].source /\ info[n].nLastSuccess = m.mapInfo[n].nLastSuccess
      /\ info[n].fInTried = m.mapInfo[n].fInTried /\ info[n].nRandomPos = m.mapInfo[n].nRandomPos
  BY <1>1, <1>5 DEF CAddrInfos
<1>8. SameButRefs(m, z)
  <2>1. \A x \in DOMAIN m.mapInfo :
         /\ info[x].service = m.mapInfo[x].service /\ info[x].source = m.mapInfo[x].source
         /\ info[x].nLastSuccess = m.mapInfo[x].nLastSuccess
         /\ info[x].fInTried = m.mapInfo[x].fInTried
         /\ info[x].nRandomPos = m.mapInfo[x].nRandomPos
    BY <1>5, <1>7
  <2>2. \A x \in InTried(m) : x \in DOMAIN m.mapInfo \ {n}
    BY DEF InTried
  <2>3. \A x \in InTried(m) : info[x].nRefCount = m.mapInfo[x].nRefCount
    BY <1>5, <2>2
  <2> QED BY <1>5, <1>6, <2>1, <2>3 DEF SameButRefs
<1> QED BY <1>4, <1>5, <1>6, <1>7, <1>8 DEF z

\* Bucket b loses v, and v is deleted when that was its last bucket.
LEMMA ShrinkKeeps ==
    ASSUME NEW m \in Tables, Base(m), NEW n \in DOMAIN m.mapInfo \ InTried(m), RefsBut(m, n),
           NEW b \in 1..NewBuckets, n \notin m.vvNew[b], NEW v \in m.vvNew[b]
    PROVE  /\ ShrinkNew(m, b, v) \in Tables /\ Base(ShrinkNew(m, b, v)) /\ RefsBut(ShrinkNew(m, b, v), n)
           /\ n \in DOMAIN ShrinkNew(m, b, v).mapInfo \ InTried(ShrinkNew(m, b, v))
           /\ ShrinkNew(m, b, v).mapInfo[n].nRefCount = m.mapInfo[n].nRefCount
           /\ BucketsOf(ShrinkNew(m, b, v), n) = BucketsOf(m, n)
           /\ ShrinkNew(m, b, v).vvNew[b] = m.vvNew[b] \ {v}
<1> DEFINE c == m.mapInfo[v].nRefCount - 1
           d == SetRef(m, v, c, b, m.vvNew[b] \ {v})
           z == ShrinkNew(m, b, v)
<1>1. v \in DOMAIN m.mapInfo \ InTried(m) /\ v # n /\ m.vvNew[b] \in SUBSET Nat
  BY TablesFields DEF Base, NewAgrees
<1>2. /\ m.mapInfo[v].nRefCount = Cardinality(BucketsOf(m, v))
      /\ m.mapInfo[v].nRefCount \in 1..PerAddress /\ PerAddress \in Nat /\ c \in Nat
  <2>1. /\ m.mapInfo[v].nRefCount = Cardinality(BucketsOf(m, v))
        /\ m.mapInfo[v].nRefCount \in 1..PerAddress
    BY <1>1 DEF RefsBut
  <2> QED BY <2>1, Sizes
<1>3. [m EXCEPT !.mapInfo[v].nRefCount = @ - 1, !.vvNew[b] = @ \ {v}] = d
  BY DEF SetRef
<1>4. z = IF d.mapInfo[v].nRefCount = 0 THEN Delete(d, v) ELSE d
  <2> DEFINE e == [m EXCEPT !.mapInfo[v].nRefCount = @ - 1, !.vvNew[b] = @ \ {v}]
  <2>1. z = IF e.mapInfo[v].nRefCount = 0 THEN Delete(e, v) ELSE e
    BY Zenon DEF ShrinkNew
  <2>2. e = d
    BY <1>3
  <2> HIDE DEF e, d, z
  <2> QED BY <2>1, <2>2
<1> HIDE DEF c, z
<1>5. /\ d \in Tables /\ SameButRefs(m, d) /\ d.mapInfo[v].nRefCount = c
      /\ \A x \in DOMAIN m.mapInfo \ {v} : d.mapInfo[x].nRefCount = m.mapInfo[x].nRefCount
      /\ d.vvNew[b] = m.vvNew[b] \ {v}
      /\ \A a \in 1..NewBuckets : a # b => d.vvNew[a] = m.vvNew[a]
  <2>1. m.vvNew[b] \ {v} \in SUBSET Nat
    BY <1>1
  <2> QED BY <1>1, <1>2, <2>1, SetRefIs
<1> HIDE DEF d
<1>6. InTried(d) = InTried(m) /\ DOMAIN d.mapInfo = DOMAIN m.mapInfo
  BY <1>5, RefsAreFree DEF SameButRefs
<1>7. Base(d)
  <2>1. RandomAgrees(d) /\ AddrAgrees(d) /\ TriedAgrees(d) /\ CountsAgree(d)
    BY <1>5, RefsAreFree
  <2>2. ASSUME NEW a \in 1..NewBuckets
        PROVE  d.vvNew[a] \subseteq DOMAIN m.mapInfo \ InTried(m) /\ Cardinality(d.vvNew[a]) <= NewBucketSize
    <3>1. /\ m.vvNew[a] \subseteq DOMAIN m.mapInfo \ InTried(m) /\ Cardinality(m.vvNew[a]) <= NewBucketSize
          /\ IsFiniteSet(m.vvNew[a])
      BY BaseFinite DEF Base, NewAgrees
    <3>2. d.vvNew[a] \subseteq m.vvNew[a]
      BY <1>5
    <3>3. Cardinality(d.vvNew[a]) <= Cardinality(m.vvNew[a]) /\ IsFiniteSet(d.vvNew[a])
      BY <3>1, <3>2, FS_Subset
    <3>4. Cardinality(d.vvNew[a]) \in Nat /\ Cardinality(m.vvNew[a]) \in Nat /\ NewBucketSize \in Nat
      BY <3>1, <3>3, FS_CardinalityType, Sizes
    <3> QED BY <3>1, <3>2, <3>3, <3>4
  <2>3. NewAgrees(d)
    BY <2>2, <1>6 DEF NewAgrees
  <2> QED BY <2>1, <2>3 DEF Base
<1>8. \A x : x # v => BucketsOf(d, x) = BucketsOf(m, x)
  BY <1>5 DEF BucketsOf
<1>9. BucketsOf(d, v) = BucketsOf(m, v) \ {b} /\ Cardinality(BucketsOf(d, v)) = c
  <2>1. BucketsOf(d, v) = BucketsOf(m, v) \ {b} /\ b \in BucketsOf(m, v)
    BY <1>5 DEF BucketsOf
  <2>2. IsFiniteSet(BucketsOf(m, v))
    BY BaseFinite DEF Base
  <2>3. Cardinality(BucketsOf(m, v) \ {b}) = Cardinality(BucketsOf(m, v)) - 1
    BY <2>1, <2>2, FS_RemoveElement
  <2> QED BY <2>1, <2>3, <1>2 DEF c
<1>10. \A x \in DOMAIN m.mapInfo \ InTried(m) :
         x # n /\ x # v => /\ d.mapInfo[x].nRefCount = Cardinality(BucketsOf(d, x))
                           /\ d.mapInfo[x].nRefCount \in 1 .. PerAddress
  BY <1>5, <1>8 DEF RefsBut
<1>11. CASE c # 0
  <2>1. z = d
    BY <1>4, <1>5, <1>11
  <2>2. c \in 1..PerAddress
    BY <1>2, <1>11 DEF c
  <2>3. RefsBut(d, n)
    BY <1>5, <1>6, <1>9, <1>10, <2>2 DEF RefsBut
  <2>4. d.mapInfo[n].nRefCount = m.mapInfo[n].nRefCount /\ BucketsOf(d, n) = BucketsOf(m, n)
    BY <1>1, <1>5, <1>8
  <2> QED BY <2>1, <2>3, <2>4, <1>5, <1>6, <1>7 DEF z
<1>12. CASE c = 0
  <2>1. z = Delete(d, v)
    BY <1>4, <1>5, <1>12
  <2>2. BucketsOf(d, v) = {}
    <3>1. IsFiniteSet(BucketsOf(d, v))
      BY <1>5, <1>7, BaseFinite DEF Base
    <3> QED BY <1>9, <1>12, <3>1, FS_EmptySet
  <2>3. /\ z \in Tables /\ Base(z) /\ DOMAIN z.mapInfo = DOMAIN d.mapInfo \ {v}
        /\ \A x \in DOMAIN d.mapInfo \ {v} : SameInfo(d.mapInfo[x], z.mapInfo[x])
        /\ InTried(z) = InTried(d) /\ z.vvNew = d.vvNew
    BY <2>1, <2>2, <1>1, <1>5, <1>6, <1>7, DeleteKeeps
  <2>4. \A x : BucketsOf(z, x) = BucketsOf(d, x)
    BY <2>3 DEF BucketsOf
  <2>5. \A x \in DOMAIN d.mapInfo \ {v} : z.mapInfo[x].nRefCount = d.mapInfo[x].nRefCount
    BY <2>3 DEF SameInfo
  <2>6. RefsBut(z, n)
    BY <2>3, <2>4, <2>5, <1>6, <1>10 DEF RefsBut
  <2>7. z.mapInfo[n].nRefCount = m.mapInfo[n].nRefCount /\ BucketsOf(z, n) = BucketsOf(m, n)
    BY <2>4, <2>5, <1>1, <1>5, <1>6, <1>8
  <2>8. n \in DOMAIN z.mapInfo \ InTried(z) /\ z.vvNew[b] = m.vvNew[b] \ {v}
    BY <2>3, <1>1, <1>5, <1>6
  <2> QED BY <2>3, <2>6, <2>7, <2>8 DEF z
<1> QED BY <1>11, <1>12

\* Entry n goes into bucket b, which has room: n is counted there already.
LEMMA PlaceKeeps ==
    ASSUME NEW m \in Tables, Base(m), NEW n \in DOMAIN m.mapInfo \ InTried(m), RefsBut(m, n),
           NEW b \in 1..NewBuckets, n \notin m.vvNew[b], Cardinality(m.vvNew[b]) < NewBucketSize,
           m.mapInfo[n].nRefCount = Cardinality(BucketsOf(m, n)) + 1,
           m.mapInfo[n].nRefCount <= PerAddress
    PROVE  /\ [m EXCEPT !.vvNew[b] = @ \cup {n}] \in Tables
           /\ Sound([m EXCEPT !.vvNew[b] = @ \cup {n}])
<1> DEFINE z == [m EXCEPT !.vvNew[b] = @ \cup {n}]
           c == m.mapInfo[n].nRefCount
<1>1. /\ m.vvNew \in [1..NewBuckets -> SUBSET Nat] /\ n \in Nat /\ c \in Nat
  <2>1. m.mapInfo[n] \in CAddrInfos
    BY TablesFields
  <2>2. c \in Nat
    BY <2>1, InfoFields
  <2> QED BY <2>2, TablesFields
<1>2. /\ z.mapInfo = m.mapInfo /\ z.mapAddr = m.mapAddr /\ z.vRandom = m.vRandom
      /\ z.nIdCount = m.nIdCount /\ z.nTried = m.nTried /\ z.vvTried = m.vvTried /\ z.nNew = m.nNew
      /\ z.vvNew = [m.vvNew EXCEPT ![b] = m.vvNew[b] \cup {n}]
  BY DEF Tables
<1>3. [m.vvNew EXCEPT ![b] = m.vvNew[b] \cup {n}] \in [1..NewBuckets -> SUBSET Nat]
  BY <1>1
<1>4. z \in Tables
  <2> DEFINE new == [m.vvNew EXCEPT ![b] = m.vvNew[b] \cup {n}]
  <2>1. z = [m EXCEPT !.vvNew = new]
    BY DEF Tables
  <2>2. new \in [1..NewBuckets -> SUBSET Nat]
    BY <1>3
  <2> HIDE DEF new, z
  <2> QED BY <2>1, <2>2 DEF Tables
<1> HIDE DEF z
<1>5. z.vvNew[b] = m.vvNew[b] \cup {n} /\ \A a \in 1..NewBuckets : a # b => z.vvNew[a] = m.vvNew[a]
  BY <1>1, <1>2
<1>6. SameButRefs(m, z)
  BY <1>2 DEF SameButRefs
<1>7. InTried(z) = InTried(m) /\ RandomAgrees(z) /\ AddrAgrees(z) /\ TriedAgrees(z) /\ CountsAgree(z)
  BY <1>6, RefsAreFree
<1>8. NewAgrees(z)
  <2>1. IsFiniteSet(m.vvNew[b])
    BY BaseFinite DEF Base
  <2>2. Cardinality(m.vvNew[b] \cup {n}) = Cardinality(m.vvNew[b]) + 1 /\ Cardinality(m.vvNew[b]) \in Nat
    BY <2>1, FS_AddElement, FS_CardinalityType
  <2>3. Cardinality(z.vvNew[b]) <= NewBucketSize
    BY <2>2, <1>5, Sizes
  <2>4. z.vvNew[b] \subseteq DOMAIN m.mapInfo \ InTried(m)
    BY <1>5 DEF Base, NewAgrees
  <2> QED BY <2>3, <2>4, <1>2, <1>5, <1>7 DEF Base, NewAgrees
<1>9. RefsAgree(z)
  <2>1. \A x : x # n => BucketsOf(z, x) = BucketsOf(m, x)
    BY <1>5 DEF BucketsOf
  <2>2. BucketsOf(z, n) = BucketsOf(m, n) \cup {b} /\ b \notin BucketsOf(m, n)
    BY <1>5 DEF BucketsOf
  <2>3. IsFiniteSet(BucketsOf(m, n)) /\ Cardinality(BucketsOf(m, n)) \in Nat
    BY BaseFinite DEF Base
  <2>4. Cardinality(BucketsOf(z, n)) = c
    BY <2>2, <2>3, FS_AddElement
  <2>5. c \in 1..PerAddress
    BY <2>3, <1>1, Sizes
  <2> QED BY <2>1, <2>4, <2>5, <1>2, <1>7 DEF RefsAgree, RefsBut
<1> QED BY <1>4, <1>7, <1>8, <1>9 DEF Sound, z

\* The last part of Add_ leaves sound tables, whatever it removes.
LEMMA AddToBucketKeeps ==
    ASSUME NEW m \in Tables, Base(m), NEW n \in DOMAIN m.mapInfo \ InTried(m), RefsBut(m, n),
           NEW b \in 1..NewBuckets,
           m.mapInfo[n].nRefCount = Cardinality(BucketsOf(m, n)), m.mapInfo[n].nRefCount < PerAddress,
           NEW z \in AddToBucket(m, n, b)
    PROVE  z \in Tables /\ Sound(z)
<1> DEFINE c == m.mapInfo[n].nRefCount
           r == [m EXCEPT !.mapInfo[n].nRefCount = @ + 1]
<1>1. c \in Nat /\ PerAddress \in Nat /\ m.vvNew[b] \in SUBSET Nat
  <2>1. m.mapInfo[n] \in CAddrInfos
    BY TablesFields
  <2>2. c \in Nat
    BY <2>1, InfoFields
  <2> QED BY <2>2, TablesFields, Sizes
<1>2. CASE n \in m.vvNew[b]
  <2>1. z = m
    BY <1>2 DEF AddToBucket
  <2>2. b \in BucketsOf(m, n)
    BY <1>2 DEF BucketsOf
  <2>3. c # 0
    <3>1. IsFiniteSet(BucketsOf(m, n))
      BY BaseFinite DEF Base
    <3> QED BY <2>2, <3>1, FS_EmptySet
  <2>4. c \in 1..PerAddress
    BY <2>3, <1>1
  <2>5. RefsAgree(m)
    BY <2>4 DEF RefsAgree, RefsBut
  <2> QED BY <2>1, <2>5 DEF Sound, Base
<1>3. CASE n \notin m.vvNew[b]
  <2>1. r = SetRef(m, n, c + 1, b, m.vvNew[b])
    <3>1. [m.vvNew EXCEPT ![b] = m.vvNew[b]] = m.vvNew
      BY TablesFields
    <3> QED BY <3>1 DEF SetRef, Tables
  <2> HIDE DEF r
  <2>2. /\ r \in Tables /\ SameButRefs(m, r) /\ r.mapInfo[n].nRefCount = c + 1
        /\ \A x \in DOMAIN m.mapInfo \ {n} : r.mapInfo[x].nRefCount = m.mapInfo[x].nRefCount
        /\ \A a \in 1..NewBuckets : r.vvNew[a] = m.vvNew[a]
    <3>1. c + 1 \in Nat
      BY <1>1
    <3> HIDE DEF c
    <3> QED BY <1>1, <2>1, <3>1, SetRefIs
  <2>3. /\ InTried(r) = InTried(m) /\ DOMAIN r.mapInfo = DOMAIN m.mapInfo
        /\ RandomAgrees(r) /\ AddrAgrees(r) /\ TriedAgrees(r) /\ CountsAgree(r)
    BY <2>2, RefsAreFree DEF SameButRefs
  <2>4. Base(r)
    <3>1. NewAgrees(r)
      BY <2>2, <2>3 DEF Base, NewAgrees
    <3> QED BY <2>3, <3>1 DEF Base
  <2>5. \A x : BucketsOf(r, x) = BucketsOf(m, x)
    BY <2>2 DEF BucketsOf
  <2>6. RefsBut(r, n)
    BY <2>2, <2>3, <2>5 DEF RefsBut
  <2>7. /\ n \in DOMAIN r.mapInfo \ InTried(r) /\ n \notin r.vvNew[b]
        /\ r.mapInfo[n].nRefCount = Cardinality(BucketsOf(r, n)) + 1 /\ r.mapInfo[n].nRefCount <= PerAddress
    BY <1>1, <1>3, <2>2, <2>3, <2>5
  <2>8. IsFiniteSet(r.vvNew[b]) /\ Cardinality(r.vvNew[b]) \in Nat /\ Cardinality(r.vvNew[b]) <= NewBucketSize
        /\ NewBucketSize \in Nat
    BY <2>2, <2>4, BaseFinite, FS_CardinalityType, Sizes DEF Base, NewAgrees
  <2>9. CASE Cardinality(r.vvNew[b]) = NewBucketSize
    <3>1. PICK v \in r.vvNew[b] : z = [ShrinkNew(r, b, v) EXCEPT !.vvNew[b] = @ \cup {n}]
      BY <1>3, <2>9 DEF AddToBucket, r
    <3> DEFINE x == ShrinkNew(r, b, v)
    <3>2. /\ x \in Tables /\ Base(x) /\ RefsBut(x, n) /\ n \in DOMAIN x.mapInfo \ InTried(x)
          /\ x.mapInfo[n].nRefCount = r.mapInfo[n].nRefCount
          /\ BucketsOf(x, n) = BucketsOf(r, n) /\ x.vvNew[b] = r.vvNew[b] \ {v}
      BY <2>2, <2>4, <2>6, <2>7, ShrinkKeeps
    <3> HIDE DEF x
    <3>3. Cardinality(x.vvNew[b]) < NewBucketSize
      <4>1. Cardinality(r.vvNew[b] \ {v}) = Cardinality(r.vvNew[b]) - 1
        BY <2>8, FS_RemoveElement
      <4> QED BY <4>1, <3>2, <2>8, <2>9
    <3>4. /\ n \notin x.vvNew[b] /\ x.mapInfo[n].nRefCount = Cardinality(BucketsOf(x, n)) + 1
          /\ x.mapInfo[n].nRefCount <= PerAddress
      BY <3>2, <2>7
    <3>5. z = [x EXCEPT !.vvNew[b] = @ \cup {n}]
      BY <3>1 DEF x
    <3> QED BY <3>2, <3>3, <3>4, <3>5, PlaceKeeps
  <2>10. CASE Cardinality(r.vvNew[b]) # NewBucketSize
    <3>1. z = [r EXCEPT !.vvNew[b] = @ \cup {n}]
      BY <1>3, <2>10 DEF AddToBucket, r
    <3>2. Cardinality(r.vvNew[b]) < NewBucketSize
      BY <2>8, <2>10
    <3> QED BY <3>1, <3>2, <2>2, <2>4, <2>6, <2>7, PlaceKeeps
  <2> QED BY <2>9, <2>10
<1> QED BY <1>2, <1>3

\* Add_ of an address that is known.
LEMMA AddKnownKeeps ==
    ASSUME NEW m \in Tables, Sound(m), NEW n \in DOMAIN m.mapInfo, ~m.mapInfo[n].fInTried,
           m.mapInfo[n].nRefCount # PerAddress, NEW src \in Source,
           NEW z \in AddToBucket(m, n, GetNewBucket[<<m.mapInfo[n].service.ip, src>>])
    PROVE  z \in Tables /\ Sound(z)
<1> DEFINE b == GetNewBucket[<<m.mapInfo[n].service.ip, src>>]
<1>1. n \in DOMAIN m.mapInfo \ InTried(m) /\ m.mapInfo[n] \in CAddrInfos
  BY TablesFields DEF InTried
<1>2. b \in 1..NewBuckets
  BY <1>1, InfoFields
<1>3. /\ m.mapInfo[n].nRefCount = Cardinality(BucketsOf(m, n))
      /\ m.mapInfo[n].nRefCount \in 1..PerAddress
  BY <1>1 DEF Sound, RefsAgree
<1>4. m.mapInfo[n].nRefCount < PerAddress
  BY <1>3, Sizes
<1>5. Base(m) /\ RefsBut(m, n)
  BY DEF Sound, Base, RefsAgree, RefsBut
<1>6. z \in AddToBucket(m, n, b)
  OBVIOUS
<1> HIDE DEF b
<1> QED BY <1>1, <1>2, <1>3, <1>4, <1>5, <1>6, AddToBucketKeeps

\* No entry has an address that Find does not find.
LEMMA FindFresh ==
    ASSUME NEW m \in Tables, AddrAgrees(m), NEW s, Find(m, s) = {}
    PROVE  IsFresh(m, s.ip)
BY DEF AddrAgrees, Find, IsFresh

\* Add_ of an address that is not.
LEMMA AddNewKeeps ==
    ASSUME NEW m \in Tables, Sound(m), NEW s \in Service, NEW src \in Source, Find(m, s) = {},
           NEW z \in AddToBucket([Create(m, s, src) EXCEPT !.nNew = @ + 1], m.nIdCount,
                                 GetNewBucket[<<s.ip, src>>])
    PROVE  z \in Tables /\ Sound(z)
<1> DEFINE c == Create(m, s, src)
           d == [c EXCEPT !.nNew = @ + 1]
           e == CAddrInfo(s, src, Len(m.vRandom) + 1)
           n == m.nIdCount
           b == GetNewBucket[<<s.ip, src>>]
<1>1. n \in Nat /\ n \notin DOMAIN m.mapInfo /\ m.nNew \in Nat
  <2>1. n \in Nat /\ m.nNew \in Nat
    BY TablesFields
  <2>2. DOMAIN m.mapInfo \subseteq 0 .. n - 1
    BY DEF Sound, CountsAgree
  <2> QED BY <2>1, <2>2
<1>2. /\ c \in Tables /\ e \in CAddrInfos /\ Inserted(m, e, c)
      /\ c.nTried = m.nTried /\ c.vvTried = m.vvTried /\ c.nNew = m.nNew
  BY <1>1, CreateInserts
<1>3. e.service.ip = s.ip /\ ~e.fInTried /\ e.nRefCount = 0
  BY DEF CAddrInfo
<1>4. b \in 1..NewBuckets
  BY AddrAssumption DEF Ip
<1>5. z \in AddToBucket(d, n, b)
  OBVIOUS
<1> HIDE DEF c, e, b
<1>6. /\ d \in Tables /\ d.mapInfo = c.mapInfo /\ d.mapAddr = c.mapAddr /\ d.vRandom = c.vRandom
      /\ d.nIdCount = c.nIdCount /\ d.nTried = c.nTried /\ d.vvTried = c.vvTried
      /\ d.nNew = c.nNew + 1 /\ d.vvNew = c.vvNew
  <2> DEFINE k == c.nNew + 1
  <2>1. k \in Nat
    BY <1>1, <1>2
  <2>2. d = [c EXCEPT !.nNew = k]
    OBVIOUS
  <2>3. c \in Tables
    BY <1>2
  <2> HIDE DEF k, d
  <2>4. /\ d \in Tables /\ d.mapInfo = c.mapInfo /\ d.mapAddr = c.mapAddr /\ d.vRandom = c.vRandom
        /\ d.nIdCount = c.nIdCount /\ d.nTried = c.nTried /\ d.vvTried = c.vvTried
        /\ d.nNew = k /\ d.vvNew = c.vvNew
    BY <2>1, <2>2, <2>3 DEF Tables
  <2> QED BY <2>4 DEF k
<1> HIDE DEF d
<1>7. Inserted(m, e, d)
  BY <1>2, <1>6 DEF Inserted
<1>8. InsertedNew(m, e, d)
  BY <1>2, <1>3, <1>6 DEF InsertedNew
<1>9. IsFresh(m, e.service.ip) /\ Base(m)
  BY <1>3, FindFresh DEF Sound, Base
<1>10. /\ Base(d) /\ InTried(d) = InTried(m)
       /\ \A x : BucketsOf(d, x) = BucketsOf(m, x)
       /\ BucketsOf(d, n) = {}
  BY <1>7, <1>8, <1>9, InsertNew
<1>11. n \in DOMAIN d.mapInfo \ InTried(d) /\ d.mapInfo[n] = e
  BY <1>1, <1>7, <1>10 DEF Inserted, InTried
<1>12. RefsBut(d, n)
  <2>1. ASSUME NEW x \in DOMAIN d.mapInfo \ InTried(d), x # n
        PROVE  /\ d.mapInfo[x].nRefCount = Cardinality(BucketsOf(d, x))
               /\ d.mapInfo[x].nRefCount \in 1 .. PerAddress
    <3>1. x \in DOMAIN m.mapInfo \ InTried(m) /\ d.mapInfo[x] = m.mapInfo[x]
      BY <2>1, <1>7, <1>10 DEF Inserted
    <3> QED BY <3>1, <1>10 DEF Sound, RefsAgree
  <2> QED BY <2>1 DEF RefsBut
<1>13. d.mapInfo[n].nRefCount = Cardinality(BucketsOf(d, n)) /\ d.mapInfo[n].nRefCount < PerAddress
  <2>1. Cardinality(BucketsOf(d, n)) = 0
    BY <1>10, FS_EmptySet
  <2> QED BY <2>1, <1>3, <1>11, Sizes
<1> HIDE DEF n
<1> QED BY <1>4, <1>5, <1>6, <1>10, <1>11, <1>12, <1>13, AddToBucketKeeps

-----------------------------------------------------------------------------
(* Good_.                                                                   *)

\* A map of entries with another entry under n.
LEMMA InfoUpdate ==
    ASSUME NEW f \in Infos, NEW n \in DOMAIN f, NEW e \in CAddrInfos
    PROVE  /\ [f EXCEPT ![n] = e] \in Infos /\ DOMAIN [f EXCEPT ![n] = e] = DOMAIN f
           /\ [f EXCEPT ![n] = e][n] = e
           /\ \A x \in DOMAIN f \ {n} : [f EXCEPT ![n] = e][x] = f[x]
<1> DEFINE g == [f EXCEPT ![n] = e]
<1>1. g = [x \in DOMAIN f |-> IF x = n THEN e ELSE f[x]]
  BY InfosType
<1>2. DOMAIN g = DOMAIN f /\ g[n] = e /\ \A x \in DOMAIN f \ {n} : g[x] = f[x]
  BY <1>1
<1>3. g = [x \in DOMAIN g |-> g[x]]
  BY <1>1
<1> HIDE DEF g
<1>4. g \in Infos
  BY <1>2, <1>3, InfosType
<1> QED BY <1>2, <1>4 DEF g

\* Good_ sets nLastSuccess.
LEMMA SuccessKeeps ==
    ASSUME NEW m \in Tables, Sound(m), NEW n \in DOMAIN m.mapInfo, NEW t \in Nat, t # 0
    PROVE  /\ [m EXCEPT !.mapInfo[n].nLastSuccess = t] \in Tables
           /\ Sound([m EXCEPT !.mapInfo[n].nLastSuccess = t])
           /\ DOMAIN [m EXCEPT !.mapInfo[n].nLastSuccess = t].mapInfo = DOMAIN m.mapInfo
           /\ [m EXCEPT !.mapInfo[n].nLastSuccess = t].mapInfo[n].nLastSuccess = t
           /\ InTried([m EXCEPT !.mapInfo[n].nLastSuccess = t]) = InTried(m)
           /\ \A x : BucketsOf([m EXCEPT !.mapInfo[n].nLastSuccess = t], x) = BucketsOf(m, x)
<1> DEFINE z == [m EXCEPT !.mapInfo[n].nLastSuccess = t]
           e == [m.mapInfo[n] EXCEPT !.nLastSuccess = t]
           info == [m.mapInfo EXCEPT ![n] = e]
<1>1. m.mapInfo \in Infos /\ m.mapInfo[n] \in CAddrInfos
  BY TablesFields
<1>2. z = [m EXCEPT !.mapInfo = info]
  BY DEF Tables
<1>3. /\ e \in CAddrInfos /\ e.service = m.mapInfo[n].service /\ e.source = m.mapInfo[n].source
      /\ e.nRefCount = m.mapInfo[n].nRefCount /\ e.fInTried = m.mapInfo[n].fInTried
      /\ e.nRandomPos = m.mapInfo[n].nRandomPos /\ e.nLastSuccess = t
  BY <1>1 DEF CAddrInfos
<1> HIDE DEF e
<1>4. /\ info \in Infos /\ DOMAIN info = DOMAIN m.mapInfo /\ info[n] = e
      /\ \A x \in DOMAIN m.mapInfo \ {n} : info[x] = m.mapInfo[x]
  BY <1>1, <1>3, InfoUpdate
<1> HIDE DEF info, z
<1>5. /\ z \in Tables /\ z.mapInfo = info /\ z.mapAddr = m.mapAddr /\ z.vRandom = m.vRandom
      /\ z.nIdCount = m.nIdCount /\ z.nTried = m.nTried /\ z.vvTried = m.vvTried
      /\ z.nNew = m.nNew /\ z.vvNew = m.vvNew
  BY <1>2, <1>4 DEF Tables
<1>6. \A x \in DOMAIN m.mapInfo : /\ info[x].service = m.mapInfo[x].service
                                  /\ info[x].nRefCount = m.mapInfo[x].nRefCount
                                  /\ info[x].fInTried = m.mapInfo[x].fInTried
                                  /\ info[x].nRandomPos = m.mapInfo[x].nRandomPos
  BY <1>3, <1>4
<1>7. InTried(z) = InTried(m)
  BY <1>4, <1>5, <1>6 DEF InTried
<1>8. \A x : BucketsOf(z, x) = BucketsOf(m, x)
  BY <1>5 DEF BucketsOf
<1>9. RandomAgrees(z) /\ AddrAgrees(z)
  BY <1>4, <1>5, <1>6 DEF RandomAgrees, AddrAgrees, Sound
<1>10. TriedAgrees(z)
  <2>1. \A x \in InTried(m) : /\ z.mapInfo[x].nLastSuccess > 0
                              /\ z.mapInfo[x].nRefCount = 0
                              /\ TriedBucketOf(z, x) = TriedBucketOf(m, x)
    <3>1. ASSUME NEW x \in InTried(m)
          PROVE  /\ z.mapInfo[x].nLastSuccess > 0
                 /\ z.mapInfo[x].nRefCount = 0
                 /\ TriedBucketOf(z, x) = TriedBucketOf(m, x)
      <4>1. x \in DOMAIN m.mapInfo
        BY DEF InTried
      <4>2. m.mapInfo[x].nLastSuccess > 0 /\ m.mapInfo[x].nRefCount = 0
        BY DEF Sound, TriedAgrees
      <4>3. z.mapInfo[x].nRefCount = 0 /\ TriedBucketOf(z, x) = TriedBucketOf(m, x)
        BY <4>1, <4>2, <1>5, <1>6 DEF TriedBucketOf
      <4>4. z.mapInfo[x].nLastSuccess > 0
        BY <4>1, <4>2, <1>3, <1>4, <1>5
      <4> QED BY <4>3, <4>4
    <3> QED BY <3>1
  <2> QED BY <2>1, <1>5, <1>7 DEF Sound, TriedAgrees
<1>11. NewAgrees(z) /\ CountsAgree(z)
  BY <1>4, <1>5, <1>7 DEF Sound, NewAgrees, CountsAgree
<1>12. RefsAgree(z)
  BY <1>4, <1>5, <1>6, <1>7, <1>8 DEF Sound, RefsAgree
<1>13. z.mapInfo[n].nLastSuccess = t /\ DOMAIN z.mapInfo = DOMAIN m.mapInfo
  BY <1>3, <1>4, <1>5
<1> QED BY <1>5, <1>7, <1>8, <1>9, <1>10, <1>11, <1>12, <1>13 DEF Sound, z

\* A sequence that holds the entries of T that belong to tried bucket k, each once.
IsBucket(m, T, k, w) ==
    /\ \A i \in 1..Len(w) : w[i] \in T /\ TriedBucketOf(m, w[i]) = k
    /\ \A i, j \in 1..Len(w) : w[i] = w[j] => i = j
    /\ \A x \in T : TriedBucketOf(m, x) = k => \E i \in 1..Len(w) : w[i] = x

\* TriedAgrees says this of each bucket.
TriedEntries(m) == \A n \in InTried(m) : m.mapInfo[n].nLastSuccess > 0 /\ m.mapInfo[n].nRefCount = 0

\* TriedAgrees is this, bucket by bucket.
LEMMA TriedIs ==
    ASSUME NEW m \in Tables
    PROVE  TriedAgrees(m) <=> /\ TriedEntries(m)
                              /\ \A k \in 1..TriedBuckets : /\ Len(m.vvTried[k]) <= TriedBucketSize
                                                            /\ IsBucket(m, InTried(m), k, m.vvTried[k])
<1>1. \A n \in InTried(m) : TriedBucketOf(m, n) \in 1..TriedBuckets
  <2>1. ASSUME NEW n \in InTried(m) PROVE TriedBucketOf(m, n) \in 1..TriedBuckets
    <3>1. m.mapInfo[n] \in CAddrInfos
      BY TablesFields DEF InTried
    <3> QED BY <3>1, InfoFields DEF TriedBucketOf
  <2> QED BY <2>1
<1>2. ASSUME TriedAgrees(m)
      PROVE  /\ TriedEntries(m)
             /\ \A k \in 1..TriedBuckets : /\ Len(m.vvTried[k]) <= TriedBucketSize
                                           /\ IsBucket(m, InTried(m), k, m.vvTried[k])
  <2>1. TriedEntries(m)
    BY <1>2 DEF TriedAgrees, TriedEntries
  <2>2. ASSUME NEW k \in 1..TriedBuckets
        PROVE  Len(m.vvTried[k]) <= TriedBucketSize /\ IsBucket(m, InTried(m), k, m.vvTried[k])
    BY <1>2 DEF TriedAgrees, IsBucket
  <2> QED BY <2>1, <2>2
<1>3. ASSUME TriedEntries(m),
             \A k \in 1..TriedBuckets : /\ Len(m.vvTried[k]) <= TriedBucketSize
                                        /\ IsBucket(m, InTried(m), k, m.vvTried[k])
      PROVE  TriedAgrees(m)
  <2>1. ASSUME NEW n \in InTried(m)
        PROVE  /\ m.mapInfo[n].nLastSuccess > 0 /\ m.mapInfo[n].nRefCount = 0
               /\ \E i \in 1 .. Len(m.vvTried[TriedBucketOf(m, n)]) :
                    m.vvTried[TriedBucketOf(m, n)][i] = n
    BY <1>1, <1>3 DEF TriedEntries, IsBucket
  <2>2. ASSUME NEW k \in 1..TriedBuckets
        PROVE  /\ Len(m.vvTried[k]) <= TriedBucketSize
               /\ \A i \in 1 .. Len(m.vvTried[k]) :
                    /\ m.vvTried[k][i] \in InTried(m) /\ TriedBucketOf(m, m.vvTried[k][i]) = k
                    /\ \A j \in 1 .. Len(m.vvTried[k]) : m.vvTried[k][i] = m.vvTried[k][j] => i = j
    BY <1>3 DEF IsBucket
  <2> QED BY <2>1, <2>2 DEF TriedAgrees
<1> QED BY <1>2, <1>3

\* A swap leaves a bucket a bucket.
Swap(v, p, i) == [v EXCEPT ![p] = v[i], ![i] = v[p]]

\* It does.
LEMMA BucketSwap ==
    ASSUME NEW m, NEW T \in SUBSET Nat, NEW k, NEW v \in Seq(Nat), IsBucket(m, T, k, v),
           NEW p \in 1..Len(v), NEW i \in 1..Len(v)
    PROVE  /\ Swap(v, p, i) \in Seq(Nat) /\ Len(Swap(v, p, i)) = Len(v)
           /\ IsBucket(m, T, k, Swap(v, p, i))
<1> DEFINE w == Swap(v, p, i)
           l == Len(v)
<1>1. l \in Nat /\ v \in [1..l -> Nat]
  BY LenProperties
<1> HIDE DEF l
<1>2. p \in 1..l /\ i \in 1..l
  BY DEF l
<1>3. w = [j \in 1..l |-> IF j = i THEN v[p] ELSE IF j = p THEN v[i] ELSE v[j]]
  BY <1>1, <1>2 DEF Swap
<1> HIDE DEF w
<1>4. \A j \in 1..l : w[j] = IF j = i THEN v[p] ELSE IF j = p THEN v[i] ELSE v[j]
  BY <1>3
<1>5. w \in Seq(Nat) /\ Len(w) = l
  <2>1. w \in [1..l -> Nat]
    BY <1>1, <1>2, <1>3
  <2> QED BY <1>1, <2>1, FunIsSeq
<1>6. \A j \in 1..l : v[j] \in T /\ TriedBucketOf(m, v[j]) = k
  BY DEF IsBucket, l
<1>7. \A j, h \in 1..l : v[j] = v[h] => j = h
  BY DEF IsBucket, l
<1>8. \A x \in T : TriedBucketOf(m, x) = k => \E j \in 1..l : v[j] = x
  BY DEF IsBucket, l
<1>9. \A j \in 1..l : w[j] \in T /\ TriedBucketOf(m, w[j]) = k
  BY <1>2, <1>4, <1>6
<1>10. \A j, h \in 1..l : w[j] = w[h] => j = h
  BY <1>2, <1>4, <1>7
<1>11. ASSUME NEW x \in T, TriedBucketOf(m, x) = k PROVE \E j \in 1..l : w[j] = x
  <2>1. PICK j \in 1..l : v[j] = x
    BY <1>8, <1>11
  <2>2. CASE j = i
    <3>1. w[p] = x
      BY <2>1, <2>2, <1>2, <1>4
    <3> QED BY <3>1, <1>2
  <2>3. CASE j = p /\ j # i
    <3>1. w[i] = x
      BY <2>1, <2>3, <1>2, <1>4
    <3> QED BY <3>1, <1>2
  <2>4. CASE j # p /\ j # i
    BY <2>1, <2>4, <1>4
  <2> QED BY <2>2, <2>3, <2>4
<1>12. IsBucket(m, T, k, w)
  BY <1>5, <1>9, <1>10, <1>11 DEF IsBucket
<1> QED BY <1>5, <1>12 DEF l, w

\* An entry is appended to a bucket.
LEMMA BucketAppend ==
    ASSUME NEW m, NEW T \in SUBSET Nat, NEW k, NEW v \in Seq(Nat), IsBucket(m, T, k, v),
           NEW n \in Nat, n \notin T, TriedBucketOf(m, n) = k
    PROVE  /\ Append(v, n) \in Seq(Nat) /\ Len(Append(v, n)) = Len(v) + 1
           /\ IsBucket(m, T \cup {n}, k, Append(v, n))
<1> DEFINE w == Append(v, n)
           l == Len(v)
<1>1. l \in Nat
  BY LenProperties
<1>2. w \in Seq(Nat) /\ Len(w) = l + 1 /\ (\A j \in 1..l : w[j] = v[j]) /\ w[l + 1] = n
  BY AppendProperties
<1>3. /\ \A j \in 1..l : v[j] \in T /\ TriedBucketOf(m, v[j]) = k
      /\ \A j, h \in 1..l : v[j] = v[h] => j = h
      /\ \A x \in T : TriedBucketOf(m, x) = k => \E j \in 1..l : v[j] = x
  BY DEF IsBucket
<1> HIDE DEF w, l
<1>4. \A j \in 1..(l + 1) : j \in 1..l \/ j = l + 1
  BY <1>1
<1>5. \A j \in 1..l : j \in 1..(l + 1) /\ j # l + 1
  BY <1>1
<1>6. l + 1 \in 1..(l + 1)
  BY <1>1
<1>7. \A j \in 1..(l + 1) : w[j] \in T \cup {n} /\ TriedBucketOf(m, w[j]) = k
  BY <1>2, <1>3, <1>4
<1>8. \A j, h \in 1..(l + 1) : w[j] = w[h] => j = h
  BY <1>2, <1>3, <1>4
<1>9. \A x \in T \cup {n} : TriedBucketOf(m, x) = k => \E j \in 1..(l + 1) : w[j] = x
  BY <1>2, <1>3, <1>5, <1>6
<1>10. IsBucket(m, T \cup {n}, k, w)
  BY <1>2, <1>7, <1>8, <1>9 DEF IsBucket
<1> QED BY <1>2, <1>10 DEF l, w

\* An entry of a bucket is replaced.
Replace(v, p, n) == [v EXCEPT ![p] = n]
Replaceable(m, T, k, v, n, p) ==
    /\ T \in SUBSET Nat /\ v \in Seq(Nat) /\ IsBucket(m, T, k, v)
    /\ n \in Nat /\ n \notin T /\ TriedBucketOf(m, n) = k /\ p \in 1..Len(v)
Replaced(m, T, k, v, n, p) ==
    /\ Replace(v, p, n) \in Seq(Nat) /\ Len(Replace(v, p, n)) = Len(v)
    /\ IsBucket(m, (T \ {v[p]}) \cup {n}, k, Replace(v, p, n))

\* The rest stays in its place.
LEMMA BucketReplace ==
    ASSUME NEW m, NEW T, NEW k, NEW v, NEW n, NEW p, Replaceable(m, T, k, v, n, p)
    PROVE  Replaced(m, T, k, v, n, p)
<1>0. /\ T \in SUBSET Nat /\ v \in Seq(Nat) /\ IsBucket(m, T, k, v)
      /\ n \in Nat /\ n \notin T /\ TriedBucketOf(m, n) = k /\ p \in 1..Len(v)
  BY DEF Replaceable
<1> DEFINE w == Replace(v, p, n)
           l == Len(v)
<1>1. l \in Nat /\ v \in [1..l -> Nat]
  BY <1>0, LenProperties
<1>2. /\ \A j \in 1..l : v[j] \in T /\ TriedBucketOf(m, v[j]) = k
      /\ \A j, h \in 1..l : v[j] = v[h] => j = h
      /\ \A x \in T : TriedBucketOf(m, x) = k => \E j \in 1..l : v[j] = x
  BY <1>0 DEF IsBucket
<1> HIDE DEF l
<1>3. p \in 1..l
  BY <1>0 DEF l
<1>4. w = [j \in 1..l |-> IF j = p THEN n ELSE v[j]]
  BY <1>1, <1>3 DEF Replace
<1> HIDE DEF w
<1>5. \A j \in 1..l : w[j] = IF j = p THEN n ELSE v[j]
  BY <1>4
<1>6. w \in Seq(Nat) /\ Len(w) = l
  <2>1. w \in [1..l -> Nat]
    BY <1>0, <1>1, <1>3, <1>4
  <2> QED BY <1>1, <2>1, FunIsSeq
<1>7. \A j \in 1..l : w[j] \in (T \ {v[p]}) \cup {n} /\ TriedBucketOf(m, w[j]) = k
  BY <1>0, <1>2, <1>3, <1>5
<1>8. \A j, h \in 1..l : w[j] = w[h] => j = h
  BY <1>0, <1>2, <1>3, <1>5
<1>9. \A x \in (T \ {v[p]}) \cup {n} : TriedBucketOf(m, x) = k => \E j \in 1..l : w[j] = x
  <2>1. ASSUME NEW x \in T \ {v[p]}, TriedBucketOf(m, x) = k PROVE \E j \in 1..l : w[j] = x
    <3>1. PICK j \in 1..l : v[j] = x
      BY <1>2, <2>1
    <3>2. w[j] = x
      BY <3>1, <1>5
    <3> QED BY <3>2
  <2>2. w[p] = n
    BY <1>3, <1>5
  <2> QED BY <2>1, <2>2, <1>3
<1>10. IsBucket(m, (T \ {v[p]}) \cup {n}, k, w)
  BY <1>6, <1>7, <1>8, <1>9 DEF IsBucket
<1> QED BY <1>6, <1>10 DEF Replaced, l, w

\* z is m with entry n moved from its new buckets to tried bucket k, now w, and the
\* entries O of that bucket, at most one, moved to new bucket a.
PromotedInfo(m, n, O, z) ==
    /\ DOMAIN z.mapInfo = DOMAIN m.mapInfo
    /\ \A x \in DOMAIN m.mapInfo : /\ z.mapInfo[x].service = m.mapInfo[x].service
                                   /\ z.mapInfo[x].nRandomPos = m.mapInfo[x].nRandomPos
    /\ \A x \in DOMAIN m.mapInfo : x \notin O \cup {n} => z.mapInfo[x] = m.mapInfo[x]
    /\ z.mapInfo[n].fInTried /\ z.mapInfo[n].nRefCount = 0 /\ z.mapInfo[n].nLastSuccess > 0
    /\ \A x \in O : ~z.mapInfo[x].fInTried /\ z.mapInfo[x].nRefCount = 1
    /\ z.mapAddr = m.mapAddr /\ z.vRandom = m.vRandom /\ z.nIdCount = m.nIdCount
PromotedTables(m, n, O, a, k, w, z) ==
    /\ z.vvTried[k] = w /\ \A j \in 1..TriedBuckets : j # k => z.vvTried[j] = m.vvTried[j]
    /\ \A b \in 1..NewBuckets : z.vvNew[b] = (m.vvNew[b] \ {n}) \cup (IF b = a THEN O ELSE {})
PromotedCounts(m, n, O, a, z) ==
    \/ O = {} /\ z.nTried = m.nTried + 1 /\ z.nNew = m.nNew - 1
    \/ /\ \E o \in InTried(m) : O = {o}
       /\ z.nTried = m.nTried /\ z.nNew = m.nNew
       /\ Cardinality(m.vvNew[a] \ {n}) < NewBucketSize
PromotedBucket(m, n, O, k, w) ==
    /\ IsBucket(m, (InTried(m) \ O) \cup {n}, k, w) /\ Len(w) <= TriedBucketSize
    /\ \A x \in O \cup {n} : TriedBucketOf(m, x) = k

\* An entry that becomes tried, with or without a victim that goes back, leaves sound tables.
LEMMA PromoteKeeps ==
    ASSUME NEW m \in Tables, Sound(m), NEW n \in DOMAIN m.mapInfo \ InTried(m),
           NEW O, NEW a \in 1..NewBuckets, NEW k \in 1..TriedBuckets, NEW w, NEW z \in Tables,
           PromotedInfo(m, n, O, z), PromotedTables(m, n, O, a, k, w, z),
           PromotedCounts(m, n, O, a, z), PromotedBucket(m, n, O, k, w)
    PROVE  Sound(z)
<1> DEFINE T == (InTried(m) \ O) \cup {n}
<1>1. /\ DOMAIN z.mapInfo = DOMAIN m.mapInfo /\ z.mapAddr = m.mapAddr
      /\ z.vRandom = m.vRandom /\ z.nIdCount = m.nIdCount
      /\ \A x \in DOMAIN m.mapInfo : /\ z.mapInfo[x].service = m.mapInfo[x].service
                                     /\ z.mapInfo[x].nRandomPos = m.mapInfo[x].nRandomPos
      /\ \A x \in DOMAIN m.mapInfo : x \notin O \cup {n} => z.mapInfo[x] = m.mapInfo[x]
      /\ z.mapInfo[n].fInTried /\ z.mapInfo[n].nRefCount = 0 /\ z.mapInfo[n].nLastSuccess > 0
      /\ \A x \in O : ~z.mapInfo[x].fInTried /\ z.mapInfo[x].nRefCount = 1
  BY DEF PromotedInfo
<1>2. O \subseteq InTried(m) /\ InTried(m) \subseteq DOMAIN m.mapInfo
  BY DEF PromotedCounts, InTried
<1>3. InTried(z) = T
  <2>1. ASSUME NEW x \in DOMAIN m.mapInfo PROVE z.mapInfo[x].fInTried <=> x \in T
    <3>1. CASE x = n
      BY <3>1, <1>1
    <3>2. CASE x # n /\ x \in O
      BY <3>2, <1>1
    <3>3. CASE x # n /\ x \notin O
      BY <3>3, <1>1 DEF InTried
    <3> QED BY <3>1, <3>2, <3>3
  <2>2. T \subseteq DOMAIN m.mapInfo
    BY <1>2
  <2> HIDE DEF T
  <2> QED BY <2>1, <2>2, <1>1 DEF InTried
<1>4. RandomAgrees(z) /\ AddrAgrees(z)
  <2>1. RandomAgrees(m) /\ AddrAgrees(m)
    BY DEF Sound
  <2>2. RandomAgrees(z)
    BY <2>1, <1>1 DEF RandomAgrees
  <2>3. AddrAgrees(z)
    BY <2>1, <1>1 DEF AddrAgrees
  <2> QED BY <2>2, <2>3
<1>5. \A x \in DOMAIN m.mapInfo : TriedBucketOf(z, x) = TriedBucketOf(m, x)
  BY <1>1 DEF TriedBucketOf
<1>6. TriedAgrees(z)
  <2>1. TriedEntries(m) /\ \A j \in 1..TriedBuckets : /\ Len(m.vvTried[j]) <= TriedBucketSize
                                                      /\ IsBucket(m, InTried(m), j, m.vvTried[j])
    BY TriedIs DEF Sound
  <2>2. TriedEntries(z)
    <3>1. ASSUME NEW x \in T PROVE z.mapInfo[x].nLastSuccess > 0 /\ z.mapInfo[x].nRefCount = 0
      <4>1. CASE x = n
        BY <4>1, <1>1
      <4>2. CASE x # n
        <5>1. x \in InTried(m) /\ x \notin O /\ x \in DOMAIN m.mapInfo
          BY <4>2, <1>2
        <5> QED BY <4>2, <5>1, <1>1, <2>1 DEF TriedEntries
      <4> QED BY <4>1, <4>2
    <3> QED BY <3>1, <1>3 DEF TriedEntries
  <2>3. T \subseteq DOMAIN m.mapInfo
    BY <1>2
  <2>4. IsBucket(m, T, k, w) /\ Len(w) <= TriedBucketSize /\ \A x \in O \cup {n} : TriedBucketOf(m, x) = k
    BY DEF PromotedBucket
  <2>5. ASSUME NEW j \in 1..TriedBuckets
        PROVE  Len(z.vvTried[j]) <= TriedBucketSize /\ IsBucket(z, T, j, z.vvTried[j])
    <3>1. CASE j = k
      <4>1. z.vvTried[j] = w
        BY <3>1 DEF PromotedTables
      <4>2. IsBucket(z, T, k, w)
        <5> HIDE DEF T
        <5> QED BY <2>3, <2>4, <1>5 DEF IsBucket
      <4> QED BY <3>1, <4>1, <4>2, <2>4
    <3>2. CASE j # k
      <4>1. z.vvTried[j] = m.vvTried[j]
        BY <3>2 DEF PromotedTables
      <4>2. IsBucket(m, InTried(m), j, m.vvTried[j]) /\ Len(m.vvTried[j]) <= TriedBucketSize
        BY <2>1
      <4> DEFINE v == m.vvTried[j]
      <4>3. \A i \in 1..Len(v) : /\ v[i] \in InTried(m) /\ TriedBucketOf(m, v[i]) = j /\ v[i] \in T
                                 /\ TriedBucketOf(z, v[i]) = j
        <5>1. \A i \in 1..Len(v) : v[i] \in InTried(m) /\ TriedBucketOf(m, v[i]) = j
          BY <4>2 DEF IsBucket
        <5>2. \A i \in 1..Len(v) : v[i] \notin O
          BY <5>1, <2>4, <3>2
        <5> HIDE DEF v
        <5> QED BY <5>1, <5>2, <1>2, <1>5
      <4>4. ASSUME NEW x \in T, TriedBucketOf(z, x) = j PROVE \E i \in 1..Len(v) : v[i] = x
        <5>1. TriedBucketOf(m, x) = j
          BY <4>4, <2>3, <1>5
        <5>2. x # n
          BY <5>1, <3>2, <2>4
        <5>3. x \in InTried(m)
          BY <5>2
        <5> QED BY <5>1, <5>3, <4>2 DEF IsBucket
      <4>5. \A i, h \in 1..Len(v) : v[i] = v[h] => i = h
        BY <4>2 DEF IsBucket
      <4> HIDE DEF v, T
      <4>6. IsBucket(z, T, j, v)
        BY <4>3, <4>4, <4>5 DEF IsBucket
      <4> QED BY <4>1, <4>2, <4>6 DEF v
    <3> QED BY <3>1, <3>2
  <2> QED BY <2>2, <2>5, <1>3, TriedIs
<1>7. \A b \in 1..NewBuckets : z.vvNew[b] = (m.vvNew[b] \ {n}) \cup (IF b = a THEN O ELSE {})
  BY DEF PromotedTables
<1>8. /\ \A b \in 1..NewBuckets : /\ m.vvNew[b] \subseteq DOMAIN m.mapInfo \ InTried(m)
                                  /\ IsFiniteSet(m.vvNew[b]) /\ Cardinality(m.vvNew[b]) <= NewBucketSize
      /\ IsFiniteSet(InTried(m)) /\ IsFiniteSet(DOMAIN m.mapInfo \ InTried(m))
      /\ Cardinality(InTried(m)) = m.nTried /\ Cardinality(DOMAIN m.mapInfo \ InTried(m)) = m.nNew
      /\ Len(m.vRandom) = m.nTried + m.nNew
      /\ DOMAIN m.mapInfo \subseteq 0 .. m.nIdCount - 1
  BY BaseFinite DEF Sound, NewAgrees, CountsAgree
<1>9. NewAgrees(z)
  <2>1. ASSUME NEW b \in 1..NewBuckets
        PROVE  /\ z.vvNew[b] \subseteq DOMAIN z.mapInfo \ InTried(z)
               /\ Cardinality(z.vvNew[b]) <= NewBucketSize
    <3> DEFINE S == m.vvNew[b] \ {n}
    <3>1. z.vvNew[b] \subseteq DOMAIN z.mapInfo \ InTried(z)
      BY <1>1, <1>2, <1>3, <1>7, <1>8
    <3>2. IsFiniteSet(S) /\ Cardinality(S) <= Cardinality(m.vvNew[b])
      <4>1. S \subseteq m.vvNew[b] /\ IsFiniteSet(m.vvNew[b])
        BY <1>8
      <4> HIDE DEF S
      <4> QED BY <4>1, FS_Subset
    <3>3. Cardinality(S) \in Nat /\ Cardinality(m.vvNew[b]) \in Nat /\ NewBucketSize \in Nat
      <4> HIDE DEF S
      <4> QED BY <3>2, <1>8, FS_CardinalityType, Sizes
    <3>4. Cardinality(S) <= NewBucketSize
      <4> HIDE DEF S
      <4> QED BY <3>2, <3>3, <1>8
    <3>5. CASE b # a \/ O = {}
      <4>1. z.vvNew[b] = S
        BY <3>5, <1>7
      <4> QED BY <4>1, <3>1, <3>4
    <3>6. CASE b = a /\ O # {}
      <4>1. PICK o \in InTried(m) : O = {o}
        BY <3>6 DEF PromotedCounts
      <4>2. z.vvNew[b] = S \cup {o} /\ o \notin S
        BY <4>1, <3>6, <1>7, <1>8
      <4>3. Cardinality(S) < NewBucketSize
        BY <3>6 DEF PromotedCounts
      <4> HIDE DEF S
      <4>4. Cardinality(S \cup {o}) = Cardinality(S) + 1
        BY <3>2, <4>2, FS_AddElement
      <4>5. Cardinality(S \cup {o}) <= NewBucketSize
        BY <4>3, <4>4, <3>3
      <4> QED BY <4>2, <4>5, <3>1
    <3> QED BY <3>5, <3>6
  <2> QED BY <2>1 DEF NewAgrees
<1>10. RefsAgree(z)
  <2>1. ASSUME NEW x \in DOMAIN m.mapInfo \ T
        PROVE  /\ z.mapInfo[x].nRefCount = Cardinality(BucketsOf(z, x))
               /\ z.mapInfo[x].nRefCount \in 1 .. PerAddress
    <3>1. CASE x \in O
      <4>1. x \in InTried(m) /\ x # n
        BY <3>1, <1>2
      <4>2. O = {x}
        BY <3>1 DEF PromotedCounts
      <4>3. BucketsOf(z, x) = {a}
        BY <4>1, <4>2, <1>7, <1>8 DEF BucketsOf
      <4>4. Cardinality(BucketsOf(z, x)) = 1
        BY <4>3, FS_Singleton
      <4>5. 1 \in 1..PerAddress
        BY Sizes
      <4> QED BY <4>4, <4>5, <3>1, <1>1
    <3>2. CASE x \notin O
      <4>1. x \in DOMAIN m.mapInfo \ InTried(m) /\ x # n
        BY <3>2
      <4>2. z.mapInfo[x] = m.mapInfo[x]
        BY <3>2, <4>1, <1>1
      <4>3. BucketsOf(z, x) = BucketsOf(m, x)
        BY <3>2, <4>1, <1>7 DEF BucketsOf
      <4> QED BY <4>1, <4>2, <4>3 DEF Sound, RefsAgree
    <3> QED BY <3>1, <3>2
  <2> QED BY <2>1, <1>1, <1>3 DEF RefsAgree
<1>11. CountsAgree(z)
  <2>0. m.nTried \in Nat /\ m.nNew \in Nat
    BY TablesFields
  <2> DEFINE D == DOMAIN m.mapInfo
             I == InTried(m)
  <2>1. CASE O = {} /\ z.nTried = m.nTried + 1 /\ z.nNew = m.nNew - 1
    <3>1. T = I \cup {n} /\ n \notin I /\ D \ T = (D \ I) \ {n} /\ n \in D \ I
      BY <2>1
    <3>2. IsFiniteSet(I) /\ IsFiniteSet(D \ I)
      BY <1>8
    <3> HIDE DEF T, D, I
    <3>3. Cardinality(T) = Cardinality(I) + 1
      BY <3>1, <3>2, FS_AddElement
    <3>4. Cardinality(D \ T) = Cardinality(D \ I) - 1
      BY <3>1, <3>2, FS_RemoveElement
    <3>5. Cardinality(T) = z.nTried /\ Cardinality(D \ T) = z.nNew
      BY <3>3, <3>4, <2>1, <1>8 DEF D, I
    <3>6. m.nTried + m.nNew = z.nTried + z.nNew
      BY <2>0, <2>1
    <3> QED BY <3>5, <3>6, <1>1, <1>3, <1>8 DEF CountsAgree, D
  <2>2. CASE /\ \E o \in InTried(m) : O = {o}
             /\ z.nTried = m.nTried /\ z.nNew = m.nNew
    <3>1. PICK o \in I : O = {o}
      BY <2>2
    <3>2. /\ T = (I \ {o}) \cup {n} /\ n \notin I \ {o} /\ n \in D \ I
          /\ D \ T = ((D \ I) \ {n}) \cup {o} /\ o \notin (D \ I) \ {n}
      BY <3>1, <1>2
    <3>3. IsFiniteSet(I) /\ IsFiniteSet(D \ I)
      BY <1>8
    <3> HIDE DEF T, D, I
    <3>4. Cardinality(I \ {o}) = Cardinality(I) - 1 /\ IsFiniteSet(I \ {o})
      BY <3>1, <3>3, FS_RemoveElement
    <3>5. Cardinality(T) = Cardinality(I) - 1 + 1
      BY <3>2, <3>4, FS_AddElement
    <3>6. Cardinality((D \ I) \ {n}) = Cardinality(D \ I) - 1 /\ IsFiniteSet((D \ I) \ {n})
      BY <3>2, <3>3, FS_RemoveElement
    <3>7. Cardinality(D \ T) = Cardinality(D \ I) - 1 + 1
      BY <3>2, <3>6, FS_AddElement
    <3>8. Cardinality(I) = m.nTried /\ Cardinality(D \ I) = m.nNew
      BY <1>8 DEF D, I
    <3>9. Cardinality(T) = z.nTried /\ Cardinality(D \ T) = z.nNew
      BY <3>5, <3>7, <3>8, <2>0, <2>2
    <3>10. m.nTried + m.nNew = z.nTried + z.nNew
      BY <2>0, <2>2
    <3> QED BY <3>9, <3>10, <1>1, <1>3, <1>8 DEF CountsAgree, D
  <2> QED BY <2>1, <2>2 DEF PromotedCounts
<1> QED BY <1>4, <1>6, <1>9, <1>10, <1>11 DEF Sound

\* What Inspect returns: the bucket, rearranged, and a position of it.
Inspected(m, T, k, l, r) ==
    /\ r.vTried \in Seq(Nat) /\ Len(r.vTried) = l /\ IsBucket(m, T, k, r.vTried)
    /\ r.pos \in 1..l

\* It does, whatever the random positions are.
LEMMA InspectIs ==
    ASSUME NEW x, NEW m, NEW T \in SUBSET Nat, NEW k, NEW v \in Seq(Nat), IsBucket(m, T, k, v),
           NEW count \in 1..Len(v), NEW p \in [1..count -> 1..Len(v)]
    PROVE  Inspected(m, T, k, Len(v), Inspect(x, v, count, p))
<1> DEFINE l == Len(v)
           W == { w \in Seq(Nat) : Len(w) = l /\ IsBucket(m, T, k, w) }
           U == { r \in [vTried : W, oldest : Int, pos : Int] : r.oldest # -1 => r.pos \in 1..l }
           s == [vTried |-> v, oldest |-> -1, pos |-> 0]
           Swapped(w, i) == [w EXCEPT ![p[i]] = w[i], ![i] = w[p[i]]]
           Older(last, i) == \/ last.oldest = -1
                             \/ x.mapInfo[last.vTried[p[i]]].nLastSuccess < x.mapInfo[last.oldest].nLastSuccess
           Step(last, i) == IF Older(last, i)
                            THEN [vTried |-> Swapped(last.vTried, i), oldest |-> last.vTried[p[i]], pos |-> p[i]]
                            ELSE [last EXCEPT !.vTried = Swapped(last.vTried, i)]
           F == [q \in U \X Int |-> IF q[2] \in 1..count THEN Step(q[1], q[2]) ELSE q[1]]
           Is(g) == g = [i \in 0..count |-> IF i = 0 THEN s ELSE Step(g[i - 1], i)]
           at == CHOOSE g : Is(g)
<1>1. l \in Nat /\ count \in Nat /\ count # 0 /\ \A i \in 1..count : i \in 1..l /\ p[i] \in 1..l /\ p[i] \in Int
  BY LenProperties
<1>2. s \in U
  OBVIOUS
<1>3. ASSUME NEW r \in U, NEW i \in 1..count PROVE Step(r, i) \in U /\ Step(r, i).oldest # -1
  <2>1. r.vTried \in Seq(Nat) /\ Len(r.vTried) = l /\ IsBucket(m, T, k, r.vTried)
    OBVIOUS
  <2>2. p[i] \in 1..l /\ i \in 1..l
    BY <1>1
  <2>3. Swapped(r.vTried, i) \in W
    <3> DEFINE w == r.vTried
               j == p[i]
    <3> HIDE DEF l, w, j
    <3>1. /\ w \in Seq(Nat) /\ Len(w) = l /\ IsBucket(m, T, k, w) /\ j \in 1..Len(w) /\ i \in 1..Len(w)
      BY <2>1, <2>2 DEF w, j
    <3>2. /\ Swap(w, j, i) \in Seq(Nat) /\ Len(Swap(w, j, i)) = l
          /\ IsBucket(m, T, k, Swap(w, j, i))
      BY <3>1, BucketSwap
    <3>3. Swap(w, j, i) = Swapped(r.vTried, i)
      BY DEF Swap, w, j
    <3> QED BY <3>2, <3>3
  <2>4. r.vTried[p[i]] \in Nat
    <3> HIDE DEF l
    <3> QED BY <2>1, <2>2, ElementOfSeq
  <2> HIDE DEF Swapped, W
  <2>5. CASE Older(r, i)
    <3> HIDE DEF Older
    <3>1. Step(r, i) = [vTried |-> Swapped(r.vTried, i), oldest |-> r.vTried[p[i]], pos |-> p[i]]
      BY <2>5
    <3> HIDE DEF Step, l
    <3> QED BY <3>1, <2>2, <2>3, <2>4, <1>1
  <2>6. CASE ~Older(r, i)
    <3>0. r.oldest # -1
      BY <2>6
    <3> HIDE DEF Older
    <3>1. Step(r, i) = [r EXCEPT !.vTried = Swapped(r.vTried, i)]
      BY <2>6
    <3> HIDE DEF Step, l
    <3> QED BY <3>0, <3>1, <2>3
  <2> QED BY <2>5, <2>6
<1> HIDE DEF l, U, s, Step, Swapped, Older
<1>4. LoopData(U, count, s, F)
  <2>1. F \in [U \X Int -> U]
    BY <1>3
  <2> HIDE DEF F
  <2> QED BY <1>1, <1>2, <2>1 DEF LoopData
<1>5. PICK f \in [0..count -> U] : Loop(f, count, s, F)
  <2> HIDE DEF F
  <2> QED BY <1>4, LoopExists
<1>6. ASSUME NEW i \in 0..count PROVE f[i] = IF i = 0 THEN s ELSE Step(f[i - 1], i)
  <2>1. f[i] = IF i = 0 THEN s ELSE F[<<f[i - 1], i>>]
    BY <1>5 DEF Loop
  <2>2. i # 0 => i - 1 \in 0..count /\ i \in 1..count /\ i \in Int
    BY <1>1
  <2> QED BY <2>1, <2>2, <1>5
<1>7. Is(f)
  BY <1>5, <1>6
<1>8. Is(at)
  <2> HIDE DEF Is
  <2> QED BY <1>7
<1>9. Inspect(x, v, count, p) = at[count]
  BY DEF Inspect, Step, Swapped, Older, s
<1>10. \A i \in 0..count : at[i] = IF i = 0 THEN s ELSE Step(at[i - 1], i)
  <2> HIDE DEF at
  <2> QED BY <1>8
<1> HIDE DEF at
<1> DEFINE S == { i \in 0..count : at[i] \in U }
<1>11. 0 \in S
  BY <1>1, <1>2, <1>10
<1>12. ASSUME NEW i \in 1..count, i - 1 \in S PROVE i \in S
  <2>1. at[i] = Step(at[i - 1], i) /\ i \in 0..count
    BY <1>1, <1>10
  <2> QED BY <2>1, <1>3, <1>12
<1>13. 0..count \subseteq S
  <2> HIDE DEF S
  <2> QED BY <1>1, <1>11, <1>12, UpTo
<1>14. count \in 1..count /\ count \in 0..count /\ count - 1 \in 0..count
  BY <1>1
<1>15. at[count] = Step(at[count - 1], count) /\ at[count - 1] \in U
  BY <1>1, <1>10, <1>13, <1>14
<1>16. at[count] \in U /\ at[count].oldest # -1
  BY <1>3, <1>14, <1>15
<1> QED BY <1>9, <1>16 DEF Inspected, U, l

\* What SelectTried returns.
LEMMA SelectIs ==
    ASSUME NEW x, NEW m, NEW T \in SUBSET Nat, NEW k, NEW v \in Seq(Nat), IsBucket(m, T, k, v),
           Len(v) # 0, NEW r \in SelectTried(x, v)
    PROVE  Inspected(m, T, k, Len(v), r)
<1> DEFINE count == IF InspectOnEvict < Len(v) THEN InspectOnEvict ELSE Len(v)
<1>1. count \in 1..Len(v)
  <2>1. Len(v) \in Nat
    BY LenProperties
  <2> QED BY <2>1, Sizes
<1>2. PICK p \in [1..count -> 1..Len(v)] : r = Inspect(x, v, count, p)
  BY DEF SelectTried
<1> HIDE DEF count
<1> QED BY <1>1, <1>2, InspectIs

\* The first part of MakeTried: the entry leaves its new buckets.
Out(m, n) == [m EXCEPT !.mapInfo[n].nRefCount = @ - Cardinality(BucketsOf(m, n)),
                       !.vvNew = [b \in 1 .. NewBuckets |-> @[b] \ {n}], !.nNew = @ - 1]
IsOut(m, n, z) ==
    /\ DOMAIN z.mapInfo = DOMAIN m.mapInfo
    /\ \A x \in DOMAIN m.mapInfo \ {n} : z.mapInfo[x] = m.mapInfo[x]
    /\ z.mapInfo[n] = [m.mapInfo[n] EXCEPT !.nRefCount = 0]
    /\ \A b \in 1..NewBuckets : z.vvNew[b] = m.vvNew[b] \ {n}
    /\ z.nNew = m.nNew - 1 /\ z.nTried = m.nTried /\ z.vvTried = m.vvTried
    /\ z.mapAddr = m.mapAddr /\ z.vRandom = m.vRandom /\ z.nIdCount = m.nIdCount

\* Its count is then 0.
LEMMA OutIs ==
    ASSUME NEW m \in Tables, Sound(m), NEW n \in DOMAIN m.mapInfo \ InTried(m)
    PROVE  Out(m, n) \in Tables /\ IsOut(m, n, Out(m, n))
<1> DEFINE z == Out(m, n)
           e == [m.mapInfo[n] EXCEPT !.nRefCount = 0]
           info == [m.mapInfo EXCEPT ![n] = e]
           new == [b \in 1 .. NewBuckets |-> m.vvNew[b] \ {n}]
           c == m.nNew - 1
<1>1. m.mapInfo \in Infos /\ m.mapInfo[n] \in CAddrInfos /\ m.vvNew \in [1..NewBuckets -> SUBSET Nat]
  BY TablesFields
<1>2. m.mapInfo[n].nRefCount - Cardinality(BucketsOf(m, n)) = 0
  <2>1. m.mapInfo[n].nRefCount = Cardinality(BucketsOf(m, n)) /\ m.mapInfo[n].nRefCount \in Nat
    BY <1>1, InfoFields DEF Sound, RefsAgree
  <2> QED BY <2>1
<1>3. z = [m EXCEPT !.mapInfo = info, !.vvNew = new, !.nNew = c]
  <2> DEFINE h == m.mapInfo[n].nRefCount - Cardinality(BucketsOf(m, n))
  <2>1. z = [m EXCEPT !.mapInfo = [m.mapInfo EXCEPT ![n] = [m.mapInfo[n] EXCEPT !.nRefCount = h]],
                      !.vvNew = new, !.nNew = c]
    <3> HIDE DEF new, c
    <3>1. z = [m EXCEPT !.mapInfo[n].nRefCount = h, !.vvNew = new, !.nNew = c]
      BY DEF Out, new, c
    <3> HIDE DEF h, z
    <3> QED BY <3>1 DEF Tables
  <2>2. h = 0
    BY <1>2
  <2> HIDE DEF h, z, new, c
  <2> QED BY <2>1, <2>2
<1>4. e \in CAddrInfos
  BY <1>1 DEF CAddrInfos
<1> HIDE DEF e
<1>5. /\ info \in Infos /\ DOMAIN info = DOMAIN m.mapInfo /\ info[n] = e
      /\ \A x \in DOMAIN m.mapInfo \ {n} : info[x] = m.mapInfo[x]
  BY <1>1, <1>4, InfoUpdate
<1>6. new \in [1..NewBuckets -> SUBSET Nat] /\ \A b \in 1..NewBuckets : new[b] = m.vvNew[b] \ {n}
  BY <1>1
<1>7. c \in Nat
  <2>1. IsFiniteSet(DOMAIN m.mapInfo \ InTried(m)) /\ Cardinality(DOMAIN m.mapInfo \ InTried(m)) = m.nNew
    BY BaseFinite DEF Sound, CountsAgree
  <2>2. m.nNew # 0 /\ m.nNew \in Nat
    BY <2>1, FS_EmptySet, FS_CardinalityType
  <2> QED BY <2>2
<1> HIDE DEF info, new, c, z
<1>8. /\ z \in Tables /\ z.mapInfo = info /\ z.mapAddr = m.mapAddr /\ z.vRandom = m.vRandom
      /\ z.nIdCount = m.nIdCount /\ z.nTried = m.nTried /\ z.vvTried = m.vvTried
      /\ z.nNew = c /\ z.vvNew = new
  BY <1>3, <1>5, <1>6, <1>7 DEF Tables
<1>9. IsOut(m, n, z)
  BY <1>5, <1>6, <1>8 DEF IsOut, e, c
<1> QED BY <1>8, <1>9 DEF z

\* The tried bucket of the entry has room.
LEMMA TriedAppendKeeps ==
    ASSUME NEW m \in Tables, Sound(m), NEW n \in DOMAIN m.mapInfo \ InTried(m),
           m.mapInfo[n].nLastSuccess > 0, BucketsOf(m, n) # {},
           NEW k, k = TriedBucketOf(m, n), Len(m.vvTried[k]) < TriedBucketSize
    PROVE  LET z == [Out(m, n) EXCEPT !.vvTried[k] = Append(@, n), !.nTried = @ + 1,
                                      !.mapInfo[n].fInTried = TRUE]
           IN  z \in Tables /\ Sound(z)
<1> DEFINE o == Out(m, n)
           w == Append(o.vvTried[k], n)
           e == [o.mapInfo[n] EXCEPT !.fInTried = TRUE]
           info == [o.mapInfo EXCEPT ![n] = e]
           vv == [o.vvTried EXCEPT ![k] = w]
           t == o.nTried + 1
           z == [o EXCEPT !.vvTried[k] = Append(@, n), !.nTried = @ + 1, !.mapInfo[n].fInTried = TRUE]
<1> SUFFICES z \in Tables /\ Sound(z)
  OBVIOUS
<1>1. o \in Tables /\ IsOut(m, n, o)
  BY OutIs
<1> HIDE DEF o
<1>2. z = [o EXCEPT !.mapInfo = info, !.vvTried = vv, !.nTried = t]
  BY <1>1 DEF Tables
<1>3. /\ DOMAIN o.mapInfo = DOMAIN m.mapInfo /\ o.vvTried = m.vvTried /\ o.nTried = m.nTried
      /\ o.mapInfo[n] = [m.mapInfo[n] EXCEPT !.nRefCount = 0]
      /\ \A x \in DOMAIN m.mapInfo \ {n} : o.mapInfo[x] = m.mapInfo[x]
  BY <1>1 DEF IsOut
<1>4. o.mapInfo \in Infos /\ m.mapInfo[n] \in CAddrInfos /\ o.nTried \in Nat /\ n \in Nat
  BY <1>1, TablesFields
<1>5. /\ e \in CAddrInfos /\ e.service = m.mapInfo[n].service /\ e.nRandomPos = m.mapInfo[n].nRandomPos
      /\ e.nLastSuccess = m.mapInfo[n].nLastSuccess /\ e.nRefCount = 0 /\ e.fInTried
  <2> DEFINE i == m.mapInfo[n]
             j == [i EXCEPT !.nRefCount = 0]
  <2>1. e = [j EXCEPT !.fInTried = TRUE]
    BY <1>3
  <2>2. i \in CAddrInfos
    BY <1>4
  <2> HIDE DEF i, e
  <2>3. j \in CAddrInfos /\ j.service = i.service /\ j.nRandomPos = i.nRandomPos
        /\ j.nLastSuccess = i.nLastSuccess /\ j.nRefCount = 0
    BY <2>2 DEF CAddrInfos
  <2> HIDE DEF j
  <2>4. e \in CAddrInfos /\ e.service = j.service /\ e.nRandomPos = j.nRandomPos
        /\ e.nLastSuccess = j.nLastSuccess /\ e.nRefCount = j.nRefCount /\ e.fInTried = TRUE
    BY <2>1, <2>3 DEF CAddrInfos
  <2> QED BY <2>3, <2>4 DEF i
<1> HIDE DEF e
<1>6. /\ info \in Infos /\ DOMAIN info = DOMAIN m.mapInfo /\ info[n] = e
      /\ \A x \in DOMAIN m.mapInfo \ {n} : info[x] = m.mapInfo[x]
  <2>1. /\ info \in Infos /\ DOMAIN info = DOMAIN o.mapInfo /\ info[n] = e
        /\ \A x \in DOMAIN o.mapInfo \ {n} : info[x] = o.mapInfo[x]
    BY <1>3, <1>4, <1>5, InfoUpdate
  <2> HIDE DEF info
  <2> QED BY <2>1, <1>3
<1>7. k \in 1..TriedBuckets
  BY <1>4, InfoFields DEF TriedBucketOf
<1>8. m.vvTried \in [1..TriedBuckets -> Seq(Nat)] /\ m.vvTried[k] \in Seq(Nat)
  <2>1. m.vvTried \in [1..TriedBuckets -> Seq(Nat)]
    BY TablesFields
  <2> QED BY <2>1, <1>7
<1>9. IsBucket(m, InTried(m), k, m.vvTried[k]) /\ Len(m.vvTried[k]) \in Nat
  BY <1>7, <1>8, TriedIs, LenProperties DEF Sound
<1>10. w \in Seq(Nat) /\ Len(w) = Len(m.vvTried[k]) + 1 /\ IsBucket(m, InTried(m) \cup {n}, k, w)
  <2>1. w = Append(m.vvTried[k], n)
    BY <1>3
  <2>2. InTried(m) \in SUBSET Nat
    BY TablesFields DEF InTried
  <2> HIDE DEF w
  <2> QED BY <2>1, <2>2, <1>4, <1>8, <1>9, BucketAppend
<1> HIDE DEF w
<1>11. /\ vv \in [1..TriedBuckets -> Seq(Nat)] /\ vv[k] = w
       /\ \A j \in 1..TriedBuckets : j # k => vv[j] = m.vvTried[j]
  BY <1>3, <1>7, <1>8, <1>10
<1>12. t \in Nat /\ t = m.nTried + 1
  BY <1>3, <1>4
<1> HIDE DEF info, vv, t, z
<1>13. /\ z \in Tables /\ z.mapInfo = info /\ z.mapAddr = o.mapAddr /\ z.vRandom = o.vRandom
       /\ z.nIdCount = o.nIdCount /\ z.nTried = t /\ z.vvTried = vv
       /\ z.nNew = o.nNew /\ z.vvNew = o.vvNew
  BY <1>1, <1>2, <1>6, <1>11, <1>12 DEF Tables
<1>14. PICK a \in 1..NewBuckets : a \in BucketsOf(m, n)
  BY DEF BucketsOf
<1>15. PromotedInfo(m, n, {}, z)
  <2>1. \A x \in DOMAIN m.mapInfo : info[x].service = m.mapInfo[x].service /\ info[x].nRandomPos = m.mapInfo[x].nRandomPos
    BY <1>5, <1>6
  <2>2. o.mapAddr = m.mapAddr /\ o.vRandom = m.vRandom /\ o.nIdCount = m.nIdCount
    BY <1>1 DEF IsOut
  <2> QED BY <2>1, <2>2, <1>5, <1>6, <1>13 DEF PromotedInfo
<1>16. PromotedTables(m, n, {}, a, k, w, z)
  <2>1. \A b \in 1..NewBuckets : o.vvNew[b] = m.vvNew[b] \ {n}
    BY <1>1 DEF IsOut
  <2> QED BY <2>1, <1>11, <1>13 DEF PromotedTables
<1>17. PromotedCounts(m, n, {}, a, z)
  BY <1>1, <1>12, <1>13 DEF PromotedCounts, IsOut
<1>18. PromotedBucket(m, n, {}, k, w)
  <2>1. (InTried(m) \ {}) \cup {n} = InTried(m) \cup {n}
    OBVIOUS
  <2>2. Len(w) <= TriedBucketSize
    BY <1>9, <1>10, Sizes
  <2> QED BY <2>1, <2>2, <1>10 DEF PromotedBucket
<1> QED BY <1>7, <1>13, <1>15, <1>16, <1>17, <1>18, PromoteKeeps

\* The tables after Evict.
EvictTables(o, n, old, b, k, w) ==
    [o EXCEPT !.mapInfo[old].fInTried = FALSE, !.mapInfo[old].nRefCount = 1,
              !.mapInfo[n].fInTried = TRUE,
              !.vvNew[b] = @ \cup {old}, !.nNew = @ + 1, !.vvTried[k] = w]
IsEvicted(o, n, old, b, k, w, z) ==
    /\ z \in Tables /\ DOMAIN z.mapInfo = DOMAIN o.mapInfo
    /\ \A x \in DOMAIN o.mapInfo \ {old, n} : z.mapInfo[x] = o.mapInfo[x]
    /\ z.mapInfo[old] = [o.mapInfo[old] EXCEPT !.fInTried = FALSE, !.nRefCount = 1]
    /\ z.mapInfo[n] = [o.mapInfo[n] EXCEPT !.fInTried = TRUE]
    /\ z.vvNew[b] = o.vvNew[b] \cup {old}
    /\ \A a \in 1..NewBuckets : a # b => z.vvNew[a] = o.vvNew[a]
    /\ z.nNew = o.nNew + 1 /\ z.nTried = o.nTried
    /\ z.vvTried[k] = w /\ \A j \in 1..TriedBuckets : j # k => z.vvTried[j] = o.vvTried[j]
    /\ z.mapAddr = o.mapAddr /\ z.vRandom = o.vRandom /\ z.nIdCount = o.nIdCount

\* Evict assigns all of that.
LEMMA EvictTablesIs ==
    ASSUME NEW o \in Tables, NEW n \in DOMAIN o.mapInfo, NEW old \in DOMAIN o.mapInfo, n # old,
           NEW b \in 1..NewBuckets, NEW k \in 1..TriedBuckets, NEW w \in Seq(Nat)
    PROVE  IsEvicted(o, n, old, b, k, w, EvictTables(o, n, old, b, k, w))
<1> DEFINE z == EvictTables(o, n, old, b, k, w)
           e == [o.mapInfo[old] EXCEPT !.fInTried = FALSE, !.nRefCount = 1]
           f == [o.mapInfo[n] EXCEPT !.fInTried = TRUE]
           one == [o.mapInfo EXCEPT ![old] = e]
           info == [one EXCEPT ![n] = f]
           new == [o.vvNew EXCEPT ![b] = o.vvNew[b] \cup {old}]
           vv == [o.vvTried EXCEPT ![k] = w]
           c == o.nNew + 1
<1>1. /\ o.mapInfo \in Infos /\ o.mapInfo[n] \in CAddrInfos /\ o.mapInfo[old] \in CAddrInfos
      /\ o.vvNew \in [1..NewBuckets -> SUBSET Nat] /\ o.vvTried \in [1..TriedBuckets -> Seq(Nat)]
      /\ o.nNew \in Nat /\ old \in Nat
  BY TablesFields
<1>2. e \in CAddrInfos /\ f \in CAddrInfos
  BY <1>1 DEF CAddrInfos
<1>3. z = [o EXCEPT !.mapInfo = info, !.vvNew = new, !.nNew = c, !.vvTried = vv]
  <2>1. /\ z = [[[[o EXCEPT !.mapInfo[old].fInTried = FALSE]
                    EXCEPT !.mapInfo[old].nRefCount = 1]
                    EXCEPT !.mapInfo[n].fInTried = TRUE]
                    EXCEPT !.vvNew = new, !.nNew = c, !.vvTried = vv]
    BY DEF EvictTables, Tables
  <2> DEFINE m1 == [o EXCEPT !.mapInfo[old].fInTried = FALSE]
             m2 == [m1 EXCEPT !.mapInfo[old].nRefCount = 1]
             m3 == [m2 EXCEPT !.mapInfo[n].fInTried = TRUE]
             e1 == [o.mapInfo[old] EXCEPT !.fInTried = FALSE]
             i1 == [o.mapInfo EXCEPT ![old] = e1]
  <2>2. m1 = [o EXCEPT !.mapInfo = i1]
    BY DEF Tables
  <2>3. /\ e1 \in CAddrInfos /\ i1 \in Infos /\ DOMAIN i1 = DOMAIN o.mapInfo /\ i1[old] = e1
        /\ \A x \in DOMAIN o.mapInfo \ {old} : i1[x] = o.mapInfo[x]
    <3>1. e1 \in CAddrInfos
      BY <1>1 DEF CAddrInfos
    <3> HIDE DEF e1
    <3> QED BY <1>1, <3>1, InfoUpdate
  <2> HIDE DEF i1, m1
  <2>4. m1 \in Tables /\ m1.mapInfo = i1
    BY <2>2, <2>3 DEF Tables
  <2>5. m2 = [m1 EXCEPT !.mapInfo = [i1 EXCEPT ![old] = [i1[old] EXCEPT !.nRefCount = 1]]]
    BY <2>4 DEF Tables
  <2>6. [i1[old] EXCEPT !.nRefCount = 1] = e
    BY <2>3, <1>1 DEF CAddrInfos
  <2> HIDE DEF e, m2
  <2>7. [i1 EXCEPT ![old] = e] = one
    <3>1. i1 = [x \in DOMAIN i1 |-> i1[x]] /\ o.mapInfo = [x \in DOMAIN o.mapInfo |-> o.mapInfo[x]]
      BY <2>3, <1>1, InfosType
    <3>2. [i1 EXCEPT ![old] = e] = [x \in DOMAIN o.mapInfo |-> IF x = old THEN e ELSE o.mapInfo[x]]
      BY <3>1, <2>3
    <3>3. one = [x \in DOMAIN o.mapInfo |-> IF x = old THEN e ELSE o.mapInfo[x]]
      BY <3>1
    <3> HIDE DEF one
    <3> QED BY <3>2, <3>3
  <2> HIDE DEF one
  <2>8. m2 = [o EXCEPT !.mapInfo = one]
    BY <2>2, <2>4, <2>5, <2>6, <2>7 DEF Tables
  <2>9. /\ one \in Infos /\ DOMAIN one = DOMAIN o.mapInfo
        /\ \A x \in DOMAIN o.mapInfo \ {old} : one[x] = o.mapInfo[x]
    BY <1>1, <1>2, InfoUpdate DEF one
  <2>10. m2 \in Tables /\ m2.mapInfo = one
    BY <2>8, <2>9 DEF Tables
  <2>11. m3 = [m2 EXCEPT !.mapInfo = [one EXCEPT ![n] = [one[n] EXCEPT !.fInTried = TRUE]]]
    BY <2>10 DEF Tables
  <2>12. [one[n] EXCEPT !.fInTried = TRUE] = f
    BY <2>9
  <2>13. m3 = [o EXCEPT !.mapInfo = info]
    <3> HIDE DEF m3, f
    <3> QED BY <2>8, <2>10, <2>11, <2>12 DEF Tables
  <2>14. z = [m3 EXCEPT !.vvNew = new, !.nNew = c, !.vvTried = vv]
    BY <2>1 DEF m1, m2
  <2> HIDE DEF m3, new, c, vv, info, z
  <2> QED BY <2>13, <2>14 DEF Tables
<1> HIDE DEF e, f
<1>4. /\ one \in Infos /\ DOMAIN one = DOMAIN o.mapInfo /\ one[old] = e
      /\ \A x \in DOMAIN o.mapInfo \ {old} : one[x] = o.mapInfo[x]
  BY <1>1, <1>2, InfoUpdate
<1> HIDE DEF one
<1>5. /\ info \in Infos /\ DOMAIN info = DOMAIN one /\ info[n] = f
      /\ \A x \in DOMAIN one \ {n} : info[x] = one[x]
  BY <1>2, <1>4, InfoUpdate
<1>6. /\ new \in [1..NewBuckets -> SUBSET Nat] /\ new[b] = o.vvNew[b] \cup {old}
      /\ \A a \in 1..NewBuckets : a # b => new[a] = o.vvNew[a]
  BY <1>1
<1>7. /\ vv \in [1..TriedBuckets -> Seq(Nat)] /\ vv[k] = w
      /\ \A j \in 1..TriedBuckets : j # k => vv[j] = o.vvTried[j]
  BY <1>1
<1>8. c \in Nat
  BY <1>1
<1> HIDE DEF info, new, vv, c, z
<1>9. /\ z \in Tables /\ z.mapInfo = info /\ z.mapAddr = o.mapAddr /\ z.vRandom = o.vRandom
      /\ z.nIdCount = o.nIdCount /\ z.nTried = o.nTried /\ z.vvTried = vv
      /\ z.nNew = c /\ z.vvNew = new
  BY <1>3, <1>5, <1>6, <1>7, <1>8 DEF Tables
<1>10. DOMAIN info = DOMAIN o.mapInfo /\ info[old] = e /\ \A x \in DOMAIN o.mapInfo \ {old, n} : info[x] = o.mapInfo[x]
  BY <1>4, <1>5
<1>11. IsEvicted(o, n, old, b, k, w, z)
  BY <1>5, <1>6, <1>7, <1>9, <1>10 DEF IsEvicted, e, f, c
<1> QED BY <1>11 DEF z

\* The tried bucket is full: one of its entries goes back to a new bucket, which has room.
LEMMA EvictKeeps ==
    ASSUME NEW m \in Tables, Sound(m), NEW n \in DOMAIN m.mapInfo \ InTried(m),
           m.mapInfo[n].nLastSuccess > 0, NEW origin \in BucketsOf(m, n),
           NEW k, k = TriedBucketOf(m, n), Len(m.vvTried[k]) = TriedBucketSize,
           NEW sel \in SelectTried(Out(m, n), m.vvTried[k])
    PROVE  /\ Evict(Out(m, n), n, origin, k, sel) \in Tables
           /\ Sound(Evict(Out(m, n), n, origin, k, sel))
<1> DEFINE o == Out(m, n)
           v == m.vvTried[k]
           z == Evict(o, n, origin, k, sel)
           old == sel.vTried[sel.pos]
           own == GetNewBucket[<<o.mapInfo[old].service.ip, o.mapInfo[old].source>>]
           b == IF Cardinality(o.vvNew[own]) < NewBucketSize THEN own ELSE origin
           w == [sel.vTried EXCEPT ![sel.pos] = n]
           T == InTried(m)
<1>1. o \in Tables /\ IsOut(m, n, o)
  BY OutIs
<1>2. z = EvictTables(o, n, old, b, k, w)
  <2> HIDE DEF o
  <2> QED BY Zenon DEF Evict, EvictTables
<1>3. sel \in SelectTried(o, v)
  OBVIOUS
<1> HIDE DEF o
<1>4. m.mapInfo[n] \in CAddrInfos /\ n \in Nat /\ T \in SUBSET Nat /\ n \notin T
  BY TablesFields DEF InTried
<1>5. k \in 1..TriedBuckets
  BY <1>4, InfoFields DEF TriedBucketOf
<1>6. v \in Seq(Nat)
  <2>1. m.vvTried \in [1..TriedBuckets -> Seq(Nat)]
    BY TablesFields
  <2> QED BY <2>1, <1>5
<1>7. IsBucket(m, T, k, v) /\ Len(v) # 0 /\ Len(v) = TriedBucketSize
  <2>1. IsBucket(m, T, k, v)
    BY <1>5, TriedIs DEF Sound
  <2> QED BY <2>1, Sizes
<1>8. Inspected(m, T, k, Len(v), sel)
  <2> HIDE DEF v, T
  <2> QED BY <1>3, <1>4, <1>6, <1>7, SelectIs
<1>9. /\ sel.vTried \in Seq(Nat) /\ Len(sel.vTried) = TriedBucketSize /\ IsBucket(m, T, k, sel.vTried)
      /\ sel.pos \in 1..Len(sel.vTried)
  BY <1>7, <1>8 DEF Inspected
<1>10. old \in T /\ TriedBucketOf(m, old) = k /\ old # n
  BY <1>4, <1>9 DEF IsBucket
<1>11. w \in Seq(Nat) /\ Len(w) = TriedBucketSize /\ IsBucket(m, (T \ {old}) \cup {n}, k, w)
  <2> DEFINE q == sel.vTried
             p == sel.pos
  <2>1. q \in Seq(Nat) /\ Len(q) = TriedBucketSize /\ IsBucket(m, T, k, q) /\ p \in 1..Len(q)
    BY <1>9
  <2>2. w = Replace(q, p, n) /\ old = q[p]
    BY DEF Replace
  <2>3. T \in SUBSET Nat /\ n \in Nat /\ n \notin T /\ TriedBucketOf(m, n) = k
    BY <1>4
  <2> HIDE DEF q, p, w, old, T
  <2>4. Replaceable(m, T, k, q, n, p)
    BY <2>1, <2>3 DEF Replaceable
  <2>5. Replaced(m, T, k, q, n, p)
    BY <2>4, BucketReplace
  <2> QED BY <2>1, <2>2, <2>5 DEF Replaced
<1> HIDE DEF w, old
<1>12. old \in DOMAIN m.mapInfo /\ m.mapInfo[old] \in CAddrInfos /\ o.mapInfo[old] = m.mapInfo[old]
  BY <1>1, <1>10, TablesFields DEF InTried, IsOut
<1>13. own \in 1..NewBuckets
  BY <1>12, InfoFields
<1>14. b \in 1..NewBuckets /\ Cardinality(o.vvNew[b]) < NewBucketSize
  <2>1. CASE Cardinality(o.vvNew[own]) < NewBucketSize
    BY <2>1, <1>13
  <2>2. CASE ~(Cardinality(o.vvNew[own]) < NewBucketSize)
    <3>1. b = origin /\ origin \in 1..NewBuckets /\ n \in m.vvNew[origin]
      BY <2>2 DEF BucketsOf
    <3>2. IsFiniteSet(m.vvNew[origin]) /\ Cardinality(m.vvNew[origin]) <= NewBucketSize
      BY <3>1, BaseFinite DEF Sound, NewAgrees
    <3>3. Cardinality(m.vvNew[origin] \ {n}) = Cardinality(m.vvNew[origin]) - 1
          /\ Cardinality(m.vvNew[origin]) \in Nat
      BY <3>1, <3>2, FS_RemoveElement, FS_CardinalityType
    <3>4. o.vvNew[origin] = m.vvNew[origin] \ {n}
      BY <3>1, <1>1 DEF IsOut
    <3>5. Cardinality(o.vvNew[origin]) < NewBucketSize
      <4> DEFINE c == Cardinality(m.vvNew[origin])
      <4>1. c \in Nat /\ c <= NewBucketSize /\ NewBucketSize \in Nat
        BY <3>2, <3>3, Sizes
      <4> HIDE DEF c
      <4>2. c - 1 < NewBucketSize
        BY <4>1
      <4> QED BY <4>2, <3>3, <3>4 DEF c
    <3> HIDE DEF b
    <3> QED BY <3>1, <3>5
  <2> QED BY <2>1, <2>2
<1> HIDE DEF own, b, z
<1>15. n \in DOMAIN o.mapInfo /\ old \in DOMAIN o.mapInfo /\ DOMAIN o.mapInfo = DOMAIN m.mapInfo
  BY <1>1, <1>12 DEF IsOut
<1>16. /\ z \in Tables /\ DOMAIN z.mapInfo = DOMAIN o.mapInfo
       /\ \A x \in DOMAIN o.mapInfo \ {old, n} : z.mapInfo[x] = o.mapInfo[x]
       /\ z.mapInfo[old] = [o.mapInfo[old] EXCEPT !.fInTried = FALSE, !.nRefCount = 1]
       /\ z.mapInfo[n] = [o.mapInfo[n] EXCEPT !.fInTried = TRUE]
       /\ z.vvNew[b] = o.vvNew[b] \cup {old}
       /\ \A a \in 1..NewBuckets : a # b => z.vvNew[a] = o.vvNew[a]
       /\ z.nNew = o.nNew + 1 /\ z.nTried = o.nTried
       /\ z.vvTried[k] = w /\ \A j \in 1..TriedBuckets : j # k => z.vvTried[j] = o.vvTried[j]
       /\ z.mapAddr = o.mapAddr /\ z.vRandom = o.vRandom /\ z.nIdCount = o.nIdCount
  <2>1. IsEvicted(o, n, old, b, k, w, z)
    BY <1>1, <1>2, <1>5, <1>10, <1>11, <1>14, <1>15, EvictTablesIs
  <2> QED BY <2>1 DEF IsEvicted
<1>17. PromotedInfo(m, n, {old}, z)
  <2>1. o.mapInfo[n] = [m.mapInfo[n] EXCEPT !.nRefCount = 0] /\ o.mapInfo[old] = m.mapInfo[old]
    BY <1>1, <1>12 DEF IsOut
  <2>2. /\ z.mapInfo[old].service = m.mapInfo[old].service
        /\ z.mapInfo[old].nRandomPos = m.mapInfo[old].nRandomPos
        /\ z.mapInfo[old].fInTried = FALSE /\ z.mapInfo[old].nRefCount = 1
    <3> DEFINE e == m.mapInfo[old]
    <3>1. e \in CAddrInfos /\ z.mapInfo[old] = [e EXCEPT !.fInTried = FALSE, !.nRefCount = 1]
      BY <1>12, <1>16, <2>1
    <3> HIDE DEF e
    <3>2. /\ z.mapInfo[old].service = e.service
          /\ z.mapInfo[old].nRandomPos = e.nRandomPos
          /\ z.mapInfo[old].fInTried = FALSE /\ z.mapInfo[old].nRefCount = 1
      BY <3>1 DEF CAddrInfos
    <3> QED BY <3>2 DEF e
  <2>3. /\ z.mapInfo[n].service = m.mapInfo[n].service
        /\ z.mapInfo[n].nRandomPos = m.mapInfo[n].nRandomPos
        /\ z.mapInfo[n].nLastSuccess = m.mapInfo[n].nLastSuccess
        /\ z.mapInfo[n].fInTried = TRUE /\ z.mapInfo[n].nRefCount = 0
    <3> DEFINE e == m.mapInfo[n]
               f == [e EXCEPT !.nRefCount = 0]
    <3>1. e \in CAddrInfos /\ z.mapInfo[n] = [f EXCEPT !.fInTried = TRUE]
      BY <1>4, <1>16, <2>1
    <3> HIDE DEF e
    <3>2. /\ f \in CAddrInfos /\ f.service = e.service /\ f.nRandomPos = e.nRandomPos
          /\ f.nLastSuccess = e.nLastSuccess /\ f.nRefCount = 0
      BY <3>1 DEF CAddrInfos
    <3> HIDE DEF f
    <3>3. /\ z.mapInfo[n].service = f.service /\ z.mapInfo[n].nRandomPos = f.nRandomPos
          /\ z.mapInfo[n].nLastSuccess = f.nLastSuccess
          /\ z.mapInfo[n].fInTried = TRUE /\ z.mapInfo[n].nRefCount = f.nRefCount
      BY <3>1, <3>2 DEF CAddrInfos
    <3> QED BY <3>2, <3>3 DEF e
  <2>4. \A x \in DOMAIN m.mapInfo : x \notin {old} \cup {n} => z.mapInfo[x] = m.mapInfo[x]
    BY <1>1, <1>15, <1>16 DEF IsOut
  <2>5. \A x \in DOMAIN m.mapInfo : /\ z.mapInfo[x].service = m.mapInfo[x].service
                                    /\ z.mapInfo[x].nRandomPos = m.mapInfo[x].nRandomPos
    BY <2>2, <2>3, <2>4
  <2>6. z.mapAddr = m.mapAddr /\ z.vRandom = m.vRandom /\ z.nIdCount = m.nIdCount
    BY <1>1, <1>16 DEF IsOut
  <2>7. DOMAIN z.mapInfo = DOMAIN m.mapInfo
    BY <1>15, <1>16
  <2> QED BY <2>2, <2>3, <2>4, <2>5, <2>6, <2>7 DEF PromotedInfo
<1>18. PromotedTables(m, n, {old}, b, k, w, z)
  <2>1. \A a \in 1..NewBuckets : o.vvNew[a] = m.vvNew[a] \ {n}
    BY <1>1 DEF IsOut
  <2>2. o.vvTried = m.vvTried
    BY <1>1 DEF IsOut
  <2> QED BY <2>1, <2>2, <1>16, <1>14 DEF PromotedTables
<1>19. PromotedCounts(m, n, {old}, b, z)
  <2>1. o.nNew = m.nNew - 1 /\ o.nTried = m.nTried /\ m.nNew \in Nat
    BY <1>1, TablesFields DEF IsOut
  <2>2. z.nTried = m.nTried /\ z.nNew = m.nNew
    BY <2>1, <1>16
  <2>3. o.vvNew[b] = m.vvNew[b] \ {n}
    BY <1>1, <1>14 DEF IsOut
  <2> QED BY <2>2, <2>3, <1>10, <1>14 DEF PromotedCounts
<1>20. PromotedBucket(m, n, {old}, k, w)
  <2>1. Len(w) <= TriedBucketSize
    BY <1>11, Sizes
  <2> QED BY <2>1, <1>10, <1>11 DEF PromotedBucket
<1>21. Sound(z)
  BY <1>5, <1>14, <1>16, <1>17, <1>18, <1>19, <1>20, PromoteKeeps
<1> QED BY <1>16, <1>21 DEF z, o

\* MakeTried leaves sound tables.
LEMMA MakeTriedKeeps ==
    ASSUME NEW m \in Tables, Sound(m), NEW n \in DOMAIN m.mapInfo \ InTried(m),
           m.mapInfo[n].nLastSuccess > 0, NEW origin \in BucketsOf(m, n),
           NEW z \in MakeTried(m, n, origin)
    PROVE  z \in Tables /\ Sound(z)
<1> DEFINE k == TriedBucketOf(m, n)
           o == Out(m, n)
<1>1. k \in 1..TriedBuckets
  <2>1. m.mapInfo[n] \in CAddrInfos
    BY TablesFields
  <2> QED BY <2>1, InfoFields DEF TriedBucketOf
<1>2. Len(m.vvTried[k]) \in Nat /\ Len(m.vvTried[k]) <= TriedBucketSize
  <2>1. m.vvTried[k] \in Seq(Nat)
    BY <1>1, TablesFields
  <2>2. Len(m.vvTried[k]) <= TriedBucketSize
    BY <1>1 DEF Sound, TriedAgrees
  <2> QED BY <2>1, <2>2, LenProperties
<1>3. o.vvTried = m.vvTried
  BY OutIs DEF IsOut
<1>4. z \in IF Len(m.vvTried[k]) < TriedBucketSize
            THEN { [o EXCEPT !.vvTried[k] = Append(@, n), !.nTried = @ + 1, !.mapInfo[n].fInTried = TRUE] }
            ELSE { Evict(o, n, origin, k, sel) : sel \in SelectTried(o, o.vvTried[k]) }
  BY Zenon DEF MakeTried, Out, TriedBucketOf
<1>5. BucketsOf(m, n) # {}
  OBVIOUS
<1> HIDE DEF k
<1>6. CASE Len(m.vvTried[k]) < TriedBucketSize
  <2>1. z = [o EXCEPT !.vvTried[k] = Append(@, n), !.nTried = @ + 1, !.mapInfo[n].fInTried = TRUE]
    <3> DEFINE y == [o EXCEPT !.vvTried[k] = Append(@, n), !.nTried = @ + 1, !.mapInfo[n].fInTried = TRUE]
    <3> HIDE DEF o, y
    <3>1. z \in {y}
      BY <1>4, <1>6 DEF y
    <3> QED BY <3>1 DEF y
  <2>2. k = TriedBucketOf(m, n)
    BY DEF k
  <2> QED BY <2>1, <2>2, <1>5, <1>6, TriedAppendKeeps
<1>7. CASE ~(Len(m.vvTried[k]) < TriedBucketSize)
  <2>1. PICK sel \in SelectTried(o, m.vvTried[k]) : z = Evict(o, n, origin, k, sel)
    <3> HIDE DEF o
    <3> QED BY <1>3, <1>4, <1>7
  <2>2. k = TriedBucketOf(m, n) /\ Len(m.vvTried[k]) = TriedBucketSize
    BY <1>2, <1>7, Sizes DEF k
  <2> QED BY <2>1, <2>2, EvictKeeps
<1> QED BY <1>6, <1>7

\* Good_ leaves sound tables.
LEMMA GoodKeeps ==
    ASSUME NEW m \in Tables, Sound(m), NEW n \in DOMAIN m.mapInfo, NEW t \in Nat, t # 0, NEW z,
           IF m.mapInfo[n].fInTried \/ BucketsOf(m, n) = {}
           THEN z = [m EXCEPT !.mapInfo[n].nLastSuccess = t]
           ELSE \E origin \in BucketsOf(m, n) :
                  z \in MakeTried([m EXCEPT !.mapInfo[n].nLastSuccess = t], n, origin)
    PROVE  z \in Tables /\ Sound(z)
<1> DEFINE g == [m EXCEPT !.mapInfo[n].nLastSuccess = t]
<1>1. /\ g \in Tables /\ Sound(g) /\ DOMAIN g.mapInfo = DOMAIN m.mapInfo
      /\ g.mapInfo[n].nLastSuccess = t /\ InTried(g) = InTried(m)
      /\ \A x : BucketsOf(g, x) = BucketsOf(m, x)
  BY SuccessKeeps
<1>2. IF m.mapInfo[n].fInTried \/ BucketsOf(m, n) = {}
      THEN z = g
      ELSE \E origin \in BucketsOf(m, n) : z \in MakeTried(g, n, origin)
  OBVIOUS
<1> HIDE DEF g
<1>3. CASE m.mapInfo[n].fInTried \/ BucketsOf(m, n) = {}
  BY <1>1, <1>2, <1>3
<1>4. CASE ~(m.mapInfo[n].fInTried \/ BucketsOf(m, n) = {})
  <2>1. PICK origin \in BucketsOf(m, n) : z \in MakeTried(g, n, origin)
    BY <1>2, <1>4
  <2>2. n \in DOMAIN g.mapInfo \ InTried(g) /\ origin \in BucketsOf(g, n)
    BY <1>1, <1>4 DEF InTried
  <2>3. g.mapInfo[n].nLastSuccess > 0
    BY <1>1
  <2> QED BY <1>1, <2>1, <2>2, <2>3, MakeTriedKeeps
<1> QED BY <1>3, <1>4

-----------------------------------------------------------------------------
(* GetAddr_.                                                                *)

\* The swaps of GetAddr_.
Shuffle(m, N, p) ==
    LET shuffled[n \in 0 .. N] == IF n = 0 THEN m ELSE SwapRandom(shuffled[n - 1], n, p[n])
    IN  shuffled[N]

\* A swap leaves sound tables.
LEMMA SwapSound ==
    ASSUME NEW m \in Tables, Sound(m), NEW i \in 1..Len(m.vRandom), NEW j \in 1..Len(m.vRandom)
    PROVE  /\ SwapRandom(m, i, j) \in Tables /\ Sound(SwapRandom(m, i, j))
           /\ Len(SwapRandom(m, i, j).vRandom) = Len(m.vRandom)
<1> DEFINE s == SwapRandom(m, i, j)
<1>1. s \in Tables /\ RandomAgrees(s) /\ SamePlaces(m, s)
  BY SwapKeeps DEF Sound
<1> HIDE DEF s
<1>2. Len(s.vRandom) = Len(m.vRandom)
  BY <1>1 DEF SamePlaces
<1>3. Sound(s)
  BY <1>1, PlacesKeep DEF Sound
<1> QED BY <1>1, <1>2, <1>3 DEF s

\* All of them do.
LEMMA ShuffleKeeps ==
    ASSUME NEW m \in Tables, Sound(m), NEW N \in Nat, NEW p \in [1..N -> 1..Len(m.vRandom)],
           \A n \in 1..N : p[n] >= n
    PROVE  Shuffle(m, N, p) \in Tables /\ Sound(Shuffle(m, N, p))
<1> DEFINE l == Len(m.vRandom)
           U == { z \in Tables : Sound(z) /\ Len(z.vRandom) = l }
           Step(z, n) == SwapRandom(z, n, p[n])
           F == [q \in U \X Int |-> IF q[2] \in 1..N THEN Step(q[1], q[2]) ELSE q[1]]
           Is(g) == g = [n \in 0..N |-> IF n = 0 THEN m ELSE Step(g[n - 1], n)]
           at == CHOOSE g : Is(g)
<1>1. l \in Nat
  <2>1. m.vRandom \in Seq(Nat)
    BY TablesFields
  <2> QED BY <2>1, LenProperties
<1>2. \A n \in 1..N : n \in 1..l /\ p[n] \in 1..l
  <2>1. \A n \in 1..N : p[n] \in 1..l
    OBVIOUS
  <2> HIDE DEF l
  <2> QED BY <1>1, <2>1
<1>3. m \in U
  OBVIOUS
<1>4. ASSUME NEW z \in U, NEW n \in 1..N PROVE Step(z, n) \in U
  <2>1. z \in Tables /\ Sound(z) /\ Len(z.vRandom) = l
    OBVIOUS
  <2> HIDE DEF l
  <2>2. n \in 1..Len(z.vRandom) /\ p[n] \in 1..Len(z.vRandom)
    BY <1>2, <2>1
  <2> DEFINE j == p[n]
  <2> HIDE DEF j
  <2>3. j \in 1..Len(z.vRandom)
    BY <2>2 DEF j
  <2>4. /\ SwapRandom(z, n, j) \in Tables /\ Sound(SwapRandom(z, n, j))
        /\ Len(SwapRandom(z, n, j).vRandom) = l
    BY <2>1, <2>2, <2>3, SwapSound
  <2> QED BY <2>4 DEF j
<1> HIDE DEF l, U, Step
<1>5. LoopData(U, N, m, F)
  <2>1. F \in [U \X Int -> U]
    BY <1>4
  <2> HIDE DEF F
  <2> QED BY <1>3, <2>1 DEF LoopData
<1>6. PICK f \in [0..N -> U] : Loop(f, N, m, F)
  <2> HIDE DEF F
  <2> QED BY <1>5, LoopExists
<1>7. ASSUME NEW n \in 0..N PROVE f[n] = IF n = 0 THEN m ELSE Step(f[n - 1], n)
  <2>1. f[n] = IF n = 0 THEN m ELSE F[<<f[n - 1], n>>]
    BY <1>6 DEF Loop
  <2>2. n # 0 => n - 1 \in 0..N /\ n \in 1..N /\ n \in Int
    OBVIOUS
  <2> QED BY <2>1, <2>2, <1>6
<1>8. Is(f)
  BY <1>6, <1>7
<1>9. Is(at)
  <2> HIDE DEF Is
  <2> QED BY <1>8
<1>10. Shuffle(m, N, p) = at[N]
  BY DEF Shuffle, Step
<1>11. \A n \in 0..N : at[n] = IF n = 0 THEN m ELSE Step(at[n - 1], n)
  <2> HIDE DEF at
  <2> QED BY <1>9
<1> HIDE DEF at
<1> DEFINE S == { n \in 0..N : at[n] \in U }
<1>12. 0 \in S
  BY <1>3, <1>11
<1>13. ASSUME NEW n \in 1..N, n - 1 \in S PROVE n \in S
  <2>1. at[n] = Step(at[n - 1], n) /\ n \in 0..N
    BY <1>11
  <2> QED BY <2>1, <1>4, <1>13
<1>14. 0..N \subseteq S
  <2> HIDE DEF S
  <2> QED BY <1>12, <1>13, UpTo
<1>15. at[N] \in U
  BY <1>14
<1> QED BY <1>10, <1>15 DEF U

-----------------------------------------------------------------------------
(* peers.dat.                                                               *)

\* The entry that the j-th one read from peers.dat was.
Orig(m, j) == IF j < m.nNew THEN Nth(InNew(m), j + 1) ELSE Nth(InTried(m), j - m.nNew + 1)
Count(m) == m.nNew + m.nTried

\* The numbers of the entries in peers.dat are theirs alone, and each entry has one.
OrigType(m) ==
    \A j \in 0 .. Count(m) - 1 : /\ Orig(m, j) \in DOMAIN m.mapInfo
                                 /\ j < m.nNew => Orig(m, j) \in InNew(m)
                                 /\ ~(j < m.nNew) => Orig(m, j) \in InTried(m)
OrigOnce(m) == \A j, h \in 0 .. Count(m) - 1 : Orig(m, j) = Orig(m, h) => j = h
OrigAll(m) == \A n \in DOMAIN m.mapInfo : \E j \in 0 .. Count(m) - 1 : Orig(m, j) = n
OrigIndex(m) == /\ \A x \in InNew(m) : IndexOf(m, x) \in 0 .. m.nNew - 1 /\ Orig(m, IndexOf(m, x)) = x
                /\ \A j \in 0 .. m.nNew - 1 : Orig(m, j) \in InNew(m) /\ IndexOf(m, Orig(m, j)) = j

\* The order of the ids gives each entry its number.
LEMMA OrigIs ==
    ASSUME NEW m \in Tables, Sound(m)
    PROVE  /\ InNew(m) = DOMAIN m.mapInfo \ InTried(m) /\ m.nNew \in Nat /\ m.nTried \in Nat
           /\ OrigType(m) /\ OrigOnce(m) /\ OrigAll(m) /\ OrigIndex(m)
<1> DEFINE A == InNew(m)
           B == InTried(m)
           a == m.nNew
           b == m.nTried
<1>1. A = DOMAIN m.mapInfo \ B
  <2>1. \A n \in B : n \in DOMAIN m.mapInfo /\ m.mapInfo[n].nRefCount = 0
    BY DEF Sound, TriedAgrees, InTried
  <2>2. ASSUME NEW n \in DOMAIN m.mapInfo \ B PROVE m.mapInfo[n].nRefCount # 0
    <3>1. m.mapInfo[n].nRefCount \in 1..PerAddress
      BY DEF Sound, RefsAgree
    <3> QED BY <3>1, Sizes
  <2> HIDE DEF B
  <2> QED BY <2>1, <2>2 DEF InNew
<1>2. /\ IsFiniteSet(A) /\ IsFiniteSet(B) /\ Cardinality(A) = a /\ Cardinality(B) = b
      /\ A \subseteq Nat /\ B \subseteq Nat /\ B \subseteq DOMAIN m.mapInfo
  <2>1. IsFiniteSet(DOMAIN m.mapInfo \ B) /\ IsFiniteSet(B) /\ B \subseteq DOMAIN m.mapInfo
    BY BaseFinite DEF Sound
  <2>2. Cardinality(DOMAIN m.mapInfo \ B) = a /\ Cardinality(B) = b
    BY DEF Sound, CountsAgree
  <2>3. DOMAIN m.mapInfo \subseteq Nat
    BY TablesFields
  <2> HIDE DEF A, B, a, b
  <2> QED BY <1>1, <2>1, <2>2, <2>3
<1>3. a \in Nat /\ b \in Nat
  BY TablesFields
<1>4. /\ \A x, y \in A : Before(A, x) = Before(A, y) => x = y
      /\ \A x \in A : Before(A, x) \in 0..(a - 1)
      /\ \A i \in 1..a : Nth(A, i) \in A /\ Before(A, Nth(A, i)) = i - 1
  <2> HIDE DEF A, a
  <2> QED BY <1>2, NthIs
<1>5. /\ \A x, y \in B : Before(B, x) = Before(B, y) => x = y
      /\ \A x \in B : Before(B, x) \in 0..(b - 1)
      /\ \A i \in 1..b : Nth(B, i) \in B /\ Before(B, Nth(B, i)) = i - 1
  <2> HIDE DEF B, b
  <2> QED BY <1>2, NthIs
<1>6. \A j : Orig(m, j) = IF j < a THEN Nth(A, j + 1) ELSE Nth(B, j - a + 1)
  BY DEF Orig
<1>7. \A x : IndexOf(m, x) = Before(A, x)
  BY DEF IndexOf
<1>8. Count(m) = a + b
  BY DEF Count
<1> HIDE DEF A, B, a, b
<1>9. \A j \in 0 .. (a + b) - 1 : /\ j < a => j + 1 \in 1..a
                                /\ ~(j < a) => j - a + 1 \in 1..b
  BY <1>3
<1>10. \A j \in 0 .. (a + b) - 1 :
         /\ j < a => Orig(m, j) \in A /\ Before(A, Orig(m, j)) = j
         /\ ~(j < a) => Orig(m, j) \in B /\ Before(B, Orig(m, j)) = j - a
  <2> SUFFICES ASSUME NEW j \in 0 .. (a + b) - 1
               PROVE  /\ j < a => Orig(m, j) \in A /\ Before(A, Orig(m, j)) = j
                      /\ ~(j < a) => Orig(m, j) \in B /\ Before(B, Orig(m, j)) = j - a
    OBVIOUS
  <2>1. CASE j < a
    <3>0. j + 1 \in 1..a
      BY <2>1, <1>3
    <3>1. Orig(m, j) = Nth(A, j + 1) /\ j + 1 \in 1..a
      BY <2>1, <3>0, <1>6
    <3>2. Orig(m, j) \in A /\ Before(A, Orig(m, j)) = j + 1 - 1
      BY <3>1, <1>4
    <3>3. j + 1 - 1 = j
      OBVIOUS
    <3> QED BY <2>1, <3>2, <3>3
  <2>2. CASE ~(j < a)
    <3>1. Orig(m, j) = Nth(B, j - a + 1) /\ j - a + 1 \in 1..b
      BY <2>2, <1>6, <1>9
    <3> DEFINE i == j - a + 1
    <3>2. i - 1 = j - a
      BY <1>3
    <3>3. Orig(m, j) = Nth(B, i) /\ i \in 1..b
      BY <3>1
    <3> HIDE DEF i
    <3>4. Orig(m, j) \in B /\ Before(B, Orig(m, j)) = i - 1
      BY <3>3, <1>5
    <3> QED BY <2>2, <3>2, <3>4
  <2> QED BY <2>1, <2>2
<1>11. A \cap B = {} /\ A \cup B = DOMAIN m.mapInfo
  BY <1>1, <1>2
<1>12. OrigType(m)
  <2>1. ASSUME NEW j \in 0 .. Count(m) - 1
        PROVE  /\ Orig(m, j) \in DOMAIN m.mapInfo
               /\ j < m.nNew => Orig(m, j) \in InNew(m)
               /\ ~(j < m.nNew) => Orig(m, j) \in InTried(m)
    <3>1. j \in 0 .. (a + b) - 1
      BY <1>8
    <3>2. /\ Orig(m, j) \in DOMAIN m.mapInfo
          /\ j < a => Orig(m, j) \in A
          /\ ~(j < a) => Orig(m, j) \in B
      BY <3>1, <1>10, <1>11
    <3> QED BY <3>2 DEF A, B, a
  <2> QED BY <2>1 DEF OrigType
<1>13. OrigOnce(m)
  <2>1. ASSUME NEW j \in 0 .. (a + b) - 1, NEW h \in 0 .. (a + b) - 1, Orig(m, j) = Orig(m, h) PROVE j = h
    <3>1. CASE j < a /\ h < a
      BY <3>1, <2>1, <1>10
    <3>2. CASE ~(j < a) /\ ~(h < a)
      <4>1. j - a = h - a
        BY <3>2, <2>1, <1>10
      <4> QED BY <4>1, <1>3
    <3>3. CASE (j < a) # (h < a)
      BY <3>3, <2>1, <1>10, <1>11
    <3> QED BY <3>1, <3>2, <3>3
  <2>2. \A j, h \in 0 .. (a + b) - 1 : Orig(m, j) = Orig(m, h) => j = h
    BY <2>1
  <2> QED BY <2>2 DEF OrigOnce, Count, a, b
<1>14. ASSUME NEW x \in A PROVE /\ Before(A, x) \in 0 .. a - 1 /\ Before(A, x) \in 0 .. (a + b) - 1
                                /\ Orig(m, Before(A, x)) = x
  <2>1. Before(A, x) \in 0 .. a - 1
    BY <1>4
  <2>2. Before(A, x) \in 0 .. (a + b) - 1 /\ Before(A, x) < a
    BY <2>1, <1>3
  <2>3. Orig(m, Before(A, x)) \in A /\ Before(A, Orig(m, Before(A, x))) = Before(A, x)
    BY <2>2, <1>10
  <2> QED BY <2>1, <2>2, <2>3, <1>4
<1>15. ASSUME NEW x \in B PROVE Before(B, x) + a \in 0 .. (a + b) - 1 /\ Orig(m, Before(B, x) + a) = x
  <2>1. Before(B, x) \in 0 .. b - 1
    BY <1>5
  <2>2. Before(B, x) + a \in 0 .. (a + b) - 1 /\ ~(Before(B, x) + a < a) /\ (Before(B, x) + a) - a = Before(B, x)
    BY <2>1, <1>3
  <2> DEFINE j == Before(B, x) + a
  <2>3. j \in 0 .. (a + b) - 1 /\ ~(j < a) /\ j - a = Before(B, x)
    BY <2>2
  <2> HIDE DEF j
  <2>4. Orig(m, j) \in B /\ Before(B, Orig(m, j)) = Before(B, x)
    BY <2>3, <1>10
  <2>5. Orig(m, j) = x
    BY <2>4, <1>5
  <2> QED BY <2>3, <2>5 DEF j
<1>16. OrigAll(m)
  <2>1. ASSUME NEW n \in A \cup B PROVE \E j \in 0 .. (a + b) - 1 : Orig(m, j) = n
    <3>1. CASE n \in A
      BY <3>1, <1>14
    <3>2. CASE n \in B
      BY <3>2, <1>15
    <3> QED BY <3>1, <3>2
  <2> QED BY <2>1, <1>11 DEF OrigAll, Count, a, b
<1>17. OrigIndex(m)
  <2>1. \A j \in 0 .. a - 1 : Orig(m, j) \in A /\ Before(A, Orig(m, j)) = j
    <3>1. \A j \in 0 .. a - 1 : j \in 0 .. (a + b) - 1 /\ j < a
      BY <1>3
    <3> QED BY <3>1, <1>10
  <2> QED BY <2>1, <1>7, <1>14 DEF OrigIndex, A, a
<1> QED BY <1>1, <1>3, <1>12, <1>13, <1>16, <1>17 DEF A, B, a, b

\* Positions of one bucket that name different positions of another are not more.
LEMMA Pigeons ==
    ASSUME NEW l \in Nat, NEW h \in Nat, NEW g \in [1..l -> 1..h],
           \A i, j \in 1..l : g[i] = g[j] => i = j
    PROVE  l <= h
<1>1. IsFiniteSet(1..l) /\ IsFiniteSet(1..h) /\ Cardinality(1..l) = l /\ Cardinality(1..h) = h
  BY FS_Interval
<1>2. g \in Injection(1..l, 1..h)
  BY DEF Injection, IsInjective
<1>3. Cardinality(1..l) <= Cardinality(1..h)
  BY <1>1, <1>2, FS_Injection
<1> QED BY <1>1, <1>3

\* What peers.dat has of an entry.
SavedInfos == [service : Service, source : Source, nLastSuccess : Nat]
Restored(r, e, tried) ==
    [CAddrInfo(e.service, e.source, Len(r.vRandom) + 1) EXCEPT !.nLastSuccess = e.nLastSuccess,
                                                               !.fInTried = tried]

\* Restore makes an entry of it, with the next id.
IsRestored(r, e, tried, i, z) ==
    /\ z \in Tables /\ i \in CAddrInfos /\ Inserted(r, i, z)
    /\ z.nTried = r.nTried /\ z.vvTried = r.vvTried /\ z.nNew = r.nNew
    /\ i.service = e.service /\ i.source = e.source /\ i.nLastSuccess = e.nLastSuccess
    /\ i.fInTried = tried /\ i.nRefCount = 0

\* It does.
LEMMA RestoreIs ==
    ASSUME NEW r \in Tables, r.nIdCount \notin DOMAIN r.mapInfo, NEW e \in SavedInfos,
           NEW tried \in BOOLEAN
    PROVE  IsRestored(r, e, tried, Restored(r, e, tried), Restore(r, e, tried))
<1> DEFINE k == r.nIdCount
           c == Create(r, e.service, e.source)
           j == CAddrInfo(e.service, e.source, Len(r.vRandom) + 1)
           t == e.nLastSuccess
           i1 == [j EXCEPT !.nLastSuccess = t]
           i == [i1 EXCEPT !.fInTried = tried]
           one == [c EXCEPT !.mapInfo[k].nLastSuccess = t]
           z == [one EXCEPT !.mapInfo[k].fInTried = tried]
<1>0. Restored(r, e, tried) = i
  <2> HIDE DEF j, t
  <2> QED BY DEF Restored, j, t
<1>1. Restore(r, e, tried) = z
  <2> HIDE DEF c
  <2> QED BY DEF Restore, c
<1>2. e.service \in Service /\ e.source \in Source /\ t \in Nat
  BY DEF SavedInfos
<1>3. /\ c \in Tables /\ j \in CAddrInfos /\ Inserted(r, j, c)
      /\ c.nTried = r.nTried /\ c.vvTried = r.vvTried /\ c.nNew = r.nNew
  BY <1>2, CreateInserts
<1>4. j.service = e.service /\ j.source = e.source /\ j.nRefCount = 0 /\ j.nRandomPos = Len(r.vRandom) + 1
  BY DEF CAddrInfo
<1> HIDE DEF c, j, t
<1>5. /\ i1 \in CAddrInfos /\ i1.service = j.service /\ i1.source = j.source /\ i1.nRefCount = j.nRefCount
      /\ i1.nRandomPos = j.nRandomPos /\ i1.nLastSuccess = t
  BY <1>2, <1>3 DEF CAddrInfos
<1> HIDE DEF i1
<1>6. /\ i \in CAddrInfos /\ i.service = j.service /\ i.source = j.source /\ i.nRefCount = j.nRefCount
      /\ i.nRandomPos = j.nRandomPos /\ i.nLastSuccess = t /\ i.fInTried = tried
  BY <1>5 DEF CAddrInfos
<1>7. k \in DOMAIN c.mapInfo /\ c.mapInfo[k] = j /\ c.mapInfo \in Infos
  BY <1>3, TablesFields DEF Inserted
<1> DEFINE f1 == [c.mapInfo EXCEPT ![k] = i1]
<1>8. one = [c EXCEPT !.mapInfo = f1]
  BY <1>3, <1>7 DEF Tables, i1
<1>9. /\ f1 \in Infos /\ DOMAIN f1 = DOMAIN c.mapInfo /\ f1[k] = i1
      /\ \A x \in DOMAIN c.mapInfo \ {k} : f1[x] = c.mapInfo[x]
  BY <1>5, <1>7, InfoUpdate
<1> HIDE DEF f1, one
<1>10. /\ one \in Tables /\ one.mapInfo = f1 /\ one.mapAddr = c.mapAddr /\ one.vRandom = c.vRandom
       /\ one.nIdCount = c.nIdCount /\ one.nTried = c.nTried /\ one.vvTried = c.vvTried
       /\ one.nNew = c.nNew /\ one.vvNew = c.vvNew
  BY <1>3, <1>8, <1>9 DEF Tables
<1> DEFINE f2 == [f1 EXCEPT ![k] = i]
<1>11. z = [one EXCEPT !.mapInfo = f2]
  BY <1>9, <1>10 DEF Tables
<1> HIDE DEF i
<1>12. /\ f2 \in Infos /\ DOMAIN f2 = DOMAIN f1 /\ f2[k] = i
       /\ \A x \in DOMAIN f1 \ {k} : f2[x] = f1[x]
  <2>1. k \in DOMAIN f1 /\ f1 \in Infos /\ i \in CAddrInfos
    BY <1>6, <1>7, <1>9
  <2> QED BY <2>1, InfoUpdate
<1> HIDE DEF f2, z
<1>13. /\ z \in Tables /\ z.mapInfo = f2 /\ z.mapAddr = one.mapAddr /\ z.vRandom = one.vRandom
       /\ z.nIdCount = one.nIdCount /\ z.nTried = one.nTried /\ z.vvTried = one.vvTried
       /\ z.nNew = one.nNew /\ z.vvNew = one.vvNew
  BY <1>10, <1>11, <1>12 DEF Tables
<1>14. /\ DOMAIN z.mapInfo = DOMAIN c.mapInfo /\ z.mapInfo[k] = i
       /\ \A x \in DOMAIN c.mapInfo \ {k} : z.mapInfo[x] = c.mapInfo[x]
  BY <1>9, <1>12, <1>13
<1>15. Inserted(r, i, z)
  <2>1. \A x \in DOMAIN r.mapInfo : x \in DOMAIN c.mapInfo \ {k}
    BY <1>3 DEF Inserted
  <2>2. \A x \in DOMAIN r.mapInfo : z.mapInfo[x] = r.mapInfo[x]
    BY <2>1, <1>3, <1>14 DEF Inserted
  <2>3. i.service.ip = j.service.ip /\ i.nRandomPos = j.nRandomPos
    BY <1>6
  <2>4. z.mapAddr = c.mapAddr /\ z.vRandom = c.vRandom /\ z.nIdCount = c.nIdCount /\ z.vvNew = c.vvNew
    BY <1>10, <1>13
  <2> QED BY <2>2, <2>3, <2>4, <1>3, <1>14 DEF Inserted
<1>16. IsRestored(r, e, tried, i, z)
  BY <1>3, <1>4, <1>6, <1>10, <1>13, <1>15 DEF IsRestored, t
<1> QED BY <1>0, <1>1, <1>16

\* r has the first i entries of the peers.dat of m, and no bucket of new ones yet.
LoadedInfo(m, j, e) ==
    /\ e.service = m.mapInfo[Orig(m, j)].service /\ e.source = m.mapInfo[Orig(m, j)].source
    /\ e.nLastSuccess = m.mapInfo[Orig(m, j)].nLastSuccess
    /\ e.fInTried = m.mapInfo[Orig(m, j)].fInTried
Loaded(m, i, r) ==
    /\ r \in Tables /\ Base(r) /\ r.nIdCount = i /\ DOMAIN r.mapInfo = 0 .. i - 1
    /\ \A j \in 0 .. i - 1 : LoadedInfo(m, j, r.mapInfo[j])
    /\ \A b \in 1..NewBuckets : r.vvNew[b] = {}

\* An entry as peers.dat has it.
LEMMA SavedType ==
    ASSUME NEW m \in Tables, NEW n \in DOMAIN m.mapInfo
    PROVE  /\ Saved(m, n) \in SavedInfos /\ Saved(m, n).service = m.mapInfo[n].service
           /\ Saved(m, n).source = m.mapInfo[n].source
           /\ Saved(m, n).nLastSuccess = m.mapInfo[n].nLastSuccess
<1>1. m.mapInfo[n] \in CAddrInfos
  BY TablesFields
<1> QED BY <1>1, InfoFields DEF Saved, SavedInfos

\* No entry loaded has the address of the next one.
LEMMA LoadedFresh ==
    ASSUME NEW m \in Tables, Sound(m), NEW i \in 0 .. Count(m) - 1, NEW r, Loaded(m, i, r)
    PROVE  /\ i \notin DOMAIN r.mapInfo /\ Orig(m, i) \in DOMAIN m.mapInfo
           /\ IsFresh(r, m.mapInfo[Orig(m, i)].service.ip)
<1>1. OrigType(m) /\ OrigOnce(m) /\ m.nNew \in Nat /\ m.nTried \in Nat
  BY OrigIs
<1>2. Count(m) \in Nat
  BY <1>1 DEF Count
<1>3. DOMAIN r.mapInfo = 0 .. i - 1
  BY DEF Loaded
<1>4. i \notin 0 .. i - 1 /\ \A j \in 0 .. i - 1 : j \in 0 .. Count(m) - 1 /\ j # i
  BY <1>2
<1>5. Orig(m, i) \in DOMAIN m.mapInfo
  BY <1>1 DEF OrigType
<1>6. ASSUME NEW j \in 0 .. i - 1 PROVE r.mapInfo[j].service.ip # m.mapInfo[Orig(m, i)].service.ip
  <2>1. Orig(m, j) \in DOMAIN m.mapInfo /\ Orig(m, j) # Orig(m, i)
    BY <1>1, <1>4 DEF OrigType, OrigOnce
  <2>2. r.mapInfo[j].service = m.mapInfo[Orig(m, j)].service
    BY DEF Loaded, LoadedInfo
  <2>3. /\ m.mapAddr[m.mapInfo[Orig(m, j)].service.ip] = Orig(m, j)
        /\ m.mapAddr[m.mapInfo[Orig(m, i)].service.ip] = Orig(m, i)
    BY <2>1, <1>5 DEF Sound, AddrAgrees
  <2> QED BY <2>1, <2>2, <2>3
<1> QED BY <1>3, <1>4, <1>5, <1>6 DEF IsFresh

\* The next entry is inserted.
LEMMA LoadedNext ==
    ASSUME NEW m, NEW i \in Nat, NEW r, Loaded(m, i, r), NEW e, NEW z \in Tables, Base(z),
           Inserted(r, e, z), LoadedInfo(m, i, e)
    PROVE  Loaded(m, i + 1, z)
<1>1. r.nIdCount = i /\ DOMAIN r.mapInfo = 0 .. i - 1
  BY DEF Loaded
<1>2. /\ DOMAIN z.mapInfo = (0 .. i - 1) \cup {i} /\ z.nIdCount = i + 1 /\ z.mapInfo[i] = e
      /\ \A j \in 0 .. i - 1 : z.mapInfo[j] = r.mapInfo[j]
      /\ z.vvNew = r.vvNew
  BY <1>1 DEF Inserted
<1>3. (0 .. i - 1) \cup {i} = 0 .. (i + 1) - 1
  OBVIOUS
<1>4. ASSUME NEW j \in 0 .. (i + 1) - 1 PROVE LoadedInfo(m, j, z.mapInfo[j])
  <2>1. CASE j = i
    BY <2>1, <1>2
  <2>2. CASE j # i
    <3>1. j \in 0 .. i - 1
      BY <2>2
    <3> QED BY <3>1, <1>2 DEF Loaded
  <2> QED BY <2>1, <2>2
<1>5. \A b \in 1..NewBuckets : z.vvNew[b] = {}
  BY <1>2 DEF Loaded
<1>6. DOMAIN z.mapInfo = 0 .. (i + 1) - 1
  BY <1>2, <1>3
<1> QED BY <1>2, <1>4, <1>5, <1>6 DEF Loaded

\* A new entry is read.
LEMMA LoadNew ==
    ASSUME NEW m \in Tables, Sound(m), NEW i \in 0 .. m.nNew - 1, NEW r, Loaded(m, i, r)
    PROVE  Loaded(m, i + 1, RestoreNew(r, Saved(m, Orig(m, i))))
<1> DEFINE n == Orig(m, i)
           e == Saved(m, n)
           d == Restored(r, e, FALSE)
           c == Restore(r, e, FALSE)
           z == RestoreNew(r, e)
<1>1. m.nNew \in Nat /\ m.nTried \in Nat /\ OrigIndex(m) /\ InNew(m) = DOMAIN m.mapInfo \ InTried(m)
  BY OrigIs
<1>2. i \in Nat /\ i \in 0 .. Count(m) - 1
  BY <1>1 DEF Count
<1>3. i \notin DOMAIN r.mapInfo /\ n \in DOMAIN m.mapInfo /\ IsFresh(r, m.mapInfo[n].service.ip)
  BY <1>2, LoadedFresh
<1>4. ~m.mapInfo[n].fInTried /\ m.mapInfo[n].fInTried \in BOOLEAN
  <2>1. n \in InNew(m)
    BY <1>1 DEF OrigIndex
  <2>2. ~m.mapInfo[n].fInTried
    BY <2>1, <1>1, <1>3 DEF InTried
  <2>3. m.mapInfo[n] \in CAddrInfos
    BY <1>3, TablesFields
  <2> QED BY <2>2, <2>3, InfoFields
<1> HIDE DEF n
<1>5. /\ e \in SavedInfos /\ e.service = m.mapInfo[n].service /\ e.source = m.mapInfo[n].source
      /\ e.nLastSuccess = m.mapInfo[n].nLastSuccess
  BY <1>3, SavedType
<1>6. r \in Tables /\ Base(r) /\ r.nIdCount = i
  BY DEF Loaded
<1>7. z = [c EXCEPT !.nNew = @ + 1]
  BY DEF RestoreNew
<1> HIDE DEF e, z
<1>8. IsRestored(r, e, FALSE, d, c)
  BY <1>3, <1>5, <1>6, RestoreIs
<1> HIDE DEF c, d
<1>9. /\ c \in Tables /\ d \in CAddrInfos /\ Inserted(r, d, c)
      /\ c.nTried = r.nTried /\ c.vvTried = r.vvTried /\ c.nNew = r.nNew
      /\ d.service = e.service /\ d.source = e.source /\ d.nLastSuccess = e.nLastSuccess
      /\ d.fInTried = FALSE /\ d.nRefCount = 0
  BY <1>8 DEF IsRestored
<1>10. /\ z \in Tables /\ z.mapInfo = c.mapInfo /\ z.mapAddr = c.mapAddr /\ z.vRandom = c.vRandom
       /\ z.nIdCount = c.nIdCount /\ z.nTried = c.nTried /\ z.vvTried = c.vvTried
       /\ z.nNew = c.nNew + 1 /\ z.vvNew = c.vvNew
  <2> DEFINE h == c.nNew + 1
  <2>1. h \in Nat
    BY <1>9, TablesFields
  <2>2. z = [c EXCEPT !.nNew = h]
    BY <1>7
  <2> HIDE DEF h
  <2>3. /\ z \in Tables /\ z.mapInfo = c.mapInfo /\ z.mapAddr = c.mapAddr /\ z.vRandom = c.vRandom
        /\ z.nIdCount = c.nIdCount /\ z.nTried = c.nTried /\ z.vvTried = c.vvTried
        /\ z.nNew = h /\ z.vvNew = c.vvNew
    BY <1>9, <2>1, <2>2 DEF Tables
  <2> QED BY <2>3 DEF h
<1>11. Inserted(r, d, z)
  BY <1>9, <1>10 DEF Inserted
<1>12. InsertedNew(r, d, z)
  BY <1>9, <1>10 DEF InsertedNew
<1>13. IsFresh(r, d.service.ip)
  BY <1>3, <1>5, <1>9
<1>14. Base(z)
  BY <1>6, <1>11, <1>12, <1>13, InsertNew
<1>15. LoadedInfo(m, i, d)
  <2>1. d.fInTried = m.mapInfo[n].fInTried
    BY <1>4, <1>9
  <2> QED BY <2>1, <1>5, <1>9 DEF LoadedInfo, n
<1>16. Loaded(m, i + 1, z)
  BY <1>2, <1>10, <1>11, <1>14, <1>15, LoadedNext
<1> QED BY <1>16 DEF z, e, n

\* The tried bucket of the next entry has room: it held that entry, too, when peers.dat
\* was written.
LEMMA LoadedRoom ==
    ASSUME NEW m \in Tables, Sound(m), NEW i \in 0 .. Count(m) - 1, Orig(m, i) \in InTried(m),
           NEW r, Loaded(m, i, r), NEW k, k = TriedBucketOf(m, Orig(m, i))
    PROVE  k \in 1..TriedBuckets /\ Len(r.vvTried[k]) < TriedBucketSize
<1> DEFINE v == m.vvTried[k]
           u == r.vvTried[k]
           l == Len(u)
           h == Len(v)
           X(p) == IF p = l + 1 THEN i ELSE u[p]
           g == [p \in 1..(l + 1) |-> CHOOSE q \in 1..h : v[q] = Orig(m, X(p))]
<1>1. OrigType(m) /\ OrigOnce(m) /\ Count(m) \in Nat
  <2>1. OrigType(m) /\ OrigOnce(m) /\ m.nNew \in Nat /\ m.nTried \in Nat
    BY OrigIs
  <2> QED BY <2>1 DEF Count
<1>2. r \in Tables /\ TriedAgrees(r) /\ DOMAIN r.mapInfo = 0 .. i - 1
  BY DEF Loaded, Base
<1>3. k \in 1..TriedBuckets
  <2>1. m.mapInfo[Orig(m, i)] \in CAddrInfos
    BY TablesFields DEF InTried
  <2> QED BY <2>1, InfoFields DEF TriedBucketOf
<1>4. v \in Seq(Nat) /\ u \in Seq(Nat) /\ l \in Nat /\ h \in Nat
  <2>1. m.vvTried \in [1..TriedBuckets -> Seq(Nat)] /\ r.vvTried \in [1..TriedBuckets -> Seq(Nat)]
    BY <1>2, TablesFields
  <2>2. v \in Seq(Nat) /\ u \in Seq(Nat)
    BY <2>1, <1>3
  <2> HIDE DEF v, u
  <2> QED BY <2>2, LenProperties
<1>5. IsBucket(m, InTried(m), k, v) /\ h <= TriedBucketSize /\ IsBucket(r, InTried(r), k, u)
  BY <1>2, <1>3, TriedIs DEF Sound
<1> HIDE DEF v, u, l, h
<1>6. /\ \A p \in 1..l : u[p] \in InTried(r) /\ TriedBucketOf(r, u[p]) = k
      /\ \A p, q \in 1..l : u[p] = u[q] => p = q
      /\ \A x \in InTried(m) : TriedBucketOf(m, x) = k => \E q \in 1..h : v[q] = x
  BY <1>5 DEF IsBucket, l, h
<1>7. ASSUME NEW p \in 1..l
      PROVE  /\ u[p] \in 0 .. i - 1 /\ u[p] \in 0 .. Count(m) - 1 /\ u[p] # i
             /\ Orig(m, u[p]) \in InTried(m) /\ TriedBucketOf(m, Orig(m, u[p])) = k
  <2> DEFINE j == u[p]
  <2>1. j \in InTried(r) /\ TriedBucketOf(r, j) = k
    BY <1>6
  <2> HIDE DEF j
  <2>2. j \in 0 .. i - 1 /\ r.mapInfo[j].fInTried
    BY <2>1, <1>2 DEF InTried
  <2>3. j \in 0 .. Count(m) - 1 /\ j # i
    BY <2>2, <1>1
  <2>4. LoadedInfo(m, j, r.mapInfo[j])
    BY <2>2 DEF Loaded
  <2>5. Orig(m, j) \in DOMAIN m.mapInfo
    BY <2>3, <1>1 DEF OrigType
  <2>6. Orig(m, j) \in InTried(m)
    BY <2>2, <2>4, <2>5 DEF LoadedInfo, InTried
  <2>7. TriedBucketOf(m, Orig(m, j)) = k
    BY <2>1, <2>4 DEF TriedBucketOf, LoadedInfo
  <2> QED BY <2>2, <2>3, <2>6, <2>7 DEF j
<1>8. \A p \in 1..(l + 1) : p # l + 1 => p \in 1..l
  BY <1>4
<1>9. ASSUME NEW p \in 1..(l + 1)
      PROVE  /\ X(p) \in 0 .. Count(m) - 1
             /\ Orig(m, X(p)) \in InTried(m) /\ TriedBucketOf(m, Orig(m, X(p))) = k
  <2>1. CASE p = l + 1
    BY <2>1
  <2>2. CASE p # l + 1
    BY <2>2, <1>7, <1>8
  <2> QED BY <2>1, <2>2
<1>10. \A p, q \in 1..(l + 1) : X(p) = X(q) => p = q
  BY <1>6, <1>7, <1>8
<1> HIDE DEF X
<1>11. ASSUME NEW p \in 1..(l + 1) PROVE g[p] \in 1..h /\ v[g[p]] = Orig(m, X(p))
  <2>1. \E q \in 1..h : v[q] = Orig(m, X(p))
    BY <1>6, <1>9
  <2> QED BY <2>1
<1>12. g \in [1..(l + 1) -> 1..h]
  <2>1. \A p \in 1..(l + 1) : g[p] \in 1..h
    BY <1>11
  <2>2. g = [p \in 1..(l + 1) |-> g[p]]
    OBVIOUS
  <2> HIDE DEF g
  <2> QED BY <2>1, <2>2
<1> HIDE DEF g
<1>13. \A p, q \in 1..(l + 1) : g[p] = g[q] => p = q
  <2> SUFFICES ASSUME NEW p \in 1..(l + 1), NEW q \in 1..(l + 1), g[p] = g[q] PROVE p = q
    OBVIOUS
  <2>1. Orig(m, X(p)) = Orig(m, X(q))
    BY <1>11
  <2>2. X(p) = X(q)
    BY <2>1, <1>1, <1>9 DEF OrigOnce
  <2> QED BY <2>2, <1>10
<1>14. l + 1 <= h
  <2> DEFINE a == l + 1
  <2>1. a \in Nat
    BY <1>4
  <2>2. g \in [1..a -> 1..h] /\ \A p, q \in 1..a : g[p] = g[q] => p = q
    BY <1>12, <1>13
  <2> HIDE DEF a
  <2>3. a <= h
    BY <2>1, <2>2, <1>4, Pigeons
  <2> QED BY <2>3 DEF a
<1>15. l < TriedBucketSize
  BY <1>4, <1>5, <1>14, Sizes
<1> QED BY <1>3, <1>15 DEF l, u

\* A tried entry is read.
LEMMA LoadTried ==
    ASSUME NEW m \in Tables, Sound(m), NEW i \in 0 .. Count(m) - 1, ~(i < m.nNew),
           NEW r, Loaded(m, i, r)
    PROVE  Loaded(m, i + 1, RestoreTried(r, Saved(m, Orig(m, i))))
<1> DEFINE n == Orig(m, i)
           e == Saved(m, n)
           d == Restored(r, e, TRUE)
           c == Restore(r, e, TRUE)
           k == GetTriedBucket[e.service.ip]
           z == RestoreTried(r, e)
<1>1. OrigType(m)
  BY OrigIs
<1>2. n \in InTried(m)
  BY <1>1 DEF OrigType
<1>3. i \notin DOMAIN r.mapInfo /\ n \in DOMAIN m.mapInfo /\ IsFresh(r, m.mapInfo[n].service.ip)
  BY LoadedFresh
<1>4. m.mapInfo[n].fInTried /\ m.mapInfo[n].fInTried \in BOOLEAN /\ m.mapInfo[n].nLastSuccess > 0
  <2>1. m.mapInfo[n] \in CAddrInfos
    BY <1>3, TablesFields
  <2>2. m.mapInfo[n].nLastSuccess > 0
    BY <1>2 DEF Sound, TriedAgrees
  <2> QED BY <2>1, <2>2, <1>2, InfoFields DEF InTried
<1>5. /\ e \in SavedInfos /\ e.service = m.mapInfo[n].service /\ e.source = m.mapInfo[n].source
      /\ e.nLastSuccess = m.mapInfo[n].nLastSuccess
  BY <1>3, SavedType
<1>6. r \in Tables /\ Base(r) /\ r.nIdCount = i
  BY DEF Loaded
<1> HIDE DEF e
<1>7. k = TriedBucketOf(m, n)
  BY <1>5 DEF TriedBucketOf
<1> HIDE DEF k
<1>8. k \in 1..TriedBuckets /\ Len(r.vvTried[k]) < TriedBucketSize
  BY <1>2, <1>7, LoadedRoom
<1> HIDE DEF n
<1>9. z = [c EXCEPT !.vvTried[k] = Append(@, i), !.nTried = @ + 1]
  <2>1. z = IF Len(r.vvTried[k]) < TriedBucketSize
            THEN [c EXCEPT !.vvTried[k] = Append(@, r.nIdCount), !.nTried = @ + 1] ELSE r
    BY Zenon DEF RestoreTried, k
  <2> HIDE DEF z, c
  <2> QED BY <2>1, <1>6, <1>8
<1> HIDE DEF z
<1>10. IsRestored(r, e, TRUE, d, c)
  BY <1>3, <1>5, <1>6, RestoreIs
<1> HIDE DEF c, d
<1>11. /\ c \in Tables /\ d \in CAddrInfos /\ Inserted(r, d, c)
       /\ c.nTried = r.nTried /\ c.vvTried = r.vvTried /\ c.nNew = r.nNew
       /\ d.service = e.service /\ d.source = e.source /\ d.nLastSuccess = e.nLastSuccess
       /\ d.fInTried = TRUE /\ d.nRefCount = 0
  BY <1>10 DEF IsRestored
<1>12. /\ z \in Tables /\ z.mapInfo = c.mapInfo /\ z.mapAddr = c.mapAddr /\ z.vRandom = c.vRandom
       /\ z.nIdCount = c.nIdCount /\ z.nTried = c.nTried + 1
       /\ z.vvTried = [c.vvTried EXCEPT ![k] = Append(@, i)]
       /\ z.nNew = c.nNew /\ z.vvNew = c.vvNew
  <2> DEFINE h == c.nTried + 1
             vv == [c.vvTried EXCEPT ![k] = Append(@, i)]
  <2>1. h \in Nat
    BY <1>11, TablesFields
  <2>2. z = [c EXCEPT !.vvTried = vv, !.nTried = h]
    BY <1>9, <1>11 DEF Tables
  <2>3. vv \in [1..TriedBuckets -> Seq(Nat)]
    <3>0. c.vvTried \in [1..TriedBuckets -> Seq(Nat)]
      BY <1>11, TablesFields
    <3>1. c.vvTried \in [1..TriedBuckets -> Seq(Nat)] /\ c.vvTried[k] \in Seq(Nat) /\ i \in Nat
      <4>1. c.vvTried[k] \in Seq(Nat)
        BY <1>8, <3>0
      <4>2. i \in Nat
        OBVIOUS
      <4> QED BY <3>0, <4>1, <4>2
    <3>2. Append(c.vvTried[k], i) \in Seq(Nat)
      BY <3>1, AppendProperties
    <3> QED BY <3>1, <3>2, <1>8
  <2> HIDE DEF h, vv
  <2>4. /\ z \in Tables /\ z.mapInfo = c.mapInfo /\ z.mapAddr = c.mapAddr /\ z.vRandom = c.vRandom
        /\ z.nIdCount = c.nIdCount /\ z.nTried = h /\ z.vvTried = vv
        /\ z.nNew = c.nNew /\ z.vvNew = c.vvNew
    BY <1>11, <2>1, <2>2, <2>3 DEF Tables
  <2> QED BY <2>4 DEF h, vv
<1>13. Inserted(r, d, z)
  BY <1>11, <1>12 DEF Inserted
<1>14. InsertedTried(r, d, z, k)
  <2>1. d.fInTried /\ d.nLastSuccess > 0 /\ d.nRefCount = 0
    BY <1>4, <1>5, <1>11
  <2>2. k = GetTriedBucket[d.service.ip] /\ Len(r.vvTried[k]) < TriedBucketSize
    BY <1>8, <1>11 DEF k
  <2>3. z.vvTried = [r.vvTried EXCEPT ![k] = Append(@, r.nIdCount)]
    BY <1>6, <1>11, <1>12
  <2>4. z.nTried = r.nTried + 1 /\ z.nNew = r.nNew
    BY <1>11, <1>12
  <2> QED BY <2>1, <2>2, <2>3, <2>4 DEF InsertedTried
<1>15. IsFresh(r, d.service.ip)
  BY <1>3, <1>5, <1>11
<1>16. Base(z)
  BY <1>6, <1>8, <1>13, <1>14, <1>15, InsertTried
<1>17. LoadedInfo(m, i, d)
  <2>1. d.fInTried = m.mapInfo[n].fInTried
    BY <1>4, <1>11
  <2> QED BY <2>1, <1>5, <1>11 DEF LoadedInfo, n
<1>18. Loaded(m, i + 1, z)
  BY <1>12, <1>13, <1>16, <1>17, LoadedNext
<1> QED BY <1>18 DEF z, e, n

\* The empty tables are sound.
LEMMA EmptySound == /\ Empty \in Tables /\ Sound(Empty) /\ DOMAIN Empty.mapInfo = {}
                    /\ Empty.nIdCount = 0 /\ \A b \in 1..NewBuckets : Empty.vvNew[b] = {}
<1>1. /\ Empty.mapInfo = <<>> /\ Empty.mapAddr = <<>> /\ Empty.vRandom = <<>> /\ Empty.nIdCount = 0
      /\ Empty.nTried = 0 /\ Empty.vvTried = [k \in 1 .. TriedBuckets |-> <<>>]
      /\ Empty.nNew = 0 /\ Empty.vvNew = [b \in 1 .. NewBuckets |-> {}]
  BY DEF Empty
<1>2. DOMAIN Empty.mapInfo = {} /\ DOMAIN Empty.mapAddr = {} /\ Len(Empty.vRandom) = 0
  BY <1>1
<1>3. Empty.mapInfo \in Infos
  <2>1. <<>> \in [{} -> CAddrInfos]
    OBVIOUS
  <2> QED BY <1>1, <2>1 DEF Infos
<1>4. Empty.mapAddr \in Addrs
  <2>1. <<>> \in [{} -> Nat]
    OBVIOUS
  <2> QED BY <1>1, <2>1 DEF Addrs
<1>5. Empty.vRandom \in Seq(Nat) /\ Empty.vvTried \in [1 .. TriedBuckets -> Seq(Nat)]
      /\ Empty.vvNew \in [1 .. NewBuckets -> SUBSET Nat]
  <2>1. <<>> \in Seq(Nat)
    OBVIOUS
  <2>2. [k \in 1 .. TriedBuckets |-> <<>>] \in [1 .. TriedBuckets -> Seq(Nat)]
    <3> DEFINE none == <<>>
    <3> HIDE DEF none
    <3>1. none \in Seq(Nat)
      BY <2>1 DEF none
    <3>2. [k \in 1 .. TriedBuckets |-> none] \in [1 .. TriedBuckets -> Seq(Nat)]
      BY <3>1
    <3> QED BY <3>2 DEF none
  <2>3. [b \in 1 .. NewBuckets |-> {}] \in [1 .. NewBuckets -> SUBSET Nat]
    OBVIOUS
  <2>4. Empty.vvTried \in [1 .. TriedBuckets -> Seq(Nat)]
    BY <1>1, <2>2, Zenon
  <2>5. Empty.vRandom \in Seq(Nat) /\ Empty.vvNew \in [1 .. NewBuckets -> SUBSET Nat]
    BY <1>1, <2>1, <2>3, Zenon
  <2> QED BY <2>4, <2>5
<1>6. Empty \in Tables
  <2> DEFINE mi == Empty.mapInfo
             ma == Empty.mapAddr
             vr == Empty.vRandom
             vt == Empty.vvTried
             vn == Empty.vvNew
  <2>1. Empty = [mapInfo |-> mi, mapAddr |-> ma, vRandom |-> vr, nIdCount |-> 0,
                 nTried |-> 0, vvTried |-> vt, nNew |-> 0, vvNew |-> vn]
    BY DEF Empty
  <2>2. /\ mi \in Infos /\ ma \in Addrs /\ vr \in Seq(Nat)
        /\ vt \in [1 .. TriedBuckets -> Seq(Nat)] /\ vn \in [1 .. NewBuckets -> SUBSET Nat]
    BY <1>3, <1>4, <1>5
  <2> HIDE DEF mi, ma, vr, vt, vn
  <2>3. [mapInfo |-> mi, mapAddr |-> ma, vRandom |-> vr, nIdCount |-> 0,
         nTried |-> 0, vvTried |-> vt, nNew |-> 0, vvNew |-> vn] \in Tables
    BY <2>2 DEF Tables
  <2> QED BY <2>1, <2>3
<1>7. InTried(Empty) = {}
  BY <1>2 DEF InTried
<1>8. RandomAgrees(Empty) /\ AddrAgrees(Empty) /\ RefsAgree(Empty)
  BY <1>2, <1>7 DEF RandomAgrees, AddrAgrees, RefsAgree
<1>9. TriedAgrees(Empty)
  <2>1. \A k \in 1..TriedBuckets : Len(Empty.vvTried[k]) = 0
    BY <1>1
  <2> QED BY <2>1, <1>7, Sizes DEF TriedAgrees
<1>10. NewAgrees(Empty)
  <2>1. \A b \in 1..NewBuckets : Empty.vvNew[b] = {}
    BY <1>1
  <2>2. Cardinality({}) = 0
    BY FS_EmptySet
  <2>3. Cardinality({}) <= NewBucketSize
    BY <2>2, Sizes
  <2> QED BY <2>1, <2>3 DEF NewAgrees
<1>11. CountsAgree(Empty)
  <2>1. Cardinality({}) = 0
    BY FS_EmptySet
  <2>2. DOMAIN Empty.mapInfo \ InTried(Empty) = {}
    BY <1>2
  <2> QED BY <2>1, <2>2, <1>1, <1>2, <1>7 DEF CountsAgree
<1> QED BY <1>1, <1>2, <1>6, <1>8, <1>9, <1>10, <1>11 DEF Sound

\* The two loops of Unserialize.
ReadNew(w) ==
    LET new[i \in 0 .. Len(w)] == IF i = 0 THEN Empty ELSE RestoreNew(new[i - 1], w[i])
    IN  new[Len(w)]
ReadTried(w, s) ==
    LET tried[i \in 0 .. Len(w)] == IF i = 0 THEN s ELSE RestoreTried(tried[i - 1], w[i])
    IN  tried[Len(w)]

\* What Serialize wrote for them.
LEMMA WrittenNew ==
    ASSUME NEW m \in Tables, Sound(m)
    PROVE  /\ Len(Serialize(m).new) = m.nNew
           /\ \A i \in 1 .. m.nNew : Serialize(m).new[i] = Saved(m, Orig(m, i - 1))
<1> DEFINE f == [i \in 1 .. m.nNew |-> Saved(m, Nth(InNew(m), i))]
<1>1. Serialize(m).new = f
  BY DEF Serialize
<1>2. m.nNew \in Nat /\ OrigType(m) /\ m.nTried \in Nat
  BY OrigIs
<1>3. ASSUME NEW i \in 1 .. m.nNew
      PROVE  f[i] = Saved(m, Orig(m, i - 1)) /\ Orig(m, i - 1) \in DOMAIN m.mapInfo
  <2> DEFINE j == i - 1
  <2>1. j < m.nNew /\ j \in 0 .. Count(m) - 1 /\ j + 1 = i
    BY <1>2 DEF Count
  <2> HIDE DEF j
  <2>2. Orig(m, j) = Nth(InNew(m), i)
    BY <2>1 DEF Orig
  <2>3. Orig(m, j) \in DOMAIN m.mapInfo
    BY <2>1, <1>2 DEF OrigType
  <2>4. f[i] = Saved(m, Nth(InNew(m), i))
    OBVIOUS
  <2> QED BY <2>2, <2>3, <2>4 DEF j
<1>4. \A i \in 1 .. m.nNew : f[i] \in SavedInfos
  BY <1>3, SavedType
<1>5. Len(f) = m.nNew
  <2>1. f = [i \in 1 .. m.nNew |-> f[i]]
    OBVIOUS
  <2> HIDE DEF f
  <2>2. f \in [1 .. m.nNew -> SavedInfos]
    BY <1>4, <2>1
  <2> QED BY <2>2, <1>2, FunIsSeq
<1> HIDE DEF f
<1> QED BY <1>1, <1>3, <1>5

\* And the tried entries.
LEMMA WrittenTried ==
    ASSUME NEW m \in Tables, Sound(m)
    PROVE  /\ Len(Serialize(m).tried) = m.nTried
           /\ \A i \in 1 .. m.nTried : Serialize(m).tried[i] = Saved(m, Orig(m, m.nNew + (i - 1)))
<1> DEFINE f == [i \in 1 .. m.nTried |-> Saved(m, Nth(InTried(m), i))]
<1>1. Serialize(m).tried = f
  BY DEF Serialize
<1>2. m.nNew \in Nat /\ OrigType(m) /\ m.nTried \in Nat
  BY OrigIs
<1>3. ASSUME NEW i \in 1 .. m.nTried
      PROVE  f[i] = Saved(m, Orig(m, m.nNew + (i - 1))) /\ Orig(m, m.nNew + (i - 1)) \in DOMAIN m.mapInfo
  <2> DEFINE j == m.nNew + (i - 1)
  <2>1. ~(j < m.nNew) /\ j \in 0 .. Count(m) - 1 /\ j - m.nNew + 1 = i
    BY <1>2 DEF Count
  <2> HIDE DEF j
  <2>2. Orig(m, j) = Nth(InTried(m), i)
    BY <2>1 DEF Orig
  <2>3. Orig(m, j) \in DOMAIN m.mapInfo
    BY <2>1, <1>2 DEF OrigType
  <2>4. f[i] = Saved(m, Nth(InTried(m), i))
    OBVIOUS
  <2> QED BY <2>2, <2>3, <2>4 DEF j
<1>4. \A i \in 1 .. m.nTried : f[i] \in SavedInfos
  BY <1>3, SavedType
<1>5. Len(f) = m.nTried
  <2>1. f = [i \in 1 .. m.nTried |-> f[i]]
    OBVIOUS
  <2> HIDE DEF f
  <2>2. f \in [1 .. m.nTried -> SavedInfos]
    BY <1>4, <2>1
  <2> QED BY <2>2, <1>2, FunIsSeq
<1> HIDE DEF f
<1> QED BY <1>1, <1>3, <1>5

\* Nothing is loaded yet.
LEMMA EmptyLoaded ==
    ASSUME NEW m
    PROVE  Loaded(m, 0, Empty) /\ Empty \in Tables
<1>1. Empty \in Tables /\ Sound(Empty) /\ DOMAIN Empty.mapInfo = {} /\ Empty.nIdCount = 0
      /\ \A b \in 1..NewBuckets : Empty.vvNew[b] = {}
  BY EmptySound
<1>2. Base(Empty)
  BY <1>1 DEF Base, Sound
<1>3. 0 .. 0 - 1 = {}
  OBVIOUS
<1> QED BY <1>1, <1>2, <1>3 DEF Loaded

\* The first loop loads the new entries.
LEMMA ReadNewIs ==
    ASSUME NEW m \in Tables, Sound(m), NEW w, Len(w) = m.nNew,
           \A i \in 1 .. m.nNew : w[i] = Saved(m, Orig(m, (i - 1)))
    PROVE  Loaded(m, m.nNew, ReadNew(w))
<1> DEFINE N == Len(w)
           F == [q \in Tables \X Int |->
                   IF q[2] \in 1..N /\ Loaded(m, (q[2] - 1), q[1]) THEN RestoreNew(q[1], w[q[2]]) ELSE q[1]]
           Is(g) == g = [i \in 0..N |-> IF i = 0 THEN Empty ELSE RestoreNew(g[i - 1], w[i])]
           at == CHOOSE g : Is(g)
<1>1. N = m.nNew /\ N \in Nat /\ m.nNew \in Nat /\ m.nTried \in Nat
  BY OrigIs
<1>2. ASSUME NEW r, NEW i \in 1..N, Loaded(m, (i - 1), r)
      PROVE  Loaded(m, i, RestoreNew(r, w[i])) /\ RestoreNew(r, w[i]) \in Tables
  <2> DEFINE j == (i - 1)
  <2>1. j \in 0 .. m.nNew - 1 /\ j + 1 = i
    BY <1>1 DEF Count
  <2>2. w[i] = Saved(m, Orig(m, j))
    BY <1>1
  <2>3. Loaded(m, j, r)
    BY <1>2
  <2> HIDE DEF j
  <2>4. Loaded(m, j + 1, RestoreNew(r, Saved(m, Orig(m, j))))
    BY <2>1, <2>3, LoadNew
  <2>5. Loaded(m, i, RestoreNew(r, w[i]))
    BY <2>1, <2>2, <2>4
  <2> QED BY <2>5 DEF Loaded
<1>3. Loaded(m, 0, Empty) /\ Empty \in Tables
  BY EmptyLoaded
<1> HIDE DEF N
<1>4. LoopData(Tables, N, Empty, F)
  <2>1. F \in [Tables \X Int -> Tables]
    BY <1>2
  <2> HIDE DEF F
  <2> QED BY <1>1, <1>3, <2>1 DEF LoopData
<1>5. PICK f \in [0..N -> Tables] : Loop(f, N, Empty, F)
  <2> HIDE DEF F
  <2> QED BY <1>4, LoopExists
<1> DEFINE A == { k \in 0..N : Loaded(m, k, f[k]) }
<1>6. ASSUME NEW k \in 1..N, k - 1 \in A PROVE f[k] = RestoreNew(f[k - 1], w[k]) /\ k \in A
  <2>1. k \in 0..N /\ k # 0 /\ k \in Int /\ k - 1 \in 0..N
    BY <1>1
  <2>2. f[k] = F[<<f[k - 1], k>>]
    BY <1>5, <2>1 DEF Loop
  <2>3. f[k - 1] \in Tables /\ Loaded(m, (k - 1), f[k - 1])
    BY <1>5, <1>6, <2>1
  <2>4. f[k] = RestoreNew(f[k - 1], w[k])
    BY <2>1, <2>2, <2>3
  <2>5. Loaded(m, k, f[k])
    BY <2>3, <2>4, <1>2
  <2> QED BY <2>1, <2>4, <2>5
<1>7. 0..N \subseteq A
  <2>1. 0 \in A
    <3>1. f[0] = Empty
      <4> HIDE DEF F, A
      <4>1. 0 \in 0..N
        BY <1>1
      <4> QED BY <4>1, <1>5 DEF Loop
    <3>2. 0 \in 0..N
      BY <1>1
    <3> QED BY <3>1, <3>2, <1>3
  <2> HIDE DEF A
  <2> QED BY <2>1, <1>1, <1>6, UpTo
<1>8. Is(f)
  <2>1. ASSUME NEW k \in 0..N PROVE f[k] = IF k = 0 THEN Empty ELSE RestoreNew(f[k - 1], w[k])
    <3>1. CASE k = 0
      BY <3>1, <1>5 DEF Loop
    <3>2. CASE k # 0
      <4>1. k \in 1..N /\ k - 1 \in 0..N
        BY <1>1, <3>2
      <4> HIDE DEF A
      <4> QED BY <4>1, <3>2, <1>6, <1>7
    <3> QED BY <3>1, <3>2
  <2> QED BY <2>1, <1>5
<1>9. Is(at)
  <2> HIDE DEF Is
  <2> QED BY <1>8
<1>10. ReadNew(w) = at[N]
  BY DEF ReadNew, N
<1>11. \A k \in 0..N : at[k] = IF k = 0 THEN Empty ELSE RestoreNew(at[k - 1], w[k])
  <2> HIDE DEF at
  <2> QED BY <1>9
<1> HIDE DEF at
<1> DEFINE B == { k \in 0..N : Loaded(m, k, at[k]) }
<1>12. 0 \in B
  <2>1. 0 \in 0..N
    BY <1>1
  <2> QED BY <2>1, <1>3, <1>11
<1>13. ASSUME NEW k \in 1..N, k - 1 \in B PROVE k \in B
  <2>1. k \in 0..N /\ k # 0
    OBVIOUS
  <2>2. at[k] = RestoreNew(at[k - 1], w[k])
    BY <2>1, <1>11
  <2> QED BY <2>1, <2>2, <1>2, <1>13
<1>14. 0..N \subseteq B
  <2> HIDE DEF B
  <2> QED BY <1>1, <1>12, <1>13, UpTo
<1>15. Loaded(m, N, at[N])
  BY <1>1, <1>14
<1> QED BY <1>1, <1>10, <1>15

\* The second one loads the tried entries behind them.
LEMMA ReadTriedIs ==
    ASSUME NEW m \in Tables, Sound(m), NEW s, Loaded(m, m.nNew, s),
           NEW w, Len(w) = m.nTried,
           \A i \in 1 .. m.nTried : w[i] = Saved(m, Orig(m, m.nNew + (i - 1)))
    PROVE  Loaded(m, Count(m), ReadTried(w, s))
<1> DEFINE N == Len(w)
           F == [q \in Tables \X Int |->
                   IF q[2] \in 1..N /\ Loaded(m, m.nNew + (q[2] - 1), q[1]) THEN RestoreTried(q[1], w[q[2]]) ELSE q[1]]
           Is(g) == g = [i \in 0..N |-> IF i = 0 THEN s ELSE RestoreTried(g[i - 1], w[i])]
           at == CHOOSE g : Is(g)
<1>1. N = m.nTried /\ N \in Nat /\ m.nNew \in Nat /\ m.nTried \in Nat
  BY OrigIs
<1>2. ASSUME NEW r, NEW i \in 1..N, Loaded(m, m.nNew + (i - 1), r)
      PROVE  Loaded(m, m.nNew + i, RestoreTried(r, w[i])) /\ RestoreTried(r, w[i]) \in Tables
  <2> DEFINE j == m.nNew + (i - 1)
  <2>1. j \in 0 .. Count(m) - 1 /\ ~(j < m.nNew) /\ j + 1 = m.nNew + i
    BY <1>1 DEF Count
  <2>2. w[i] = Saved(m, Orig(m, j))
    BY <1>1
  <2>3. Loaded(m, j, r)
    BY <1>2
  <2> HIDE DEF j
  <2>4. Loaded(m, j + 1, RestoreTried(r, Saved(m, Orig(m, j))))
    BY <2>1, <2>3, LoadTried
  <2>5. Loaded(m, m.nNew + i, RestoreTried(r, w[i]))
    BY <2>1, <2>2, <2>4
  <2> QED BY <2>5 DEF Loaded
<1>3. Loaded(m, m.nNew + 0, s) /\ s \in Tables
  BY <1>1 DEF Loaded
<1> HIDE DEF N
<1>4. LoopData(Tables, N, s, F)
  <2>1. F \in [Tables \X Int -> Tables]
    BY <1>2
  <2> HIDE DEF F
  <2> QED BY <1>1, <1>3, <2>1 DEF LoopData
<1>5. PICK f \in [0..N -> Tables] : Loop(f, N, s, F)
  <2> HIDE DEF F
  <2> QED BY <1>4, LoopExists
<1> DEFINE A == { k \in 0..N : Loaded(m, m.nNew + k, f[k]) }
<1>6. ASSUME NEW k \in 1..N, k - 1 \in A PROVE f[k] = RestoreTried(f[k - 1], w[k]) /\ k \in A
  <2>1. k \in 0..N /\ k # 0 /\ k \in Int /\ k - 1 \in 0..N
    BY <1>1
  <2>2. f[k] = F[<<f[k - 1], k>>]
    BY <1>5, <2>1 DEF Loop
  <2>3. f[k - 1] \in Tables /\ Loaded(m, m.nNew + (k - 1), f[k - 1])
    BY <1>5, <1>6, <2>1
  <2>4. f[k] = RestoreTried(f[k - 1], w[k])
    BY <2>1, <2>2, <2>3
  <2>5. Loaded(m, m.nNew + k, f[k])
    BY <2>3, <2>4, <1>2
  <2> QED BY <2>1, <2>4, <2>5
<1>7. 0..N \subseteq A
  <2>1. 0 \in A
    <3>1. f[0] = s
      <4> HIDE DEF F, A
      <4>1. 0 \in 0..N
        BY <1>1
      <4> QED BY <4>1, <1>5 DEF Loop
    <3>2. 0 \in 0..N /\ m.nNew + 0 = m.nNew
      BY <1>1
    <3> QED BY <3>1, <3>2, <1>3
  <2> HIDE DEF A
  <2> QED BY <2>1, <1>1, <1>6, UpTo
<1>8. Is(f)
  <2>1. ASSUME NEW k \in 0..N PROVE f[k] = IF k = 0 THEN s ELSE RestoreTried(f[k - 1], w[k])
    <3>1. CASE k = 0
      BY <3>1, <1>5 DEF Loop
    <3>2. CASE k # 0
      <4>1. k \in 1..N /\ k - 1 \in 0..N
        BY <1>1, <3>2
      <4> HIDE DEF A
      <4> QED BY <4>1, <3>2, <1>6, <1>7
    <3> QED BY <3>1, <3>2
  <2> QED BY <2>1, <1>5
<1>9. Is(at)
  <2> HIDE DEF Is
  <2> QED BY <1>8
<1>10. ReadTried(w, s) = at[N]
  BY DEF ReadTried, N
<1>11. \A k \in 0..N : at[k] = IF k = 0 THEN s ELSE RestoreTried(at[k - 1], w[k])
  <2> HIDE DEF at
  <2> QED BY <1>9
<1> HIDE DEF at
<1> DEFINE B == { k \in 0..N : Loaded(m, m.nNew + k, at[k]) }
<1>12. 0 \in B
  <2>1. 0 \in 0..N /\ m.nNew + 0 = m.nNew
    BY <1>1
  <2> QED BY <2>1, <1>3, <1>11
<1>13. ASSUME NEW k \in 1..N, k - 1 \in B PROVE k \in B
  <2>1. k \in 0..N /\ k # 0
    OBVIOUS
  <2>2. at[k] = RestoreTried(at[k - 1], w[k])
    BY <2>1, <1>11
  <2> QED BY <2>1, <2>2, <1>2, <1>13
<1>14. 0..N \subseteq B
  <2> HIDE DEF B
  <2> QED BY <1>1, <1>12, <1>13, UpTo
<1>15. Loaded(m, m.nNew + N, at[N])
  BY <1>1, <1>14
<1> QED BY <1>1, <1>10, <1>15 DEF Count

\* Both load all entries.
LEMMA EntriesIs ==
    ASSUME NEW m \in Tables, Sound(m)
    PROVE  Loaded(m, Count(m), Entries(Serialize(m)))
<1> DEFINE u == Serialize(m).new
           w == Serialize(m).tried
<1>1. Len(u) = m.nNew /\ \A i \in 1 .. m.nNew : u[i] = Saved(m, Orig(m, i - 1))
  BY WrittenNew
<1>2. Len(w) = m.nTried /\ \A i \in 1 .. m.nTried : w[i] = Saved(m, Orig(m, m.nNew + (i - 1)))
  BY WrittenTried
<1>3. Entries(Serialize(m)) = ReadTried(w, ReadNew(u))
  BY Zenon DEF Entries, ReadNew, ReadTried
<1> HIDE DEF u, w
<1>4. Loaded(m, m.nNew, ReadNew(u))
  BY <1>1, ReadNewIs
<1>5. Loaded(m, Count(m), ReadTried(w, ReadNew(u)))
  BY <1>2, <1>4, ReadTriedIs
<1> QED BY <1>3, <1>5

-----------------------------------------------------------------------------
(* The new buckets are read.                                                *)

\* A new bucket in peers.dat names the entries that were in it.
Named(m) ==
    \A b \in 1..NewBuckets :
      /\ Serialize(m).buckets[b] \subseteq 0 .. m.nNew - 1
      /\ \A j \in 0 .. Count(m) - 1 : j \in Serialize(m).buckets[b] <=> Orig(m, j) \in m.vvNew[b]
      /\ Cardinality(Serialize(m).buckets[b]) <= NewBucketSize

\* IndexOf and Orig are inverse on the new entries.
LEMMA BucketsWritten ==
    ASSUME NEW m \in Tables, Sound(m)
    PROVE  Named(m)
<1> SUFFICES ASSUME NEW b \in 1..NewBuckets
             PROVE  /\ Serialize(m).buckets[b] \subseteq 0 .. m.nNew - 1
                    /\ \A j \in 0 .. Count(m) - 1 : j \in Serialize(m).buckets[b] <=> Orig(m, j) \in m.vvNew[b]
                    /\ Cardinality(Serialize(m).buckets[b]) <= NewBucketSize
  BY DEF Named
<1> DEFINE V == m.vvNew[b]
           W == { IndexOf(m, n) : n \in V }
<1>1. Serialize(m).buckets[b] = W
  BY DEF Serialize
<1>2. /\ InNew(m) = DOMAIN m.mapInfo \ InTried(m) /\ m.nNew \in Nat /\ m.nTried \in Nat
      /\ OrigOnce(m) /\ OrigIndex(m)
  BY OrigIs
<1>3. V \subseteq InNew(m) /\ Cardinality(V) <= NewBucketSize /\ V \subseteq DOMAIN m.mapInfo
  BY <1>2 DEF Sound, NewAgrees
<1>4. IsFiniteSet(V)
  <2>1. IsFiniteSet(DOMAIN m.mapInfo)
    BY BaseFinite DEF Sound
  <2> QED BY <1>3, <2>1, FS_Subset
<1> HIDE DEF V
<1>5. W \subseteq 0 .. m.nNew - 1
  BY <1>2, <1>3 DEF OrigIndex
<1>6. ASSUME NEW j \in 0 .. Count(m) - 1 PROVE j \in W <=> Orig(m, j) \in V
  <2>1. ASSUME j \in W PROVE Orig(m, j) \in V
    <3>1. PICK x \in V : j = IndexOf(m, x)
      BY <2>1
    <3>2. Orig(m, IndexOf(m, x)) = x
      BY <1>2, <1>3 DEF OrigIndex
    <3> QED BY <3>1, <3>2
  <2>2. ASSUME Orig(m, j) \in V PROVE j \in W
    <3> DEFINE h == IndexOf(m, Orig(m, j))
    <3>1. h \in 0 .. m.nNew - 1 /\ Orig(m, h) = Orig(m, j) /\ h \in W
      BY <2>2, <1>2, <1>3 DEF OrigIndex
    <3> HIDE DEF h
    <3>2. h \in 0 .. Count(m) - 1
      BY <3>1, <1>2 DEF Count
    <3>3. h = j
      BY <3>1, <3>2, <1>2 DEF OrigOnce
    <3> QED BY <3>1, <3>3
  <2> QED BY <2>1, <2>2
<1>7. Cardinality(W) <= Cardinality(V) /\ IsFiniteSet(W)
  <2> DEFINE g == [n \in V |-> IndexOf(m, n)]
  <2>1. g \in Surjection(V, W)
    BY DEF Surjection
  <2> HIDE DEF g, W
  <2> QED BY <2>1, <1>4, FS_Surjection
<1>8. Cardinality(W) <= NewBucketSize
  <2>1. Cardinality(W) \in Nat /\ Cardinality(V) \in Nat
    BY <1>4, <1>7, FS_CardinalityType
  <2> HIDE DEF W
  <2> QED BY <2>1, <1>3, <1>7, Sizes
<1> HIDE DEF W
<1> QED BY <1>1, <1>5, <1>6, <1>8 DEF V

\* The buckets that are read: no entry is in too many.
ReadBuckets(f) ==
    [b \in 1 .. NewBuckets |->
       { n \in f.buckets[b] : Cardinality({ c \in 1 .. b - 1 : n \in f.buckets[c] }) < PerAddress }]

\* The limit turns none away: an entry was in PerAddress buckets at most.
LEMMA BucketsRead ==
    ASSUME NEW m \in Tables, Sound(m), NEW b \in 1..NewBuckets
    PROVE  ReadBuckets(Serialize(m))[b] = Serialize(m).buckets[b]
<1> DEFINE B == Serialize(m).buckets
           Earlier(n) == { c \in 1 .. b - 1 : n \in B[c] }
<1>1. ReadBuckets(Serialize(m))[b] = { n \in B[b] : Cardinality(Earlier(n)) < PerAddress }
  BY DEF ReadBuckets
<1>2. /\ InNew(m) = DOMAIN m.mapInfo \ InTried(m) /\ m.nNew \in Nat /\ m.nTried \in Nat /\ OrigType(m)
  BY OrigIs
<1>3. Named(m)
  BY BucketsWritten
<1>4. \A c \in 1 .. b - 1 : c \in 1..NewBuckets /\ c # b
  BY Sizes
<1> HIDE DEF B
<1>5. ASSUME NEW n \in B[b] PROVE Cardinality(Earlier(n)) < PerAddress
  <2> DEFINE x == Orig(m, n)
             H == BucketsOf(m, x)
  <2>1. n \in 0 .. m.nNew - 1 /\ n \in 0 .. Count(m) - 1
    <3>1. n \in 0 .. m.nNew - 1
      BY <1>3 DEF Named, B
    <3> QED BY <3>1, <1>2 DEF Count
  <2>2. x \in DOMAIN m.mapInfo \ InTried(m)
    <3>1. n < m.nNew
      BY <2>1, <1>2
    <3> QED BY <3>1, <2>1, <1>2 DEF OrigType
  <2>3. \A c \in 1..NewBuckets : n \in B[c] <=> c \in H
    BY <2>1, <1>3 DEF Named, B, BucketsOf
  <2>4. b \in H /\ Earlier(n) \subseteq H \ {b}
    BY <2>3, <1>4
  <2>5. Cardinality(H) = m.mapInfo[x].nRefCount /\ m.mapInfo[x].nRefCount \in 1..PerAddress
    BY <2>2 DEF Sound, RefsAgree
  <2>6. IsFiniteSet(H)
    <3>1. IsFiniteSet(1..NewBuckets) /\ H \subseteq 1..NewBuckets
      BY FS_Interval, Sizes DEF BucketsOf
    <3> HIDE DEF H
    <3> QED BY <3>1, FS_Subset
  <2> HIDE DEF H, x
  <2>7. IsFiniteSet(H \ {b}) /\ Cardinality(H \ {b}) = Cardinality(H) - 1
    BY <2>4, <2>6, FS_RemoveElement
  <2>8. Cardinality(Earlier(n)) <= Cardinality(H \ {b}) /\ IsFiniteSet(Earlier(n))
    <3> HIDE DEF Earlier
    <3> QED BY <2>4, <2>7, FS_Subset
  <2>9. Cardinality(Earlier(n)) \in Nat
    <3> HIDE DEF Earlier
    <3> QED BY <2>8, FS_CardinalityType
  <2> HIDE DEF Earlier
  <2> DEFINE e == Cardinality(Earlier(n))
             h == Cardinality(H)
             l == Cardinality(H \ {b})
  <2>10. e \in Nat /\ h \in 1..PerAddress /\ l = h - 1 /\ e <= l
    BY <2>5, <2>7, <2>8, <2>9
  <2> HIDE DEF e, h, l
  <2>11. e < PerAddress
    BY <2>10, Sizes
  <2> QED BY <2>11 DEF e
<1> HIDE DEF Earlier
<1> QED BY <1>1, <1>5 DEF B

\* z has the entries of m under the numbers of peers.dat, with their counts and buckets.
Reloaded(m, z) ==
    /\ z \in Tables /\ Sound(z) /\ DOMAIN z.mapInfo = 0 .. Count(m) - 1
    /\ \A j \in 0 .. Count(m) - 1 :
         /\ LoadedInfo(m, j, z.mapInfo[j])
         /\ z.mapInfo[j].nRefCount = m.mapInfo[Orig(m, j)].nRefCount
         /\ BucketsOf(z, j) = BucketsOf(m, Orig(m, j))

\* The counts are those of the buckets that are read.
Counted(r, vv) ==
    [n \in DOMAIN r.mapInfo |->
       [r.mapInfo[n] EXCEPT !.nRefCount = Cardinality({ b \in 1 .. NewBuckets : n \in vv[b] })]]

\* peers.dat, written and read.
LEMMA UnserializeIs ==
    ASSUME NEW m \in Tables, Sound(m)
    PROVE  Reloaded(m, Unserialize(Serialize(m)))
<1> DEFINE f == Serialize(m)
           r == Entries(f)
           vv == ReadBuckets(f)
           info == Counted(r, vv)
           z == Unserialize(f)
           Of(n) == { b \in 1 .. NewBuckets : n \in vv[b] }
<1>1. Loaded(m, Count(m), r)
  BY EntriesIs
<1>2. z = [r EXCEPT !.vvNew = vv, !.mapInfo = Counted(r, vv)]
  <2> HIDE DEF f
  <2>1. r \in Tables
    BY <1>1 DEF Loaded, f
  <2>2. z = [Entries(f) EXCEPT !.vvNew = vv,
               !.mapInfo = [n \in DOMAIN @ |->
                              [@[n] EXCEPT !.nRefCount =
                                 Cardinality({ b \in 1 .. NewBuckets : n \in vv[b] })]]]
    BY Zenon DEF Unserialize, ReadBuckets
  <2> HIDE DEF r, vv, z
  <2> QED BY <2>1, <2>2 DEF Tables, Counted, r
<1>3. /\ InNew(m) = DOMAIN m.mapInfo \ InTried(m) /\ m.nNew \in Nat /\ m.nTried \in Nat /\ OrigType(m)
  BY OrigIs
<1>4. Named(m)
  BY BucketsWritten
<1>5. \A b \in 1..NewBuckets : vv[b] = f.buckets[b]
  BY BucketsRead
<1>6. vv = [b \in 1..NewBuckets |-> vv[b]]
  BY DEF ReadBuckets
<1>7. /\ \A b \in 1..NewBuckets : vv[b] \subseteq 0 .. m.nNew - 1 /\ Cardinality(vv[b]) <= NewBucketSize
      /\ \A b \in 1..NewBuckets : \A j \in 0 .. Count(m) - 1 : j \in vv[b] <=> Orig(m, j) \in m.vvNew[b]
  BY <1>4, <1>5 DEF Named
<1> HIDE DEF f, r, vv, z
<1>8. /\ r \in Tables /\ Base(r) /\ DOMAIN r.mapInfo = 0 .. Count(m) - 1
      /\ \A j \in 0 .. Count(m) - 1 : LoadedInfo(m, j, r.mapInfo[j])
  BY <1>1 DEF Loaded
<1>9. vv \in [1..NewBuckets -> SUBSET Nat]
  <2>1. \A b \in 1..NewBuckets : vv[b] \in SUBSET Nat
    BY <1>3, <1>7
  <2> QED BY <1>6, <2>1
<1>10. ASSUME NEW j \in 0 .. Count(m) - 1
       PROVE  /\ Orig(m, j) \in DOMAIN m.mapInfo
              /\ Of(j) = BucketsOf(m, Orig(m, j))
              /\ Cardinality(Of(j)) = m.mapInfo[Orig(m, j)].nRefCount /\ Cardinality(Of(j)) \in Nat
  <2>1. Orig(m, j) \in DOMAIN m.mapInfo
    BY <1>3 DEF OrigType
  <2>2. Of(j) = BucketsOf(m, Orig(m, j))
    BY <1>7 DEF BucketsOf
  <2> DEFINE x == Orig(m, j)
  <2> HIDE DEF Of, x
  <2>3. Cardinality(BucketsOf(m, x)) = m.mapInfo[x].nRefCount
    <3>1. CASE x \in InTried(m)
      <4>1. BucketsOf(m, x) = {}
        BY <3>1 DEF Sound, NewAgrees, BucketsOf
      <4>2. m.mapInfo[x].nRefCount = 0
        BY <3>1 DEF Sound, TriedAgrees
      <4> QED BY <4>1, <4>2, FS_EmptySet
    <3>2. CASE x \notin InTried(m)
      BY <2>1, <3>2 DEF Sound, RefsAgree, x
    <3> QED BY <3>1, <3>2
  <2>4. m.mapInfo[x].nRefCount \in Nat
    <3>1. m.mapInfo[x] \in CAddrInfos
      BY <2>1, TablesFields DEF x
    <3> QED BY <3>1, InfoFields
  <2> QED BY <2>1, <2>2, <2>3, <2>4 DEF x
<1>11. /\ DOMAIN info = 0 .. Count(m) - 1 /\ info = [n \in DOMAIN info |-> info[n]]
       /\ \A j \in 0 .. Count(m) - 1 : info[j] = [r.mapInfo[j] EXCEPT !.nRefCount = Cardinality(Of(j))]
  BY <1>8 DEF Counted
<1> HIDE DEF info, Of
<1>12. ASSUME NEW j \in 0 .. Count(m) - 1
       PROVE  /\ info[j] \in CAddrInfos
              /\ info[j].service = r.mapInfo[j].service /\ info[j].source = r.mapInfo[j].source
              /\ info[j].nLastSuccess = r.mapInfo[j].nLastSuccess
              /\ info[j].fInTried = r.mapInfo[j].fInTried
              /\ info[j].nRandomPos = r.mapInfo[j].nRandomPos
              /\ info[j].nRefCount = Cardinality(Of(j))
  <2> DEFINE e == r.mapInfo[j]
             c == Cardinality(Of(j))
             i == info[j]
  <2>1. e \in CAddrInfos /\ c \in Nat /\ i = [e EXCEPT !.nRefCount = c]
    BY <1>8, <1>10, <1>11, TablesFields
  <2> HIDE DEF e, c, i
  <2>2. /\ i \in CAddrInfos /\ i.service = e.service /\ i.source = e.source
        /\ i.nLastSuccess = e.nLastSuccess /\ i.fInTried = e.fInTried /\ i.nRandomPos = e.nRandomPos
        /\ i.nRefCount = c
    BY <2>1 DEF CAddrInfos
  <2> QED BY <2>2 DEF e, c, i
<1>13. info \in Infos
  <2>1. DOMAIN info \subseteq Nat /\ \A n \in DOMAIN info : info[n] \in CAddrInfos
    BY <1>11, <1>12
  <2> QED BY <2>1, <1>11, InfosType
<1>14. /\ z \in Tables /\ z.mapInfo = info /\ z.vvNew = vv /\ z.mapAddr = r.mapAddr
       /\ z.vRandom = r.vRandom /\ z.nIdCount = r.nIdCount /\ z.nTried = r.nTried
       /\ z.vvTried = r.vvTried /\ z.nNew = r.nNew
  <2>1. z = [r EXCEPT !.vvNew = vv, !.mapInfo = info]
    BY <1>2 DEF info
  <2> QED BY <2>1, <1>8, <1>9, <1>13 DEF Tables
<1>15. \A j \in 0 .. Count(m) - 1 :
         /\ j \in InTried(r) <=> Orig(m, j) \in InTried(m)
         /\ j \in InTried(z) <=> Orig(m, j) \in InTried(m)
  <2>1. \A j \in 0 .. Count(m) - 1 : r.mapInfo[j].fInTried = m.mapInfo[Orig(m, j)].fInTried
    BY <1>8 DEF LoadedInfo
  <2>2. DOMAIN z.mapInfo = 0 .. Count(m) - 1 /\ DOMAIN r.mapInfo = 0 .. Count(m) - 1
    BY <1>8, <1>11, <1>14
  <2>3. \A j \in 0 .. Count(m) - 1 : z.mapInfo[j].fInTried = m.mapInfo[Orig(m, j)].fInTried
    BY <2>1, <1>12, <1>14
  <2> QED BY <2>1, <2>2, <2>3, <1>10 DEF InTried
<1>16. SameButRefs(r, z)
  <2>1. ASSUME NEW x \in InTried(r) PROVE z.mapInfo[x].nRefCount = r.mapInfo[x].nRefCount
    <3>1. x \in 0 .. Count(m) - 1
      BY <1>8 DEF InTried
    <3>2. Orig(m, x) \in InTried(m)
      BY <3>1, <1>15
    <3>3. m.mapInfo[Orig(m, x)].nRefCount = 0
      BY <3>2 DEF Sound, TriedAgrees
    <3>4. r.mapInfo[x].nRefCount = 0
      BY <1>8 DEF Base, TriedAgrees
    <3> QED BY <3>1, <3>3, <3>4, <1>10, <1>12, <1>14
  <2>2. \A x \in DOMAIN r.mapInfo :
         /\ z.mapInfo[x].service = r.mapInfo[x].service /\ z.mapInfo[x].source = r.mapInfo[x].source
         /\ z.mapInfo[x].nLastSuccess = r.mapInfo[x].nLastSuccess
         /\ z.mapInfo[x].fInTried = r.mapInfo[x].fInTried
         /\ z.mapInfo[x].nRandomPos = r.mapInfo[x].nRandomPos
    BY <1>8, <1>12, <1>14
  <2> QED BY <2>1, <2>2, <1>8, <1>11, <1>14 DEF SameButRefs
<1>17. RandomAgrees(z) /\ AddrAgrees(z) /\ TriedAgrees(z) /\ CountsAgree(z)
  BY <1>8, <1>16, RefsAreFree
<1>18. DOMAIN z.mapInfo = 0 .. Count(m) - 1
  BY <1>11, <1>14
<1>19. NewAgrees(z)
  <2>1. ASSUME NEW b \in 1..NewBuckets, NEW j \in vv[b]
        PROVE  j \in DOMAIN z.mapInfo \ InTried(z)
    <3>1. j \in 0 .. m.nNew - 1
      BY <1>7
    <3>2. j \in 0 .. Count(m) - 1
      BY <3>1, <1>3 DEF Count
    <3>3. Orig(m, j) \in m.vvNew[b]
      BY <3>2, <1>7
    <3>4. Orig(m, j) \notin InTried(m)
      BY <3>3 DEF Sound, NewAgrees
    <3> QED BY <3>2, <3>4, <1>15, <1>18
  <2>2. ASSUME NEW b \in 1..NewBuckets
        PROVE  z.vvNew[b] \subseteq DOMAIN z.mapInfo \ InTried(z) /\ Cardinality(z.vvNew[b]) <= NewBucketSize
    BY <2>1, <1>7, <1>14
  <2> QED BY <2>2 DEF NewAgrees
<1>20. \A j \in 0 .. Count(m) - 1 :
         /\ BucketsOf(z, j) = BucketsOf(m, Orig(m, j))
         /\ z.mapInfo[j].nRefCount = Cardinality(BucketsOf(z, j))
         /\ z.mapInfo[j].nRefCount = m.mapInfo[Orig(m, j)].nRefCount
  <2>1. \A j \in 0 .. Count(m) - 1 : BucketsOf(z, j) = Of(j)
    BY <1>14 DEF BucketsOf, Of
  <2> QED BY <2>1, <1>10, <1>12, <1>14
<1>21. RefsAgree(z)
  <2>1. ASSUME NEW j \in DOMAIN z.mapInfo \ InTried(z)
        PROVE  z.mapInfo[j].nRefCount \in 1..PerAddress /\ j \in 0 .. Count(m) - 1
    <3>1. j \in 0 .. Count(m) - 1
      BY <1>18
    <3>2. Orig(m, j) \in DOMAIN m.mapInfo \ InTried(m)
      BY <3>1, <1>10, <1>15
    <3>3. m.mapInfo[Orig(m, j)].nRefCount \in 1..PerAddress
      BY <3>2 DEF Sound, RefsAgree
    <3> QED BY <3>1, <3>3, <1>20
  <2> QED BY <2>1, <1>20 DEF RefsAgree
<1>22. Sound(z)
  BY <1>17, <1>19, <1>21 DEF Sound
<1>23. \A j \in 0 .. Count(m) - 1 : LoadedInfo(m, j, z.mapInfo[j])
  BY <1>8, <1>12, <1>14 DEF LoadedInfo
<1>24. Reloaded(m, z)
  BY <1>14, <1>18, <1>20, <1>22, <1>23 DEF Reloaded
<1> QED BY <1>24 DEF z, f

\* What ReloadKeepsTables compares of an entry, and of all.
AboutOf(m, n) == [info |-> [m.mapInfo[n] EXCEPT !.nRandomPos = 0], buckets |-> BucketsOf(m, n)]
About(m) == { AboutOf(m, n) : n \in DOMAIN m.mapInfo }

\* Two entries that differ in their position at most are the same for it.
LEMMA SameAbout ==
    ASSUME NEW d \in CAddrInfos, NEW e \in CAddrInfos, SameInfo(d, e)
    PROVE  [d EXCEPT !.nRandomPos = 0] = [e EXCEPT !.nRandomPos = 0]
BY DEF CAddrInfos, SameInfo

\* peers.dat gives every entry back.
LEMMA AboutKept ==
    ASSUME NEW m \in Tables, Sound(m), NEW z, Reloaded(m, z)
    PROVE  About(z) = About(m)
<1>1. OrigType(m) /\ OrigAll(m)
  BY OrigIs
<1>2. z \in Tables /\ DOMAIN z.mapInfo = 0 .. Count(m) - 1
  BY DEF Reloaded
<1>3. ASSUME NEW j \in 0 .. Count(m) - 1
      PROVE  Orig(m, j) \in DOMAIN m.mapInfo /\ AboutOf(z, j) = AboutOf(m, Orig(m, j))
  <2> DEFINE x == Orig(m, j)
             d == m.mapInfo[x]
             e == z.mapInfo[j]
  <2>1. x \in DOMAIN m.mapInfo
    BY <1>1 DEF OrigType
  <2>2. d \in CAddrInfos /\ e \in CAddrInfos
    BY <2>1, <1>2, TablesFields
  <2>3. SameInfo(d, e) /\ BucketsOf(z, j) = BucketsOf(m, x)
    BY DEF Reloaded, LoadedInfo, SameInfo
  <2> HIDE DEF d, e
  <2>4. [d EXCEPT !.nRandomPos = 0] = [e EXCEPT !.nRandomPos = 0]
    BY <2>2, <2>3, SameAbout
  <2>5. AboutOf(z, j) = [info |-> [e EXCEPT !.nRandomPos = 0], buckets |-> BucketsOf(z, j)]
    BY DEF AboutOf, e
  <2>6. AboutOf(m, x) = [info |-> [d EXCEPT !.nRandomPos = 0], buckets |-> BucketsOf(m, x)]
    BY DEF AboutOf, d
  <2>7. AboutOf(z, j) = AboutOf(m, x)
    BY <2>3, <2>4, <2>5, <2>6
  <2> QED BY <2>1, <2>7
<1>4. About(z) \subseteq About(m)
  BY <1>2, <1>3 DEF About
<1>5. About(m) \subseteq About(z)
  <2>1. ASSUME NEW n \in DOMAIN m.mapInfo PROVE AboutOf(m, n) \in About(z)
    <3>1. PICK j \in 0 .. Count(m) - 1 : Orig(m, j) = n
      BY <1>1 DEF OrigAll
    <3>2. AboutOf(z, j) = AboutOf(m, n)
      BY <3>1, <1>3
    <3> QED BY <3>1, <3>2, <1>2 DEF About
  <2> QED BY <2>1 DEF About
<1> QED BY <1>4, <1>5

-----------------------------------------------------------------------------
(* Check_ and the bounds of the buckets.                                    *)

\* The places of an entry in the tried buckets, as Check_ counts them.
Places(m, n) == { x \in (1 .. TriedBuckets) \X (1 .. TriedBucketSize) :
                    x[2] <= Len(m.vvTried[x[1]]) /\ m.vvTried[x[1]][x[2]] = n }

\* A tried entry has one.
LEMMA OnePlace ==
    ASSUME NEW m \in Tables, TriedAgrees(m), NEW n \in InTried(m)
    PROVE  Cardinality(Places(m, n)) = 1
<1> DEFINE k == TriedBucketOf(m, n)
<1>1. k \in 1..TriedBuckets
  <2>1. m.mapInfo[n] \in CAddrInfos
    BY TablesFields DEF InTried
  <2> QED BY <2>1, InfoFields DEF TriedBucketOf
<1>2. PICK i \in 1 .. Len(m.vvTried[k]) : m.vvTried[k][i] = n
  BY DEF TriedAgrees
<1>3. \A h \in 1..TriedBuckets : Len(m.vvTried[h]) \in Nat /\ Len(m.vvTried[h]) <= TriedBucketSize
  <2>1. \A h \in 1..TriedBuckets : m.vvTried[h] \in Seq(Nat)
    BY TablesFields
  <2> QED BY <2>1, LenProperties DEF TriedAgrees
<1> HIDE DEF k
<1>4. i \in 1..TriedBucketSize /\ i <= Len(m.vvTried[k])
  BY <1>1, <1>2, <1>3, Sizes
<1>5. <<k, i>> \in Places(m, n)
  BY <1>1, <1>2, <1>4 DEF Places
<1>6. ASSUME NEW x \in Places(m, n) PROVE x = <<k, i>>
  <2>1. PICK h \in 1..TriedBuckets, j \in 1..TriedBucketSize : x = <<h, j>>
    BY DEF Places
  <2>2. j <= Len(m.vvTried[h]) /\ m.vvTried[h][j] = n
    BY <2>1 DEF Places
  <2>3. j \in 1 .. Len(m.vvTried[h])
    BY <2>1, <2>2, <1>3
  <2>4. TriedBucketOf(m, n) = h
    BY <2>1, <2>2, <2>3 DEF TriedAgrees
  <2>5. h = k
    BY <2>4 DEF k
  <2>6. i = j
    BY <1>1, <1>2, <2>2, <2>3, <2>5 DEF TriedAgrees
  <2> QED BY <2>1, <2>5, <2>6
<1>7. Places(m, n) = {<<k, i>>}
  BY <1>5, <1>6
<1> QED BY <1>7, FS_Singleton

\* Check_ finds nothing in sound tables.
LEMMA SoundChecks ==
    ASSUME NEW m \in Tables, Sound(m)
    PROVE  Check_(m)
<1> DEFINE ids == DOMAIN m.mapInfo
           tried == InTried(m)
<1>1. Len(m.vRandom) = m.nTried + m.nNew
  BY DEF Sound, CountsAgree
<1>2. \A n \in tried : m.mapInfo[n].nLastSuccess > 0 /\ m.mapInfo[n].nRefCount = 0
  BY DEF Sound, TriedAgrees
<1>3. \A n \in ids \ tried : m.mapInfo[n].nRefCount \in 1 .. PerAddress
  BY DEF Sound, RefsAgree
<1>4. \A n \in ids : /\ m.mapInfo[n].service.ip \in DOMAIN m.mapAddr
                     /\ m.mapAddr[m.mapInfo[n].service.ip] = n
                     /\ m.mapInfo[n].nRandomPos \in 1 .. Len(m.vRandom)
                     /\ m.vRandom[m.mapInfo[n].nRandomPos] = n
  BY DEF Sound, AddrAgrees, RandomAgrees
<1>5. Cardinality(tried) = m.nTried /\ Cardinality(ids \ tried) = m.nNew
  BY DEF Sound, CountsAgree
<1>6. \A n \in tried : Cardinality(Places(m, n)) = 1
  BY OnePlace DEF Sound
<1>7. \A n \in ids \ tried : Cardinality(BucketsOf(m, n)) = m.mapInfo[n].nRefCount
  BY DEF Sound, RefsAgree
<1>8. \A k \in 1 .. TriedBuckets : Range(m.vvTried[k]) \subseteq tried
  <2>1. ASSUME NEW k \in 1..TriedBuckets PROVE Range(m.vvTried[k]) \subseteq tried
    <3>1. m.vvTried[k] \in Seq(Nat)
      BY TablesFields
    <3>2. DOMAIN m.vvTried[k] = 1 .. Len(m.vvTried[k])
      BY <3>1, LenProperties
    <3>3. \A i \in 1 .. Len(m.vvTried[k]) : m.vvTried[k][i] \in tried
      BY DEF Sound, TriedAgrees
    <3> QED BY <3>2, <3>3 DEF Range
  <2> QED BY <2>1
<1>9. \A b \in 1 .. NewBuckets : m.vvNew[b] \subseteq ids \ tried
  BY DEF Sound, NewAgrees
<1> HIDE DEF ids, tried
<1>10. /\ Len(m.vRandom) = m.nTried + m.nNew
       /\ \A n \in tried : m.mapInfo[n].nLastSuccess > 0 /\ m.mapInfo[n].nRefCount = 0
       /\ \A n \in ids \ tried : m.mapInfo[n].nRefCount \in 1 .. PerAddress
       /\ \A n \in ids : /\ m.mapInfo[n].service.ip \in DOMAIN m.mapAddr
                         /\ m.mapAddr[m.mapInfo[n].service.ip] = n
                         /\ m.mapInfo[n].nRandomPos \in 1 .. Len(m.vRandom)
                         /\ m.vRandom[m.mapInfo[n].nRandomPos] = n
       /\ Cardinality(tried) = m.nTried /\ Cardinality(ids \ tried) = m.nNew
       /\ \A n \in tried : Cardinality(Places(m, n)) = 1
       /\ \A n \in ids \ tried : Cardinality(BucketsOf(m, n)) = m.mapInfo[n].nRefCount
       /\ \A k \in 1 .. TriedBuckets : Range(m.vvTried[k]) \subseteq tried
       /\ \A b \in 1 .. NewBuckets : m.vvNew[b] \subseteq ids \ tried
  BY <1>1, <1>2, <1>3, <1>4, <1>5, <1>6, <1>7, <1>8, <1>9
<1> QED BY <1>10, Zenon DEF Check_, ids, tried, Places

-----------------------------------------------------------------------------
(* Every step.                                                              *)

\* Add_ of an address that is known, as a step.
LEMMA AddKnownStep ==
    ASSUME am \in Tables, Sound(am), NEW s \in Service, NEW src \in Source, AddKnown(s, src)
    PROVE  am' \in Tables /\ Sound(am')
<1>1. PICK n \in Find(am, s) :
        /\ ~am.mapInfo[n].fInTried /\ am.mapInfo[n].nRefCount # PerAddress
        /\ am' \in AddToBucket(am, n, GetNewBucket[<<am.mapInfo[n].service.ip, src>>])
  BY DEF AddKnown
<1>2. n \in DOMAIN am.mapInfo
  BY DEF Find
<1> DEFINE z == am'
<1> HIDE DEF z
<1>3. z \in AddToBucket(am, n, GetNewBucket[<<am.mapInfo[n].service.ip, src>>])
  BY <1>1 DEF z
<1>4. z \in Tables /\ Sound(z)
  BY <1>1, <1>2, <1>3, AddKnownKeeps
<1> QED BY <1>4 DEF z

\* Add_ of an address that is not.
LEMMA AddNewStep ==
    ASSUME am \in Tables, Sound(am), NEW s \in Service, NEW src \in Source, AddNew(s, src)
    PROVE  am' \in Tables /\ Sound(am')
<1> DEFINE z == am'
<1>1. /\ Find(am, s) = {}
      /\ z \in AddToBucket([Create(am, s, src) EXCEPT !.nNew = @ + 1], am.nIdCount,
                           GetNewBucket[<<s.ip, src>>])
  BY DEF AddNew
<1> HIDE DEF z
<1>2. z \in Tables /\ Sound(z)
  BY <1>1, AddNewKeeps
<1> QED BY <1>2 DEF z

\* Good_.
LEMMA GoodStep ==
    ASSUME am \in Tables, Sound(am), NEW s \in Service, NEW t \in Time, Good(s, t)
    PROVE  am' \in Tables /\ Sound(am')
<1> DEFINE z == am'
<1>1. PICK n \in Find(am, s) :
        IF am.mapInfo[n].fInTried \/ BucketsOf(am, n) = {}
        THEN z = [am EXCEPT !.mapInfo[n].nLastSuccess = t]
        ELSE \E origin \in BucketsOf(am, n) :
               z \in MakeTried([am EXCEPT !.mapInfo[n].nLastSuccess = t], n, origin)
  BY DEF Good
<1>2. n \in DOMAIN am.mapInfo /\ t \in Nat /\ t # 0
  BY AddrAssumption DEF Find
<1> HIDE DEF z
<1>3. z \in Tables /\ Sound(z)
  BY <1>1, <1>2, GoodKeeps
<1> QED BY <1>3 DEF z

\* GetAddr_.
LEMMA GetAddrStep ==
    ASSUME am \in Tables, Sound(am), GetAddr
    PROVE  am' \in Tables /\ Sound(am')
<1> DEFINE size == Len(am.vRandom)
           part == (GetAddrPct * size) \div 100
           N == IF part > GetAddrMax THEN GetAddrMax ELSE part
<1>1. \E p \in [1 .. N -> 1 .. size] : (\A n \in 1 .. N : p[n] >= n) /\ am' = Shuffle(am, N, p)
  BY Zenon DEF GetAddr, Shuffle
<1>2. size \in Nat
  <2>1. am.vRandom \in Seq(Nat)
    BY TablesFields
  <2> QED BY <2>1, LenProperties
<1> HIDE DEF size
<1>3. N \in Nat
  <2> DEFINE a == GetAddrPct * size
  <2>1. a \in Nat
    BY <1>2, Sizes
  <2> HIDE DEF a
  <2>2. a \div 100 \in Nat
    BY <2>1
  <2> QED BY <2>2, Sizes DEF a
<1> HIDE DEF N
<1>4. PICK p \in [1 .. N -> 1 .. size] : (\A n \in 1 .. N : p[n] >= n) /\ am' = Shuffle(am, N, p)
  BY <1>1
<1>5. Shuffle(am, N, p) \in Tables /\ Sound(Shuffle(am, N, p))
  BY <1>3, <1>4, ShuffleKeeps DEF size
<1> QED BY <1>4, <1>5

\* A start without peers.dat, or with it.
LEMMA RestartStep ==
    ASSUME am \in Tables, Sound(am), Restart
    PROVE  am' \in Tables /\ Sound(am')
<1>1. am' = Empty \/ am' = Unserialize(Serialize(am))
  BY DEF Restart
<1>2. Empty \in Tables /\ Sound(Empty)
  BY EmptySound
<1>3. Unserialize(Serialize(am)) \in Tables /\ Sound(Unserialize(Serialize(am)))
  BY UnserializeIs DEF Reloaded
<1> QED BY <1>1, <1>2, <1>3

\* The invariant.
TablesSound == am \in Tables /\ Sound(am)

\* The tables always have their types, the two ways of every index agree, each tried entry
\* has one place, each new entry as many buckets as its count says, and the counters are
\* the numbers of the entries: whatever Add_, Good_, GetAddr_ and a restart do, in any
\* order (addrman.cpp, addrman.h).
THEOREM TablesAlwaysSound == Spec => []TablesSound
<1>1. Init => TablesSound
  BY EmptySound DEF Init, TablesSound
<1>2. TablesSound /\ [Next]_am => TablesSound'
  <2> SUFFICES ASSUME am \in Tables, Sound(am), [Next]_am PROVE am' \in Tables /\ Sound(am')
    BY DEF TablesSound
  <2>1. ASSUME NEW g \in Gossip, AddKnown(g[1], g[2]) \/ AddNew(g[1], g[2])
        PROVE  am' \in Tables /\ Sound(am')
    <3>1. g[1] \in Service /\ g[2] \in Source
      BY AddrAssumption
    <3> QED BY <2>1, <3>1, AddKnownStep, AddNewStep
  <2>2. ASSUME NEW s \in Service, NEW t \in Time, Good(s, t) PROVE am' \in Tables /\ Sound(am')
    BY <2>2, GoodStep
  <2>3. CASE GetAddr
    BY <2>3, GetAddrStep
  <2>4. CASE Restart
    BY <2>4, RestartStep
  <2>5. CASE UNCHANGED am
    BY <2>5
  <2> QED BY <2>1, <2>2, <2>3, <2>4, <2>5 DEF Next
<1> QED BY <1>1, <1>2, PTL DEF Spec

\* CAddrMan::Check_ returns 0 after every operation and no bucket outgrows its size, for
\* any addresses, sources, hash functions and sizes (TablesAgree).
THEOREM TablesAlwaysAgree == Spec => []TablesAgree
<1>1. TablesSound => TablesAgree
  <2> SUFFICES ASSUME am \in Tables, Sound(am) PROVE TablesAgree
    BY DEF TablesSound
  <2>1. Check_(am)
    BY SoundChecks
  <2>2. /\ \A b \in 1 .. NewBuckets : Cardinality(am.vvNew[b]) <= NewBucketSize
        /\ \A k \in 1 .. TriedBuckets : Len(am.vvTried[k]) <= TriedBucketSize
    BY DEF Sound, NewAgrees, TriedAgrees
  <2> QED BY <2>1, <2>2 DEF TablesAgree
<1> QED BY <1>1, TablesAlwaysSound, PTL

\* peers.dat, written in any state that the program reaches and read back, gives tables that
\* Check_ accepts, and every address its tables, its counts and its buckets again: no tried
\* entry is lost to a full bucket and no new entry to the limit of its buckets
\* (ReloadKeepsTables; the serialisation of addrman.h).
THEOREM ReloadAlwaysKeepsTables == Spec => []ReloadKeepsTables
<1>1. TablesSound => ReloadKeepsTables
  <2> SUFFICES ASSUME am \in Tables, Sound(am) PROVE ReloadKeepsTables
    BY DEF TablesSound
  <2> DEFINE r == Unserialize(Serialize(am))
  <2>1. Reloaded(am, r)
    BY UnserializeIs
  <2>2. r \in Tables /\ Sound(r)
    BY <2>1 DEF Reloaded
  <2>3. Check_(r)
    BY <2>2, SoundChecks
  <2>4. About(r) = About(am)
    BY <2>1, AboutKept
  <2> QED BY <2>3, <2>4, Zenon DEF ReloadKeepsTables, About, AboutOf
<1> QED BY <1>1, TablesAlwaysSound, PTL

=============================================================================
