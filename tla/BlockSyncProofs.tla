-------------------------- MODULE BlockSyncProofs --------------------------
(***************************************************************************)
(* The download of blocks, for every chain, fork, limit and size of the     *)
(* queues: every variable keeps its type, and the server starts each batch  *)
(* at a block that the client has.                                          *)
(***************************************************************************)
EXTENDS BlockSync, TLAPS, WellFoundedInduction, FiniteSetTheorems

-----------------------------------------------------------------------------
(* Sets of numbers.                                                         *)

\* A set of numbers that is not empty has a least element.
LEMMA LeastNat ==
    ASSUME NEW S, S \subseteq Nat, S # {}
    PROVE  \E x \in S : \A y \in S : x <= y
<1> DEFINE R == { p \in Nat \X Nat : p[1] < p[2] }
<1>1. IsWellFoundedOn(R, Nat)
  BY NatLessThanWellFounded DEF OpToRel
<1> HIDE DEF R
<1>2. PICK x \in S : \A y \in S : <<y, x>> \notin R
  BY <1>1, WFMin
<1>3. \A y \in S : y \in Nat /\ x \in Nat /\ ~(y < x)
  BY <1>2 DEF R
<1>4. \A y \in S : x <= y
  BY <1>3
<1> QED BY <1>4

\* Min of a set of numbers that is not empty.
LEMMA MinIsIn ==
    ASSUME NEW S, S \subseteq Nat, S # {}
    PROVE  Min(S) \in S /\ \A y \in S : Min(S) <= y
BY LeastNat DEF Min

\* Max of a set of numbers that has a bound and is not empty.
LEMMA MaxIsIn ==
    ASSUME NEW S, NEW n \in Nat, S \subseteq 0..n, S # {}
    PROVE  Max(S) \in S /\ \A y \in S : y <= Max(S)
<1> DEFINE R == { n - x : x \in S }
<1>1. R \subseteq Nat /\ R # {}
  <2>1. \A x \in S : x \in Int /\ x <= n
    OBVIOUS
  <2>2. \A x \in S : n - x \in Nat
    BY <2>1
  <2> QED BY <2>2
<1>2. \E r \in R : \A q \in R : r <= q
  <2> HIDE DEF R
  <2> QED BY <1>1, LeastNat
<1>3. PICK x \in S : \A y \in S : n - x <= n - y
  BY <1>2
<1>4. \A y \in S : x \in 0..n /\ y \in 0..n /\ x >= y
  BY <1>3
<1>5. Max(S) \in S /\ \A y \in S : Max(S) >= y
  BY <1>4 DEF Max
<1>6. \A y \in S : Max(S) \in 0..n /\ y \in 0..n
  BY <1>5
<1> QED BY <1>5, <1>6

-----------------------------------------------------------------------------
(* The loops, which are functions by recursion on the number of the step.   *)

\* f starts in T and no step leaves T.
StepsStayIn(T, lo, n, f) ==
    /\ lo \in Nat /\ n \in Nat
    /\ f[lo] \in T
    /\ \A k \in (lo + 1)..n : f[k - 1] \in T => f[k] \in T

\* Then f is in T at every step.
LEMMA EveryStep ==
    ASSUME NEW T, NEW lo, NEW n, NEW f, StepsStayIn(T, lo, n, f)
    PROVE  \A k \in lo..n : f[k] \in T
<1> USE DEF StepsStayIn
<1> DEFINE S == { k \in lo..n : f[k] \notin T }
<1> SUFFICES ASSUME S # {} PROVE FALSE
  OBVIOUS
<1>1. S \subseteq Nat
  OBVIOUS
<1>2. \E k \in S : \A j \in S : k <= j
  <2> HIDE DEF S
  <2> QED BY <1>1, LeastNat
<1>3. PICK k \in S : \A j \in S : k <= j
  BY <1>2
<1>4. k \in (lo + 1)..n /\ k - 1 \in lo..n /\ k - 1 < k
  BY <1>3
<1>5. k - 1 \notin S
  <2> HIDE DEF S
  <2> QED BY <1>3, <1>4
<1> QED BY <1>3, <1>4, <1>5

\* The data of a definition by recursion, and a function that it defines.
StepData(T, lo, n, s, F) ==
    /\ lo \in Nat /\ n \in Nat /\ lo <= n
    /\ s \in T /\ F \in [T \X Int -> T]
Steps(f, lo, n, s, F) == \A k \in lo..n : f[k] = IF k = lo THEN s ELSE F[<<f[k - 1], k>>]

\* There is a function that starts with s and whose every other step is F of the
\* one before.
LEMMA StepsExist ==
    ASSUME NEW T, NEW lo, NEW n, NEW s, NEW F, StepData(T, lo, n, s, F)
    PROVE  \E f \in [lo..n -> T] : Steps(f, lo, n, s, F)
<1> USE DEF StepData, Steps
<1> DEFINE Sol(f, m) == /\ f \in [lo..m -> T]
                        /\ \A k \in lo..m : f[k] = IF k = lo THEN s ELSE F[<<f[k - 1], k>>]
           S == { m \in lo..n : ~\E f : Sol(f, m) }
<1> SUFFICES ASSUME S # {} PROVE FALSE
  OBVIOUS
<1>1. S \subseteq Nat
  OBVIOUS
<1>2. \E m \in S : \A j \in S : m <= j
  <2> HIDE DEF S
  <2> QED BY <1>1, LeastNat
<1>3. PICK m \in S : \A j \in S : m <= j
  BY <1>2
<1>4. m # lo
  <2>1. Sol([k \in lo..lo |-> s], lo)
    OBVIOUS
  <2> HIDE DEF Sol
  <2> QED BY <1>3, <2>1
<1>5. m \in lo..n /\ m - 1 \in lo..n /\ m - 1 < m /\ m \in Nat
  BY <1>3, <1>4
<1>6. m - 1 \notin S
  <2> HIDE DEF S
  <2> QED BY <1>3, <1>5
<1>7. PICK f : Sol(f, m - 1)
  BY <1>5, <1>6
<1> DEFINE g == [k \in lo..m |-> IF k = m THEN F[<<f[m - 1], m>>] ELSE f[k]]
<1>8. g \in [lo..m -> T]
  BY <1>5, <1>7
<1>9. ASSUME NEW k \in lo..m PROVE g[k] = IF k = lo THEN s ELSE F[<<g[k - 1], k>>]
  <2>1. CASE k = m
    <3>1. g[k - 1] = f[m - 1] /\ g[k] = F[<<f[m - 1], m>>]
      BY <1>5, <2>1
    <3> QED BY <3>1, <1>4, <2>1
  <2>2. CASE k # m /\ k # lo
    <3>1. k \in lo..(m - 1) /\ k - 1 \in lo..(m - 1)
      BY <1>5, <2>2
    <3>2. g[k] = f[k] /\ g[k - 1] = f[k - 1]
      BY <1>5, <2>2, <3>1
    <3> QED BY <3>1, <3>2, <1>7, <2>2
  <2>3. CASE k = lo
    <3>1. k \in lo..(m - 1) /\ k # m
      BY <1>4, <1>5, <2>3
    <3> QED BY <3>1, <1>7, <2>3
  <2> QED BY <2>1, <2>2, <2>3
<1>10. Sol(g, m)
  <2> HIDE DEF g
  <2> QED BY <1>8, <1>9
<1> QED BY <1>3, <1>10

-----------------------------------------------------------------------------
(* Sequences.                                                               *)

\* The sequences over S are sequences over every larger set.
LEMMA SeqOfSubset ==
    ASSUME NEW S, NEW T, S \subseteq T
    PROVE  Seq(S) \subseteq Seq(T)
OBVIOUS

\* FlattenSeq of sequences over T is a sequence over T.
LEMMA FlattenType ==
    ASSUME NEW T, NEW ss \in Seq(Seq(T))
    PROVE  FlattenSeq(ss) \in Seq(T)
<1> DEFINE n == Len(ss)
           Is(g) == g = [i \in 1..n |-> IF i = 1 THEN ss[i] ELSE g[i - 1] \o ss[i]]
           at == CHOOSE g : Is(g)
           Q == Seq(T)
           F == [p \in Q \X Int |-> IF p[2] \in 1..n THEN p[1] \o ss[p[2]] ELSE p[1]]
<1>1. CASE n = 0
  BY <1>1 DEF FlattenSeq
<1>2. CASE n # 0
  <2>1. n \in Nat /\ 1 <= n
    BY <1>2
  <2>2. \A i \in 1..n : ss[i] \in Q
    <3> HIDE DEF Q
    <3>1. ss \in Seq(Q)
      BY DEF Q
    <3> QED BY <3>1
  <2>3. \A q \in Q, r \in Q : q \o r \in Q
    OBVIOUS
  <2> HIDE DEF n, Q
  <2>4. F \in [Q \X Int -> Q]
    BY <2>2, <2>3
  <2>5. StepData(Q, 1, n, ss[1], F)
    <3> HIDE DEF F
    <3> QED BY <2>1, <2>2, <2>4 DEF StepData
  <2>6. PICK f \in [1..n -> Q] : Steps(f, 1, n, ss[1], F)
    <3> HIDE DEF F
    <3> QED BY <2>5, StepsExist
  <2>7. \A k \in 1..n : f[k] = IF k = 1 THEN ss[k] ELSE f[k - 1] \o ss[k]
    <3> SUFFICES ASSUME NEW k \in 1..n, k # 1 PROVE f[k] = f[k - 1] \o ss[k]
      BY <2>6 DEF Steps
    <3>1. k - 1 \in 1..n /\ k \in Int
      BY <2>1
    <3>2. f[k] = F[<<f[k - 1], k>>]
      BY <2>6 DEF Steps
    <3> QED BY <3>1, <3>2, <2>6
  <2>8. Is(f)
    BY <2>6, <2>7
  <2>9. Is(at)
    <3> HIDE DEF Is
    <3> QED BY <2>8
  <2>10. FlattenSeq(ss) = at[n]
    BY <1>2 DEF FlattenSeq, n
  <2> HIDE DEF at
  <2>11. StepsStayIn(Q, 1, n, at)
    <3>1. at[1] \in Q
      BY <2>1, <2>2, <2>9
    <3>2. ASSUME NEW k \in 2..n, at[k - 1] \in Q PROVE at[k] \in Q
      <4>1. k \in 1..n /\ k # 1
        BY <2>1
      <4>2. at[k] = IF k = 1 THEN ss[k] ELSE at[k - 1] \o ss[k]
        BY <4>1, <2>9
      <4>3. at[k] = at[k - 1] \o ss[k] /\ ss[k] \in Q
        BY <4>1, <4>2, <2>2
      <4> QED BY <4>3, <2>3, <3>2
    <3> QED BY <2>1, <3>1, <3>2 DEF StepsStayIn
  <2>12. at[n] \in Q
    BY <2>1, <2>11, EveryStep
  <2> QED BY <2>10, <2>12 DEF Q
<1> QED BY <1>1, <1>2

\* Keep returns elements of s at places of P.
LEMMA KeepType ==
    ASSUME NEW T, NEW s \in Seq(T), NEW P
    PROVE  Keep(s, P) \in Seq({ s[i] : i \in P \cap DOMAIN s })
<1> DEFINE K == { s[i] : i \in P \cap DOMAIN s }
           ss == [i \in DOMAIN s |-> IF i \in P THEN <<s[i]>> ELSE << >>]
           Q == Seq(K)
<1>1. << >> \in Q /\ \A k \in K : <<k>> \in Q
  <2> HIDE DEF K
  <2> QED OBVIOUS
<1>2. \A i \in DOMAIN s : ss[i] \in Q
  <2> HIDE DEF Q
  <2> QED BY <1>1
<1>3. Len(s) \in Nat /\ DOMAIN s = 1..Len(s)
  OBVIOUS
<1>4. ss \in Seq(Q)
  <2> DEFINE n == Len(s)
  <2>1. n \in Nat /\ ss = [i \in 1..n |-> ss[i]] /\ \A i \in 1..n : ss[i] \in Q
    BY <1>2, <1>3
  <2> HIDE DEF ss, Q, n
  <2>2. ss \in [1..n -> Q]
    BY <2>1
  <2> QED BY <2>1, <2>2
<1>5. FlattenSeq(ss) \in Seq(K)
  <2> HIDE DEF ss, K
  <2> QED BY <1>4, FlattenType
<1> QED BY <1>5 DEF Keep

\* Without returns elements of s that are not in S.
LEMMA WithoutType ==
    ASSUME NEW T, NEW s \in Seq(T), NEW S
    PROVE  Without(s, S) \in Seq(T)
<1> DEFINE P == { i \in DOMAIN s : s[i] \notin S }
           K == { s[i] : i \in P \cap DOMAIN s }
<1>1. K \subseteq T
  OBVIOUS
<1>2. Keep(s, P) \in Seq(K)
  <2> HIDE DEF P
  <2> QED BY KeepType
<1>3. Keep(s, P) \in Seq(T)
  <2> HIDE DEF P, K
  <2> QED BY <1>1, <1>2, SeqOfSubset
<1> QED BY <1>3 DEF Without

-----------------------------------------------------------------------------
(* The locator.                                                             *)

\* The entries of a locator go back.
LEMMA EntryType == \A k \in 1..(MaxTip + 1) : Entry[k] \in [back : Nat, nStep : Nat]
<1> DEFINE n == MaxTip + 1
           T == [back : Nat, nStep : Nat]
           s == [back |-> 0, nStep |-> 1]
           Step(e, k) == [back  |-> e.back + e.nStep,
                          nStep |-> IF k - 1 > Dense THEN 2 * e.nStep ELSE e.nStep]
           F == [p \in T \X Int |-> Step(p[1], p[2])]
           Is(g) == g = [k \in 1..n |-> IF k = 1 THEN s ELSE Step(g[k - 1], k)]
<1>1. n \in Nat /\ 1 <= n /\ Dense \in Nat
  BY SyncAssumption
<1>2. s \in T /\ \A e \in T, k \in Int : Step(e, k) \in T
  BY <1>1
<1> HIDE DEF T, Step
<1>3. StepData(T, 1, n, s, F)
  <2> HIDE DEF s, n
  <2> QED BY <1>1, <1>2 DEF StepData
<1>4. PICK f \in [1..n -> T] : Steps(f, 1, n, s, F)
  <2> HIDE DEF F, s, n
  <2> QED BY <1>3, StepsExist
<1> HIDE DEF s, n
<1>5. ASSUME NEW k \in 1..n PROVE f[k] = IF k = 1 THEN s ELSE Step(f[k - 1], k)
  <2>1. f[k] = IF k = 1 THEN s ELSE F[<<f[k - 1], k>>]
    BY <1>4 DEF Steps
  <2>2. k # 1 => k - 1 \in 1..n /\ k \in Int
    BY <1>1
  <2> QED BY <2>1, <2>2, <1>4
<1>6. Is(f)
  BY <1>4, <1>5
<1>7. Is(Entry)
  <2>1. Entry = CHOOSE g : Is(g)
    BY DEF Entry, Step, s, n
  <2> HIDE DEF Is
  <2> QED BY <1>6, <2>1
<1>8. StepsStayIn(T, 1, n, Entry)
  <2>1. Entry[1] \in T
    BY <1>1, <1>2, <1>7
  <2>2. ASSUME NEW k \in 2..n, Entry[k - 1] \in T PROVE Entry[k] \in T
    <3>1. k \in 1..n /\ k # 1 /\ k \in Int
      BY <1>1
    <3>2. Entry[k] = IF k = 1 THEN s ELSE Step(Entry[k - 1], k)
      BY <1>7, <3>1
    <3> QED BY <1>2, <2>2, <3>1, <3>2
  <2> QED BY <1>1, <2>1, <2>2 DEF StepsStayIn
<1>9. \A k \in 1..n : Entry[k] \in T
  BY <1>8, EveryStep
<1> QED BY <1>9 DEF n, T

\* A locator of a block of the index is made of blocks of the index.
LEMMA LocatorInIndex ==
    ASSUME SyncInv, NEW b \in index
    PROVE  Locator(b) \subseteq index /\ 0 \in Locator(b)
<1>1. b \in Blocks /\ Height(b) \in Nat /\ Height(b) <= MaxTip
  BY SyncAssumption DEF SyncInv, TypeOK, Blocks, Height
<1>2. 0 \in index
  <2>1. Ancestor(b, 0) \in index
    BY <1>1 DEF SyncInv, IndexIsClosed
  <2> QED BY <2>1, SyncAssumption DEF Ancestor
<1>3. ASSUME NEW k \in 1..(Height(b) + 1), Height(b) - Entry[k].back \in Nat
      PROVE  Ancestor(b, Height(b) - Entry[k].back) \in index
  <2>1. k \in 1..(MaxTip + 1)
    BY <1>1, SyncAssumption
  <2>2. Entry[k].back \in Nat
    BY <2>1, EntryType
  <2>3. Height(b) - Entry[k].back \in 0..Height(b)
    BY <1>1, <1>3, <2>2
  <2> QED BY <2>3 DEF SyncInv, IndexIsClosed
<1> QED BY <1>2, <1>3 DEF Locator

\* The server finds a block of the index on its chain.
LEMMA GetBlockIndexKnown ==
    ASSUME SyncInv, NEW b \in index
    PROVE  GetBlockIndex(b) \in index \cap 0..tip
<1> DEFINE S == Locator(b) \cap 0..tip
<1>1. tip \in Nat
  BY SyncAssumption DEF SyncInv, TypeOK
<1>2. S \subseteq 0..tip /\ S # {} /\ S \subseteq index
  BY <1>1, LocatorInIndex
<1>3. Max(S) \in S
  <2> HIDE DEF S
  <2> QED BY <1>1, <1>2, MaxIsIn
<1> QED BY <1>2, <1>3 DEF GetBlockIndex

-----------------------------------------------------------------------------
(* The inventory.                                                           *)

\* The sets that mruset can hold, over the blocks of S.
KnownSets(S) == { s \in Seq(S) : Len(s) <= KnownMax /\ IsInjective(s) }

\* mruset::insert keeps the bound, and no element is twice in the queue.
LEMMA InsertKnownType ==
    ASSUME NEW S, NEW s \in KnownSets(S), NEW b \in S
    PROVE  InsertKnown(s, b) \in KnownSets(S)
<1>1. s \in Seq(S) /\ Len(s) \in Nat /\ Len(s) <= KnownMax /\ IsInjective(s) /\ KnownMax \in Nat \ {0}
  BY SyncAssumption DEF KnownSets
<1>2. CASE Contains(s, b)
  BY <1>2 DEF InsertKnown
<1>3. CASE ~Contains(s, b) /\ Len(s) # KnownMax
  <2> DEFINE r == Append(s, b)
  <2>1. r \in Seq(S) /\ Len(r) = Len(s) + 1 /\ r[Len(s) + 1] = b
        /\ \A i \in 1..Len(s) : r[i] = s[i] /\ s[i] # b
    BY <1>1, <1>3 DEF Contains
  <2>2. Len(r) <= KnownMax
    BY <1>1, <1>3, <2>1
  <2>3. DOMAIN r = 1..(Len(s) + 1) /\ DOMAIN s = 1..Len(s)
    BY <1>1, <2>1
  <2> HIDE DEF r
  <2>4. IsInjective(r)
    BY <1>1, <2>1, <2>3 DEF IsInjective
  <2>5. InsertKnown(s, b) = r
    BY <1>3 DEF InsertKnown, r
  <2> QED BY <2>1, <2>2, <2>4, <2>5 DEF KnownSets
<1>4. CASE ~Contains(s, b) /\ Len(s) = KnownMax
  <2> DEFINE r == Append(Tail(s), b)
             n == Len(s)
  <2>1. s # << >> /\ n \in Nat \ {0}
    BY <1>1, <1>4
  <2>2. Tail(s) \in Seq(S) /\ Len(Tail(s)) = n - 1 /\ \A i \in 1..(n - 1) : Tail(s)[i] = s[i + 1]
    BY <1>1, <2>1
  <2>3. r \in Seq(S) /\ Len(r) = n /\ r[n] = b /\ \A i \in 1..(n - 1) : r[i] = Tail(s)[i]
    BY <2>1, <2>2
  <2>4. \A i \in 1..n : s[i] # b
    BY <1>4 DEF Contains
  <2>5. DOMAIN r = 1..n /\ DOMAIN s = 1..n
    BY <1>1, <2>3
  <2> HIDE DEF r, n
  <2>6. IsInjective(r)
    <3> SUFFICES ASSUME NEW i \in 1..n, NEW j \in 1..n, r[i] = r[j] PROVE i = j
      BY <2>5 DEF IsInjective
    <3>1. CASE i = n \/ j = n
      BY <3>1, <2>1, <2>2, <2>3, <2>4
    <3>2. CASE i # n /\ j # n
      <4>1. r[i] = s[i + 1] /\ r[j] = s[j + 1] /\ i + 1 \in 1..n /\ j + 1 \in 1..n
        BY <3>2, <2>1, <2>2, <2>3
      <4>2. i + 1 = j + 1
        BY <4>1, <1>1, <2>5 DEF IsInjective
      <4> QED BY <4>2
    <3> QED BY <3>1, <3>2
  <2>7. InsertKnown(s, b) = r
    BY <1>4 DEF InsertKnown, r
  <2> QED BY <1>4, <2>3, <2>6, <2>7 DEF KnownSets, n
<1> QED BY <1>2, <1>3, <1>4

\* The loop over vInventoryToSend.
LEMMA OfferType ==
    ASSUME NEW S, known \in KnownSets(S), toSend \in Seq(S)
    PROVE  Offer.known \in KnownSets(S) /\ Offer.inv \in Seq(S)
<1> DEFINE n == Len(toSend)
           K == KnownSets(S)
           Q == Seq(S)
           T == [known : K, inv : Q]
           s == [known |-> known, inv |-> << >>]
           Step(o, b) == [known |-> InsertKnown(o.known, b),
                          inv   |-> IF Contains(o.known, b) THEN o.inv ELSE Append(o.inv, b)]
           F == [p \in T \X Int |-> IF p[2] \in 1..n THEN Step(p[1], toSend[p[2]]) ELSE p[1]]
           Is(g) == g = [i \in 0..n |-> IF i = 0 THEN s ELSE Step(g[i - 1], toSend[i])]
           at == CHOOSE g : Is(g)
<1>1. n \in Nat /\ \A i \in 1..n : toSend[i] \in S
  OBVIOUS
<1>2. << >> \in Q /\ \A q \in Q, b \in S : Append(q, b) \in Q
  OBVIOUS
<1>3. \A k \in K, b \in S : InsertKnown(k, b) \in K
  BY InsertKnownType
<1> HIDE DEF n, K, Q
<1>4. s \in T /\ \A o \in T, b \in S : Step(o, b) \in T
  BY <1>2, <1>3 DEF K
<1> HIDE DEF T, Step, s
<1>5. StepData(T, 0, n, s, F)
  BY <1>1, <1>4 DEF StepData
<1>6. PICK f \in [0..n -> T] : Steps(f, 0, n, s, F)
  <2> HIDE DEF F
  <2> QED BY <1>5, StepsExist
<1>7. ASSUME NEW i \in 0..n PROVE f[i] = IF i = 0 THEN s ELSE Step(f[i - 1], toSend[i])
  <2>1. f[i] = IF i = 0 THEN s ELSE F[<<f[i - 1], i>>]
    BY <1>6 DEF Steps
  <2>2. i # 0 => i - 1 \in 0..n /\ i \in 1..n /\ i \in Int
    BY <1>1
  <2> QED BY <2>1, <2>2, <1>6
<1>8. Is(f)
  BY <1>6, <1>7
<1>9. Is(at)
  <2> HIDE DEF Is
  <2> QED BY <1>8
<1>10. Offer = at[n]
  BY DEF Offer, Step, s, n
<1> HIDE DEF at
<1>11. StepsStayIn(T, 0, n, at)
  <2>1. at[0] \in T
    BY <1>1, <1>4, <1>9
  <2>2. ASSUME NEW i \in 1..n, at[i - 1] \in T PROVE at[i] \in T
    <3>1. i \in 0..n /\ i # 0 /\ toSend[i] \in S
      BY <1>1
    <3>2. at[i] = IF i = 0 THEN s ELSE Step(at[i - 1], toSend[i])
      BY <1>9, <3>1
    <3> QED BY <1>4, <2>2, <3>1, <3>2
  <2> QED BY <1>1, <2>1, <2>2 DEF StepsStayIn
<1>12. at[n] \in T
  BY <1>1, <1>11, EveryStep
<1> QED BY <1>10, <1>12 DEF T, K, Q

\* PushInventory queues blocks of s.
LEMMA PushInventoryType ==
    ASSUME NEW S, toSend \in Seq(S), NEW s \in Seq(S)
    PROVE  PushInventory(s) \in Seq(S)
<1>1. Without(s, Range(known)) \in Seq(S)
  BY WithoutType
<1> QED BY <1>1 DEF PushInventory

-----------------------------------------------------------------------------
(* The inductive invariant.                                                 *)

\* At the start the client has the chain of the server up to ForkAt, and its fork.
LEMMA SyncInit == Init => SyncInv
<1> SUFFICES ASSUME Init PROVE SyncInv
  OBVIOUS
<1> USE SyncAssumption
<1>1. index = 0..ForkAt \cup Fork /\ index \subseteq Blocks
  BY DEF Init, Fork, Blocks
<1>2. StartBest \in index
  BY <1>1 DEF StartBest, Fork
<1>3. None \notin Blocks /\ GetBlocksFrom(StartBest, None) \in GetBlocksMessages
  BY <1>1, <1>2 DEF None, Blocks, GetBlocksFrom, GetBlocksMessages
<1>4. TypeOK
  <2>1. toServer \in Seq(ToServer)
    <3>1. GetBlocksFrom(StartBest, None) \in ToServer
      BY <1>3 DEF ToServer
    <3> HIDE DEF GetBlocksFrom, ToServer
    <3> QED BY <3>1 DEF Init
  <2>2. IsInjective(known) /\ Len(known) <= KnownMax
    BY DEF Init, IsInjective
  <2>3. orphans = {} /\ Cardinality(orphans) = 0 /\ Cardinality(orphans) <= MaxOrphanBlocks + 1
    BY FS_EmptySet DEF Init
  <2> QED BY <1>1, <1>2, <1>3, <2>1, <2>2, <2>3 DEF Init, TypeOK
<1>5. IndexIsClosed
  <2> SUFFICES ASSUME NEW b \in index, NEW h \in 0..Height(b) PROVE Ancestor(b, h) \in index
    BY DEF IndexIsClosed
  <2> QED BY <1>1 DEF Height, Ancestor, Fork
<1>6. LocatorsAreOfIndex
  BY <1>2 DEF Init, LocatorsAreOfIndex, GetBlocksFrom
<1> QED BY <1>4, <1>5, <1>6 DEF SyncInv

\* The messages of M whose locators are of blocks of I.
Requests(M, I) == { m \in M : m.type = "getblocks" => m.begin \in I }

\* A channel of such messages.
LEMMA RequestsSeq ==
    ASSUME NEW M, NEW I, NEW c
    PROVE  c \in Seq(Requests(M, I)) <=>
             /\ c \in Seq(M)
             /\ \A i \in DOMAIN c : c[i].type = "getblocks" => c[i].begin \in I
<1>1. ASSUME c \in Seq(M), \A i \in DOMAIN c : c[i].type = "getblocks" => c[i].begin \in I
      PROVE  c \in Seq(Requests(M, I))
  <2>1. Len(c) \in Nat /\ DOMAIN c = 1..Len(c) /\ \A i \in DOMAIN c : c[i] \in M
    BY <1>1
  <2>2. \A i \in 1..Len(c) : c[i] \in Requests(M, I)
    BY <1>1, <2>1 DEF Requests
  <2> QED BY <1>1, <2>1, <2>2
<1>2. ASSUME c \in Seq(Requests(M, I))
      PROVE  /\ c \in Seq(M)
             /\ \A i \in DOMAIN c : c[i].type = "getblocks" => c[i].begin \in I
  <2>1. Requests(M, I) \subseteq M
    BY DEF Requests
  <2>2. \A i \in DOMAIN c : c[i] \in Requests(M, I)
    BY <1>2
  <2>3. \A i \in DOMAIN c : c[i].type = "getblocks" => c[i].begin \in I
    BY <2>2 DEF Requests
  <2> QED BY <1>2, <2>1, <2>3, SeqOfSubset
<1> QED BY <1>1, <1>2

\* The invariant in terms of these messages.
LEMMA InvParts ==
    ASSUME SyncInv
    PROVE  TypeOK /\ IndexIsClosed /\ toServer \in Seq(Requests(ToServer, index)) /\ tip \in Nat
<1>1. TypeOK /\ IndexIsClosed /\ LocatorsAreOfIndex
  BY DEF SyncInv
<1>2. toServer \in Seq(ToServer) /\ tip \in Nat
  BY <1>1, SyncAssumption DEF TypeOK
<1> QED BY <1>1, <1>2, RequestsSeq DEF LocatorsAreOfIndex

\* What a step has to show.
LEMMA InvNext ==
    ASSUME TypeOK', IndexIsClosed', toServer' \in Seq(Requests(ToServer', index'))
    PROVE  SyncInv'
<1>1. LocatorsAreOfIndex'
  BY RequestsSeq DEF LocatorsAreOfIndex
<1> QED BY <1>1 DEF SyncInv

\* What the handler of a message starts from.
LEMMA Received ==
    ASSUME NEW M, NEW c \in Seq(M), NEW t, Receives(c, t)
    PROVE  Head(c) \in M /\ Head(c).type = t /\ Tail(c) \in Seq(M)
BY DEF Receives

\* "getblocks" queues blocks of the chain of the server.
LEMMA StepGetBlocks == SyncInv /\ GetBlocks => SyncInv'
<1> SUFFICES ASSUME SyncInv, GetBlocks PROVE SyncInv'
  OBVIOUS
<1> USE SyncAssumption
<1> DEFINE m == Head(toServer)
           first == GetBlockIndex(m.begin) + 1
           last == Min({tip, first + nLimit - 1})
           stops == m.stop # None /\ m.stop \in first..last
           end == IF stops THEN m.stop - 1 ELSE last
           new == IF stops /\ m.stop # tip /\ m.stop + StakeAge > tip THEN <<tip>> ELSE << >>
           run == [i \in 1..(end - first + 1) |-> first + i - 1]
<1>1. TypeOK /\ IndexIsClosed /\ toServer \in Seq(Requests(ToServer, index)) /\ tip \in Nat
  BY InvParts
<1>2. /\ m \in Requests(ToServer, index) /\ m.type = "getblocks"
      /\ Tail(toServer) \in Seq(Requests(ToServer, index))
  BY <1>1, Received DEF GetBlocks
<1>3. m.begin \in index /\ m.stop \in Blocks \cup {None}
  BY <1>2 DEF Requests, ToServer, GetBlocksMessages
<1>4. first \in 1..(tip + 1)
  BY <1>1, <1>3, GetBlockIndexKnown
<1> HIDE DEF m, first
<1>5. last \in 0..tip /\ first <= last + 1 /\ (last = tip \/ last = first + nLimit - 1)
  <2> DEFINE two == {tip, first + nLimit - 1}
  <2>1. two \subseteq Nat /\ two # {}
    BY <1>1, <1>4
  <2>2. Min(two) \in two /\ \A y \in two : Min(two) <= y
    <3> HIDE DEF two
    <3> QED BY <2>1, MinIsIn
  <2> QED BY <1>1, <1>4, <2>2
<1> HIDE DEF last
<1>6. end \in 0..tip /\ first <= end + 1
  BY <1>1, <1>4, <1>5
<1> HIDE DEF end
<1>7. run \in Seq(0..tip)
  <2> DEFINE n == end - first + 1
  <2>1. n \in Nat /\ \A i \in 1..n : first + i - 1 \in 0..tip
    BY <1>1, <1>4, <1>6
  <2> HIDE DEF n
  <2>2. [i \in 1..n |-> first + i - 1] \in Seq(0..tip)
    BY <2>1
  <2> QED BY <2>2 DEF n
<1>8. new \in Seq(0..tip)
  <2>1. tip \in 0..tip
    BY <1>1
  <2>2. <<tip>> \in Seq(0..tip) /\ << >> \in Seq(0..tip)
    BY <2>1
  <2> HIDE DEF stops
  <2> QED BY <2>2
<1> HIDE DEF run, new
<1>9. PushInventory(run \o new) \in Seq(0..tip)
  <2>1. toSend \in Seq(0..tip) /\ run \o new \in Seq(0..tip)
    BY <1>1, <1>7, <1>8 DEF TypeOK
  <2> QED BY <2>1, PushInventoryType
<1>10. /\ toSend' = PushInventory(run \o new)
       /\ hashContinue' = IF ~stops /\ last = first + nLimit - 1 THEN last ELSE hashContinue
       /\ toServer' = Tail(toServer)
       /\ UNCHANGED <<client, tip, known, toClient, reconnects>>
  BY DEF GetBlocks, m, first, last, end, run, new
<1> HIDE DEF stops
<1>11. hashContinue' \in 0..tip \cup {None}
  BY <1>1, <1>5, <1>10 DEF TypeOK
<1>12. /\ Requests(ToServer', index') = Requests(ToServer, index)
       /\ ToServer' = ToServer /\ ToClient' = ToClient
  BY <1>10 DEF client, ToServer, ToClient
<1>13. toServer' \in Seq(Requests(ToServer', index')) /\ toServer' \in Seq(ToServer')
  <2>1. Requests(ToServer, index) \subseteq ToServer
    BY DEF Requests
  <2> QED BY <1>2, <1>10, <1>12, <2>1, SeqOfSubset
<1>14. TypeOK'
  BY <1>1, <1>9, <1>10, <1>11, <1>12, <1>13 DEF TypeOK, client
<1>15. IndexIsClosed'
  BY <1>1, <1>10 DEF client, IndexIsClosed
<1> QED BY <1>13, <1>14, <1>15, InvNext

\* The last proof-of-work block is a block of the server.
LEMMA LastPowType == ASSUME tip \in Nat PROVE LastPow \in 0..tip
<1> DEFINE S == {0} \cup (Pow \cap 0..tip)
<1>1. S \subseteq 0..tip /\ S # {}
  OBVIOUS
<1>2. Max(S) \in S
  <2> HIDE DEF S
  <2> QED BY <1>1, MaxIsIn
<1> QED BY <1>1, <1>2 DEF LastPow

\* "getdata" is answered with blocks of the server.
LEMMA StepGetData == SyncInv /\ GetData => SyncInv'
<1> SUFFICES ASSUME SyncInv, GetData PROVE SyncInv'
  OBVIOUS
<1> DEFINE inv == Head(toServer).inv
           Ends(i) == inv[i] = hashContinue /\ \A j \in 1..(i - 1) : inv[j] # inv[i]
           Answer(i) ==
               IF inv[i] \notin 0..tip THEN << >>
               ELSE <<[type |-> "block", block |-> inv[i]]>>
                      \o (IF Ends(i) THEN <<[type |-> "inv", inv |-> <<LastPow>>]>> ELSE << >>)
           ss == [i \in DOMAIN inv |-> Answer(i)]
           M == ToClient
           Q == Seq(M)
<1>1. TypeOK /\ IndexIsClosed /\ toServer \in Seq(Requests(ToServer, index)) /\ tip \in Nat
  BY InvParts
<1>2. /\ Head(toServer) \in Requests(ToServer, index) /\ Head(toServer).type = "getdata"
      /\ Tail(toServer) \in Seq(Requests(ToServer, index))
  BY <1>1, Received DEF GetData
<1>3. inv \in Seq(0..tip)
  BY <1>2 DEF Requests, ToServer, GetBlocksMessages
<1> HIDE DEF inv
<1>4. [type |-> "inv", inv |-> <<LastPow>>] \in M
  <2>1. <<LastPow>> \in Seq(0..tip)
    BY <1>1, LastPowType
  <2> QED BY <2>1 DEF ToClient
<1>5. \A b \in 0..tip : [type |-> "block", block |-> b] \in M
  BY DEF ToClient
<1> HIDE DEF M
<1>6. /\ << >> \in Q /\ \A a \in M : <<a>> \in Q
      /\ \A q \in Q, r \in Q : q \o r \in Q
  OBVIOUS
<1> HIDE DEF Q, Ends
<1>7. \A i \in DOMAIN inv : Answer(i) \in Q
  <2> SUFFICES ASSUME NEW i \in DOMAIN inv, inv[i] \in 0..tip PROVE Answer(i) \in Q
    BY <1>6
  <2> DEFINE block == <<[type |-> "block", block |-> inv[i]]>>
             more == IF Ends(i) THEN <<[type |-> "inv", inv |-> <<LastPow>>]>> ELSE << >>
  <2>1. block \in Q
    BY <1>5, <1>6
  <2>2. more \in Q
    BY <1>4, <1>6
  <2>3. Answer(i) = block \o more
    OBVIOUS
  <2> HIDE DEF block, more, Answer
  <2> QED BY <1>6, <2>1, <2>2, <2>3
<1> HIDE DEF Answer
<1>8. ss \in Seq(Q)
  <2> DEFINE n == Len(inv)
  <2>1. n \in Nat /\ DOMAIN inv = 1..n
    BY <1>3
  <2> HIDE DEF n
  <2>2. ss \in [1..n -> Q]
    BY <1>7, <2>1
  <2> HIDE DEF ss
  <2> QED BY <2>1, <2>2
<1>9. FlattenSeq(ss) \in Q
  <2> HIDE DEF ss
  <2> QED BY <1>8, FlattenType DEF Q
<1> HIDE DEF ss
<1>10. /\ toClient' = toClient \o FlattenSeq(ss)
       /\ hashContinue' = IF Contains(inv, hashContinue) THEN None ELSE hashContinue
       /\ toServer' = Tail(toServer)
       /\ UNCHANGED <<client, tip, known, toSend, reconnects>>
  BY DEF GetData, inv, ss, Answer, Ends
<1>11. /\ Requests(ToServer', index') = Requests(ToServer, index)
       /\ ToServer' = ToServer /\ ToClient' = ToClient
  BY <1>10 DEF client, ToServer, ToClient
<1>12. toClient' \in Seq(ToClient')
  <2>1. toClient \in Q
    BY <1>1 DEF TypeOK, Q, M
  <2>2. toClient \o FlattenSeq(ss) \in Q
    BY <1>6, <1>9, <2>1
  <2> QED BY <1>10, <1>11, <2>2 DEF Q, M
<1>13. toServer' \in Seq(Requests(ToServer', index')) /\ toServer' \in Seq(ToServer')
  <2>1. Requests(ToServer, index) \subseteq ToServer
    BY DEF Requests
  <2> QED BY <1>2, <1>10, <1>11, <2>1, SeqOfSubset
<1>14. hashContinue' \in 0..tip \cup {None}
  BY <1>1, <1>10 DEF TypeOK
<1>15. TypeOK'
  BY <1>1, <1>10, <1>11, <1>12, <1>13, <1>14 DEF TypeOK, client
<1>16. IndexIsClosed'
  BY <1>1, <1>10 DEF client, IndexIsClosed
<1> QED BY <1>13, <1>15, <1>16, InvNext

\* SendMessages of the server.
LEMMA StepSendInventory == SyncInv /\ SendInventory => SyncInv'
<1> SUFFICES ASSUME SyncInv, SendInventory PROVE SyncInv'
  OBVIOUS
<1>1. TypeOK /\ IndexIsClosed /\ toServer \in Seq(Requests(ToServer, index)) /\ tip \in Nat
  BY InvParts
<1>2. /\ toClient' = IF Offer.inv = << >> THEN toClient
                     ELSE Append(toClient, [type |-> "inv", inv |-> Offer.inv])
      /\ known' = Offer.known /\ toSend' = << >>
      /\ UNCHANGED <<client, tip, hashContinue, toServer, reconnects>>
  BY DEF SendInventory
<1>3. Offer.known \in KnownSets(0..tip) /\ Offer.inv \in Seq(0..tip)
  <2>1. known \in KnownSets(0..tip) /\ toSend \in Seq(0..tip)
    BY <1>1 DEF TypeOK, KnownSets
  <2> QED BY <2>1, OfferType
<1>4. known' \in Seq(0..tip) /\ Len(known') <= KnownMax /\ IsInjective(known')
  BY <1>2, <1>3 DEF KnownSets
<1>5. toClient' \in Seq(ToClient)
  <2>1. [type |-> "inv", inv |-> Offer.inv] \in ToClient
    BY <1>3 DEF ToClient
  <2>2. toClient \in Seq(ToClient)
    BY <1>1 DEF TypeOK
  <2> QED BY <1>2, <2>1, <2>2
<1>6. /\ Requests(ToServer', index') = Requests(ToServer, index)
      /\ ToServer' = ToServer /\ ToClient' = ToClient
  BY <1>2 DEF client, ToServer, ToClient
<1>7. toServer' \in Seq(Requests(ToServer', index'))
  BY <1>1, <1>2, <1>6
<1>8. TypeOK'
  BY <1>1, <1>2, <1>4, <1>5, <1>6 DEF TypeOK, client
<1>9. IndexIsClosed'
  BY <1>1, <1>2 DEF client, IndexIsClosed
<1> QED BY <1>7, <1>8, <1>9, InvNext

\* A new block of the server only adds to what may be asked for.
LEMMA StepNewBlock == SyncInv /\ NewBlock => SyncInv'
<1> SUFFICES ASSUME SyncInv, NewBlock PROVE SyncInv'
  OBVIOUS
<1>1. TypeOK /\ IndexIsClosed /\ toServer \in Seq(Requests(ToServer, index)) /\ tip \in Nat
  BY InvParts
<1>2. /\ tip < MaxTip /\ tip' = tip + 1 /\ toSend' = PushInventory(<<tip + 1>>)
      /\ UNCHANGED <<client, known, hashContinue, toServer, toClient, reconnects>>
  BY DEF NewBlock
<1>3. 0..tip \subseteq 0..tip' /\ 1..tip \subseteq 1..tip' /\ tip' \in 0..tip' /\ tip' \in Nat
  BY <1>1, <1>2
<1>4. Seq(0..tip) \subseteq Seq(0..tip')
  BY <1>3, SeqOfSubset
<1>5. ToClient \subseteq ToClient' /\ ToServer \subseteq ToServer'
  <2> HIDE DEF GetBlocksMessages
  <2>1. ASSUME NEW m \in ToClient PROVE m \in ToClient'
    BY <1>3, <1>4 DEF ToClient
  <2>2. ASSUME NEW m \in ToServer PROVE m \in ToServer'
    BY <1>4 DEF ToServer, GetBlocksMessages, Blocks, None
  <2> QED BY <2>1, <2>2
<1>6. Requests(ToServer, index) \subseteq Requests(ToServer', index')
  BY <1>2, <1>5 DEF Requests, client
<1>7. toServer' \in Seq(Requests(ToServer', index')) /\ toServer' \in Seq(ToServer')
  <2>1. toServer' = toServer /\ Requests(ToServer', index') \subseteq ToServer'
    BY <1>2 DEF Requests
  <2> QED BY <1>1, <1>6, <2>1, SeqOfSubset
<1>8. toClient' \in Seq(ToClient')
  <2>1. toClient \in Seq(ToClient) /\ toClient' = toClient
    BY <1>1, <1>2 DEF TypeOK
  <2> QED BY <1>5, <2>1, SeqOfSubset
<1>9. toSend' \in Seq(0..tip')
  <2>1. toSend \in Seq(0..tip') /\ <<tip + 1>> \in Seq(0..tip')
    BY <1>1, <1>2, <1>3, <1>4 DEF TypeOK
  <2> QED BY <1>2, <2>1, PushInventoryType
<1>10. tip' \in StartTip..MaxTip
  BY <1>1, <1>2, SyncAssumption DEF TypeOK
<1>11. askFor' \in Seq(0..tip') /\ known' \in Seq(0..tip')
  BY <1>1, <1>2, <1>4 DEF TypeOK, client
<1>12. /\ orphans' \subseteq 1..tip' \ index' /\ hashContinue' \in 0..tip' \cup {None}
       /\ stakeSeen' \subseteq 1..tip' \ Pow /\ pruned' \subseteq 1..tip'
  BY <1>1, <1>2, <1>3 DEF TypeOK, client
<1>13. TypeOK'
  BY <1>1, <1>2, <1>7, <1>8, <1>9, <1>10, <1>11, <1>12
     DEF TypeOK, client, GetBlocksMessages
<1>14. IndexIsClosed'
  BY <1>1, <1>2 DEF client, IndexIsClosed
<1> QED BY <1>7, <1>13, <1>14, InvNext

\* The root of an orphan is an orphan, or the block itself.
LEMMA OrphanRootType ==
    ASSUME tip \in Nat, NEW S \in SUBSET (1..tip), NEW b \in 1..tip
    PROVE  GetOrphanRoot(b, S) \in 1..tip /\ WantedByOrphan(b, S) \in 0..tip
<1> DEFINE C == OrphanChain(b, S)
<1>1. C \subseteq 1..tip /\ b \in C
  <2>1. b <= b /\ \A d \in b..(b - 1) : d \in S
    OBVIOUS
  <2>2. b \in C
    BY <2>1 DEF OrphanChain
  <2> QED BY <2>2 DEF OrphanChain
<1>2. C \subseteq Nat /\ C # {}
  BY <1>1
<1>3. Min(C) \in C
  <2> HIDE DEF C
  <2> QED BY <1>2, MinIsIn
<1>4. GetOrphanRoot(b, S) \in 1..tip
  BY <1>1, <1>3 DEF GetOrphanRoot
<1> QED BY <1>4 DEF WantedByOrphan, Parent

\* PruneOrphanBlocks makes room for one more orphan.
LEMMA PruneMakesRoom ==
    ASSUME TypeOK, tip \in Nat, NEW left \in PruneOrphanBlocks, NEW b
    PROVE  left \subseteq orphans /\ Cardinality(left \cup {b}) <= MaxOrphanBlocks + 1
<1>1. /\ orphans \subseteq 1..tip /\ Cardinality(orphans) <= MaxOrphanBlocks + 1
      /\ MaxOrphanBlocks \in Nat
  BY SyncAssumption DEF TypeOK
<1>2. IsFiniteSet(orphans) /\ Cardinality(orphans) \in Nat
  <2>1. IsFiniteSet(1..tip)
    BY FS_Interval
  <2> QED BY <1>1, <2>1, FS_Subset, FS_CardinalityType
<1>3. left \subseteq orphans /\ IsFiniteSet(left) /\ Cardinality(left) <= MaxOrphanBlocks
  <2>1. CASE Cardinality(orphans) <= MaxOrphanBlocks
    BY <1>2, <2>1 DEF PruneOrphanBlocks
  <2>2. CASE ~(Cardinality(orphans) <= MaxOrphanBlocks)
    <3>1. PICK o \in orphans : left = orphans \ {o}
      BY <2>2 DEF PruneOrphanBlocks
    <3>2. IsFiniteSet(orphans \ {o}) /\ Cardinality(orphans \ {o}) = Cardinality(orphans) - 1
      BY <1>2, <3>1, FS_RemoveElement
    <3> QED BY <1>1, <1>2, <3>1, <3>2
  <2> QED BY <2>1, <2>2
<1>4. Cardinality(left) \in Nat
  BY <1>3, FS_CardinalityType
<1>5. Cardinality(left \cup {b}) \in {Cardinality(left), Cardinality(left) + 1}
  BY <1>3, FS_AddElement
<1> QED BY <1>1, <1>3, <1>4, <1>5

\* Fewer orphans are not too many.
LEMMA FewerOrphans ==
    ASSUME TypeOK, tip \in Nat, NEW S \in SUBSET orphans
    PROVE  Cardinality(S) <= MaxOrphanBlocks + 1
<1>1. /\ orphans \subseteq 1..tip /\ Cardinality(orphans) <= MaxOrphanBlocks + 1
      /\ MaxOrphanBlocks \in Nat
  BY SyncAssumption DEF TypeOK
<1>2. IsFiniteSet(orphans) /\ Cardinality(orphans) \in Nat
  <2>1. IsFiniteSet(1..tip)
    BY FS_Interval
  <2> QED BY <1>1, <2>1, FS_Subset, FS_CardinalityType
<1>3. IsFiniteSet(S) /\ Cardinality(S) \in Nat /\ Cardinality(S) <= Cardinality(orphans)
  BY <1>2, FS_Subset, FS_CardinalityType
<1> QED BY <1>1, <1>2, <1>3

\* PushGetBlocks of messages whose locators are of the index.
LEMMA PushGetBlocksType ==
    ASSUME SyncInv, NEW s \in Seq(Requests(GetBlocksMessages, index)), PushGetBlocks(s)
    PROVE  /\ lastGetBlocks' \in GetBlocksMessages
           /\ toServer' \in Seq(Requests(ToServer, index))
<1> DEFINE G == GetBlocksMessages
           R == Requests(G, index)
           W == Requests(ToServer, index)
           all == <<lastGetBlocks>> \o s
           P == { i \in DOMAIN s : all[i + 1] # all[i] }
<1>1. lastGetBlocks \in G /\ toServer \in Seq(W)
  BY InvParts DEF TypeOK
<1>2. R \subseteq G /\ R \subseteq W
  BY DEF Requests, ToServer
<1>3. lastGetBlocks' = all[Len(all)] /\ toServer' = toServer \o Keep(s, P)
  BY DEF PushGetBlocks, Last
<1> HIDE DEF P, G, R, W
<1>4. all \in Seq(G) /\ Len(all) = Len(s) + 1 /\ Len(s) \in Nat
  <2>1. s \in Seq(R)
    BY DEF R, G
  <2>2. s \in Seq(G)
    BY <1>2, <2>1, SeqOfSubset
  <2> QED BY <1>1, <2>2
<1>5. all[Len(all)] \in G
  <2> HIDE DEF all
  <2> QED BY <1>4
<1>6. Keep(s, P) \in Seq(W)
  <2> DEFINE K == { s[i] : i \in P \cap DOMAIN s }
  <2>1. s \in Seq(R)
    BY DEF R, G
  <2>2. Keep(s, P) \in Seq(K)
    BY <2>1, KeepType
  <2>3. K \subseteq W
    BY <1>2, <2>1
  <2> HIDE DEF K
  <2> QED BY <2>2, <2>3, SeqOfSubset
<1>7. toServer \o Keep(s, P) \in Seq(W)
  BY <1>1, <1>6
<1> QED BY <1>3, <1>5, <1>7 DEF G, W

\* The inventory makes the client ask for blocks of the server, with locators of
\* its index.
LEMMA StepInv == SyncInv /\ Inv => SyncInv'
<1> SUFFICES ASSUME SyncInv, Inv PROVE SyncInv'
  OBVIOUS
<1> DEFINE inv == Head(toClient).inv
           P == { i \in DOMAIN inv : \/ inv[i] \in orphans
                                     \/ i = Len(inv) /\ inv[i] \in index }
           Had == Keep(inv, P)
           K == { inv[i] : i \in P \cap DOMAIN inv }
           Ask(b) == IF b \in orphans THEN GetBlocksFrom(best, GetOrphanRoot(b, orphans))
                     ELSE GetBlocksFrom(b, None)
           s == [i \in DOMAIN Had |-> Ask(Had[i])]
           R == Requests(GetBlocksMessages, index)
<1>1. TypeOK /\ IndexIsClosed /\ toServer \in Seq(Requests(ToServer, index)) /\ tip \in Nat
  BY InvParts
<1>2. /\ Head(toClient) \in ToClient /\ Head(toClient).type = "inv"
      /\ Tail(toClient) \in Seq(ToClient)
  BY <1>1, Received DEF Inv, TypeOK
<1>3. inv \in Seq(0..tip)
  BY <1>2 DEF ToClient
<1>4. /\ askFor' = askFor \o Without(inv, AlreadyHave)
      /\ PushGetBlocks(s)
      /\ toClient' = Tail(toClient)
      /\ UNCHANGED <<index, best, orphans, stakeSeen, pruned, server, reconnects>>
  BY DEF Inv
<1> HIDE DEF inv
<1>5. askFor' \in Seq(0..tip)
  <2>1. Without(inv, AlreadyHave) \in Seq(0..tip) /\ askFor \in Seq(0..tip)
    BY <1>1, <1>3, WithoutType DEF TypeOK
  <2> QED BY <1>4, <2>1
<1>6. K \subseteq orphans \cup index
  OBVIOUS
<1>7. \A b \in K : Ask(b) \in R
  <2> SUFFICES ASSUME NEW b \in K PROVE Ask(b) \in R
    OBVIOUS
  <2>1. index \subseteq Blocks /\ best \in index /\ orphans \subseteq 1..tip /\ 1..tip \subseteq Blocks
    BY <1>1, SyncAssumption DEF TypeOK, Blocks
  <2>2. CASE b \in orphans
    <3>1. GetOrphanRoot(b, orphans) \in Blocks
      BY <1>1, <2>1, <2>2, OrphanRootType
    <3> QED BY <2>1, <2>2, <3>1 DEF GetBlocksFrom, Requests, GetBlocksMessages
  <2>3. CASE b \notin orphans
    <3>1. b \in index
      BY <1>6, <2>3
    <3> QED BY <2>1, <2>3, <3>1 DEF GetBlocksFrom, Requests, GetBlocksMessages
  <2> QED BY <2>2, <2>3
<1>8. Had \in Seq(K)
  <2> HIDE DEF P
  <2> QED BY <1>3, KeepType
<1> HIDE DEF Had, K, Ask
<1>9. s \in Seq(R)
  <2> HIDE DEF R
  <2>1. Len(Had) \in Nat /\ DOMAIN Had = 1..Len(Had) /\ \A i \in DOMAIN Had : Had[i] \in K
    BY <1>8
  <2>2. \A i \in 1..Len(Had) : Ask(Had[i]) \in R
    BY <1>7, <2>1
  <2> QED BY <2>1, <2>2
<1> HIDE DEF s
<1>10. /\ lastGetBlocks' \in GetBlocksMessages
       /\ toServer' \in Seq(Requests(ToServer, index))
  BY <1>4, <1>9, PushGetBlocksType
<1>11. /\ Requests(ToServer', index') = Requests(ToServer, index)
       /\ ToServer' = ToServer /\ ToClient' = ToClient /\ GetBlocksMessages' = GetBlocksMessages
  BY <1>4 DEF server, ToServer, ToClient, GetBlocksMessages
<1>12. toServer' \in Seq(ToServer')
  <2>1. Requests(ToServer, index) \subseteq ToServer
    BY DEF Requests
  <2> QED BY <1>10, <1>11, <2>1, SeqOfSubset
<1>13. TypeOK'
  BY <1>1, <1>2, <1>4, <1>5, <1>10, <1>11, <1>12 DEF TypeOK, server
<1>14. IndexIsClosed'
  BY <1>1, <1>4 DEF IndexIsClosed
<1> QED BY <1>10, <1>11, <1>13, <1>14, InvNext

\* SendMessages of the client.
LEMMA StepSendGetData == SyncInv /\ SendGetData => SyncInv'
<1> SUFFICES ASSUME SyncInv, SendGetData PROVE SyncInv'
  OBVIOUS
<1> DEFINE want == Without(askFor, AlreadyHave)
           m == [type |-> "getdata", inv |-> want]
           W == Requests(ToServer, index)
<1>1. TypeOK /\ IndexIsClosed /\ toServer \in Seq(W) /\ tip \in Nat
  BY InvParts
<1>2. /\ toServer' = IF want = << >> THEN toServer ELSE Append(toServer, m)
      /\ askFor' = << >>
      /\ UNCHANGED <<index, best, orphans, stakeSeen, pruned, lastGetBlocks, server, toClient,
                     reconnects>>
  BY DEF SendGetData
<1>3. want \in Seq(0..tip)
  BY <1>1, WithoutType DEF TypeOK
<1> HIDE DEF want
<1>4. m \in W
  BY <1>3 DEF Requests, ToServer
<1> HIDE DEF m
<1>5. /\ Requests(ToServer', index') = W
      /\ ToServer' = ToServer /\ ToClient' = ToClient
  BY <1>2 DEF server, ToServer, ToClient
<1>6. toServer' \in Seq(W)
  <2> HIDE DEF W
  <2> QED BY <1>1, <1>2, <1>4
<1>7. toServer' \in Seq(ToServer')
  <2>1. W \subseteq ToServer
    BY DEF Requests
  <2> HIDE DEF W
  <2> QED BY <1>5, <1>6, <2>1, SeqOfSubset
<1>8. TypeOK'
  BY <1>1, <1>2, <1>5, <1>7 DEF TypeOK, server
<1>9. IndexIsClosed'
  BY <1>1, <1>2 DEF IndexIsClosed
<1> QED BY <1>5, <1>6, <1>8, <1>9, InvNext

\* The message that ProcessBlock starts from.
LEMMA ReceivedBlock ==
    ASSUME SyncInv, Receives(toClient, "block")
    PROVE  Head(toClient).block \in 0..tip /\ Tail(toClient) \in Seq(ToClient)
<1>1. toClient \in Seq(ToClient)
  BY InvParts DEF TypeOK
<1>2. /\ Head(toClient) \in ToClient /\ Head(toClient).type = "block"
      /\ Tail(toClient) \in Seq(ToClient)
  BY <1>1, Received
<1> QED BY <1>2 DEF ToClient

\* A block that the client has already.
LEMMA StepBlockKnown == SyncInv /\ BlockKnown => SyncInv'
<1> SUFFICES ASSUME SyncInv, BlockKnown PROVE SyncInv'
  OBVIOUS
<1>1. TypeOK /\ IndexIsClosed /\ toServer \in Seq(Requests(ToServer, index)) /\ tip \in Nat
  BY InvParts
<1>2. /\ toClient' = Tail(toClient) /\ Tail(toClient) \in Seq(ToClient)
      /\ UNCHANGED <<client, server, toServer, reconnects>>
  BY ReceivedBlock DEF BlockKnown
<1>3. /\ Requests(ToServer', index') = Requests(ToServer, index)
      /\ ToServer' = ToServer /\ ToClient' = ToClient
  BY <1>2 DEF client, server, ToServer, ToClient
<1>4. TypeOK'
  BY <1>1, <1>2, <1>3 DEF TypeOK, client, server
<1>5. IndexIsClosed' /\ toServer' \in Seq(Requests(ToServer', index'))
  BY <1>1, <1>2, <1>3 DEF IndexIsClosed, client
<1> QED BY <1>4, <1>5, InvNext

\* An orphan whose stake was seen.
LEMMA StepBlockDuplicate == SyncInv /\ BlockDuplicate => SyncInv'
<1> SUFFICES ASSUME SyncInv, BlockDuplicate PROVE SyncInv'
  OBVIOUS
<1>1. TypeOK /\ IndexIsClosed /\ toServer \in Seq(Requests(ToServer, index)) /\ tip \in Nat
  BY InvParts
<1>2. /\ toClient' = Tail(toClient) /\ Tail(toClient) \in Seq(ToClient)
      /\ UNCHANGED <<client, server, toServer, reconnects>>
  BY ReceivedBlock DEF BlockDuplicate
<1>3. /\ Requests(ToServer', index') = Requests(ToServer, index)
      /\ ToServer' = ToServer /\ ToClient' = ToClient
  BY <1>2 DEF client, server, ToServer, ToClient
<1>4. TypeOK'
  BY <1>1, <1>2, <1>3 DEF TypeOK, client, server
<1>5. IndexIsClosed' /\ toServer' \in Seq(Requests(ToServer', index'))
  BY <1>1, <1>2, <1>3 DEF IndexIsClosed, client
<1> QED BY <1>4, <1>5, InvNext

\* A block without its parent is not the genesis block.
LEMMA StepBlockOrphan == SyncInv /\ BlockOrphan => SyncInv'
<1> SUFFICES ASSUME SyncInv, BlockOrphan PROVE SyncInv'
  OBVIOUS
<1> DEFINE b == Head(toClient).block
<1>1. TypeOK /\ IndexIsClosed /\ toServer \in Seq(Requests(ToServer, index)) /\ tip \in Nat
  BY InvParts
<1>2. b \in 0..tip /\ Tail(toClient) \in Seq(ToClient)
  BY ReceivedBlock DEF BlockOrphan
<1>0. PICK left \in PruneOrphanBlocks :
      /\ b \notin AlreadyHave /\ orphans' = left \cup {b}
      /\ pruned' = pruned \cup (orphans \ left) /\ stakeSeen' = stakeSeen \cup ({b} \ Pow)
      /\ PushGetBlocks(<<GetBlocksFrom(best, GetOrphanRoot(b, left))>>)
      /\ (askFor' = askFor \/ askFor' = Append(askFor, WantedByOrphan(b, left)))
      /\ toClient' = Tail(toClient)
      /\ UNCHANGED <<index, best, server, reconnects>>
  BY DEF BlockOrphan
<1> DEFINE q == GetBlocksFrom(best, GetOrphanRoot(b, left))
<1>3. /\ b \notin AlreadyHave /\ orphans' = left \cup {b} /\ PushGetBlocks(<<q>>)
      /\ pruned' = pruned \cup (orphans \ left) /\ stakeSeen' = stakeSeen \cup ({b} \ Pow)
      /\ (askFor' = askFor \/ askFor' = Append(askFor, WantedByOrphan(b, left)))
      /\ toClient' = Tail(toClient)
      /\ UNCHANGED <<index, best, server, reconnects>>
  BY <1>0
<1> HIDE DEF b
<1>4. b \in 1..tip \ index
  <2>1. 0 \in index
    BY <1>1, LocatorInIndex DEF TypeOK
  <2>2. b \notin index
    BY <1>3 DEF AlreadyHave
  <2> QED BY <1>1, <1>2, <2>1, <2>2
<1>14. left \subseteq orphans /\ Cardinality(left \cup {b}) <= MaxOrphanBlocks + 1
  BY <1>1, PruneMakesRoom
<1>5. GetOrphanRoot(b, left) \in 1..tip /\ WantedByOrphan(b, left) \in 0..tip
  <2>1. left \in SUBSET (1..tip) /\ b \in 1..tip
    BY <1>1, <1>4, <1>14 DEF TypeOK
  <2> QED BY <1>1, <2>1, OrphanRootType
<1>6. q \in Requests(GetBlocksMessages, index)
  <2>1. best \in index /\ best \in Blocks /\ GetOrphanRoot(b, left) \in Blocks
    BY <1>1, <1>5, SyncAssumption DEF TypeOK, Blocks
  <2> QED BY <2>1 DEF GetBlocksFrom, Requests, GetBlocksMessages
<1> HIDE DEF q
<1>7. /\ lastGetBlocks' \in GetBlocksMessages
      /\ toServer' \in Seq(Requests(ToServer, index))
  <2>1. <<q>> \in Seq(Requests(GetBlocksMessages, index))
    BY <1>6
  <2> QED BY <1>3, <2>1, PushGetBlocksType
<1>8. askFor' \in Seq(0..tip)
  <2>1. askFor \in Seq(0..tip)
    BY <1>1 DEF TypeOK
  <2>2. Append(askFor, WantedByOrphan(b, left)) \in Seq(0..tip)
    BY <1>5, <2>1
  <2> QED BY <1>3, <2>1, <2>2
<1>9. /\ Requests(ToServer', index') = Requests(ToServer, index)
      /\ ToServer' = ToServer /\ ToClient' = ToClient /\ GetBlocksMessages' = GetBlocksMessages
  BY <1>3 DEF server, ToServer, ToClient, GetBlocksMessages
<1>10. toServer' \in Seq(ToServer')
  <2>1. Requests(ToServer, index) \subseteq ToServer
    BY DEF Requests
  <2> QED BY <1>7, <1>9, <2>1, SeqOfSubset
<1>11. /\ orphans' \subseteq 1..tip \ index /\ Cardinality(orphans') <= MaxOrphanBlocks + 1
       /\ stakeSeen' \subseteq 1..tip \ Pow /\ pruned' \subseteq 1..tip
  BY <1>1, <1>3, <1>4, <1>14 DEF TypeOK
<1>12. TypeOK'
  BY <1>1, <1>2, <1>3, <1>7, <1>8, <1>9, <1>10, <1>11 DEF TypeOK, server
<1>13. IndexIsClosed'
  BY <1>1, <1>3 DEF IndexIsClosed
<1> QED BY <1>7, <1>9, <1>12, <1>13, InvNext

\* A block joins its parent, and the orphans that waited for it follow: the index
\* stays closed.
LEMMA StepBlockAccepted == SyncInv /\ BlockAccepted => SyncInv'
<1> SUFFICES ASSUME SyncInv, BlockAccepted PROVE SyncInv'
  OBVIOUS
<1> USE SyncAssumption
<1> DEFINE b == Head(toClient).block
           new == {b} \cup Unlocked(b)
<1>1. TypeOK /\ IndexIsClosed /\ toServer \in Seq(Requests(ToServer, index)) /\ tip \in Nat
  BY InvParts
<1>2. b \in 0..tip /\ Tail(toClient) \in Seq(ToClient)
  BY ReceivedBlock DEF BlockAccepted
<1>3. /\ b \notin AlreadyHave /\ Parent(b) \in index
      /\ index' = index \cup new /\ orphans' = orphans \ new /\ stakeSeen' = stakeSeen \ Unlocked(b)
      /\ best' = IF Height(Max(new)) > Height(best) THEN Max(new) ELSE best
      /\ toClient' = Tail(toClient)
      /\ UNCHANGED <<pruned, askFor, lastGetBlocks, server, toServer, reconnects>>
  BY DEF BlockAccepted
<1> HIDE DEF b
<1>4. b \in 1..tip /\ Parent(b) = b - 1
  <2>1. 0 \in index
    BY <1>1, LocatorInIndex DEF TypeOK
  <2>2. b \notin index
    BY <1>3 DEF AlreadyHave
  <2>3. b \in 1..tip
    BY <1>1, <1>2, <2>1, <2>2
  <2> QED BY <2>3 DEF Parent
<1>5. new \subseteq 1..tip /\ new \subseteq 0..tip /\ new # {} /\ tip <= MaxTip
  <2>1. orphans \subseteq 1..tip
    BY <1>1 DEF TypeOK
  <2>2. Unlocked(b) \subseteq orphans
    BY DEF Unlocked
  <2>3. new \subseteq 1..tip /\ new # {}
    BY <1>4, <2>1, <2>2
  <2>4. 1..tip \subseteq 0..tip /\ tip <= MaxTip
    BY <1>1 DEF TypeOK
  <2> QED BY <2>3, <2>4
\* All the blocks below a new one are in the index now.
<1>6. ASSUME NEW o \in new, NEW h \in 0..o PROVE h \in index'
  <2>1. o \in 1..tip /\ h \in Nat /\ o \in Nat /\ b \in Nat
    BY <1>4, <1>5
  <2>2. CASE h < b
    <3>1. b - 1 \in index /\ b - 1 \in Nat /\ h \in 0..(b - 1)
      BY <1>3, <1>4, <2>1, <2>2
    <3>2. Ancestor(b - 1, h) \in index
      BY <1>1, <3>1 DEF IndexIsClosed, Height
    <3>3. Ancestor(b - 1, h) = h
      BY <3>1 DEF Ancestor
    <3> QED BY <1>3, <3>2, <3>3
  <2>3. CASE h = b
    BY <1>3, <2>3
  <2>4. CASE h > b
    <3>1. o \in Unlocked(b) /\ h \in (b + 1)..o
      BY <2>1, <2>4
    <3>2. \A d \in (b + 1)..o : d \in orphans
      BY <3>1 DEF Unlocked
    <3>3. h \in orphans /\ \A d \in (b + 1)..h : d \in orphans
      BY <3>1, <3>2, <2>1
    <3>4. h \in Unlocked(b)
      BY <2>4, <3>3 DEF Unlocked
    <3> QED BY <1>3, <3>4
  <2> QED BY <2>1, <2>2, <2>3, <2>4
<1>7. Max(new) \in new
  <2> HIDE DEF new
  <2> QED BY <1>1, <1>5, MaxIsIn
<1> HIDE DEF new
<1>8. IndexIsClosed'
  <2> SUFFICES ASSUME NEW c \in index', NEW h \in 0..Height(c) PROVE Ancestor(c, h) \in index'
    BY DEF IndexIsClosed
  <2>1. CASE c \in index
    BY <1>1, <1>3, <2>1 DEF IndexIsClosed
  <2>2. CASE c \in new
    <3>1. c \in Nat /\ h \in 0..c
      BY <1>5, <2>2 DEF Height
    <3>2. Ancestor(c, h) = h
      BY <3>1 DEF Ancestor
    <3> QED BY <1>6, <2>2, <3>1, <3>2
  <2> QED BY <1>3, <2>1, <2>2
<1>9. /\ index' \subseteq Blocks /\ best' \in index' /\ orphans' \subseteq 1..tip \ index'
      /\ stakeSeen' \subseteq 1..tip \ Pow /\ Cardinality(orphans') <= MaxOrphanBlocks + 1
  <2>1. 1..tip \subseteq Blocks
    BY <1>1, <1>5 DEF Blocks
  <2>2. Cardinality(orphans \ new) <= MaxOrphanBlocks + 1
    BY <1>1, FewerOrphans
  <2> QED BY <1>1, <1>3, <1>5, <1>7, <2>1, <2>2 DEF TypeOK
<1>10. /\ ToServer' = ToServer /\ ToClient' = ToClient /\ GetBlocksMessages' = GetBlocksMessages
  BY <1>3 DEF server, ToServer, ToClient, GetBlocksMessages
<1>11. toServer' \in Seq(Requests(ToServer', index'))
  <2>1. Requests(ToServer, index) \subseteq Requests(ToServer', index')
    BY <1>3, <1>10 DEF Requests
  <2> QED BY <1>1, <1>3, <2>1, SeqOfSubset
<1>12. TypeOK'
  BY <1>1, <1>2, <1>3, <1>9, <1>10 DEF TypeOK, server
<1> QED BY <1>8, <1>11, <1>12, InvNext

\* The new connection starts with a locator of the best block.
LEMMA StepReconnect == SyncInv /\ Reconnect => SyncInv'
<1> SUFFICES ASSUME SyncInv, Reconnect PROVE SyncInv'
  OBVIOUS
<1> USE SyncAssumption
<1> DEFINE q == GetBlocksFrom(best, None)
<1>1. TypeOK /\ IndexIsClosed /\ tip \in Nat
  BY InvParts
<1>2. /\ reconnects < MaxReconnects /\ reconnects' = reconnects + 1
      /\ askFor' = << >> /\ lastGetBlocks' = q
      /\ known' = << >> /\ toSend' = << >> /\ hashContinue' = None
      /\ toServer' = <<q>> /\ toClient' = << >>
      /\ UNCHANGED <<index, best, orphans, stakeSeen, pruned, tip>>
  BY DEF Reconnect
<1>3. q \in GetBlocksMessages /\ q \in Requests(ToServer', index') /\ q \in ToServer'
  <2>1. best \in Blocks /\ best \in index'
    BY <1>1, <1>2 DEF TypeOK
  <2>2. q \in GetBlocksMessages
    BY <2>1 DEF GetBlocksFrom, GetBlocksMessages
  <2>3. q \in ToServer'
    BY <2>2 DEF ToServer, GetBlocksMessages, Blocks, None
  <2>4. q.begin \in index'
    BY <2>1 DEF GetBlocksFrom
  <2> QED BY <2>2, <2>3, <2>4 DEF Requests
<1> HIDE DEF q
<1>4. toServer' \in Seq(Requests(ToServer', index')) /\ toServer' \in Seq(ToServer')
  BY <1>2, <1>3
<1>5. reconnects' \in 0..MaxReconnects
  BY <1>1, <1>2 DEF TypeOK
<1>6. known' \in Seq(0..tip') /\ Len(known') <= KnownMax /\ IsInjective(known')
  BY <1>2 DEF IsInjective
<1>7. TypeOK'
  BY <1>1, <1>2, <1>3, <1>4, <1>5, <1>6 DEF TypeOK, GetBlocksMessages
<1>8. IndexIsClosed'
  BY <1>1, <1>2 DEF IndexIsClosed
<1> QED BY <1>4, <1>7, <1>8, InvNext

\* A step that changes nothing.
LEMMA StepStutters == SyncInv /\ UNCHANGED vars => SyncInv'
<1> SUFFICES ASSUME SyncInv, UNCHANGED vars PROVE SyncInv'
  OBVIOUS
<1>1. TypeOK'
  BY DEF SyncInv, TypeOK, vars, client, server, ToServer, ToClient, GetBlocksMessages
<1>2. IndexIsClosed' /\ LocatorsAreOfIndex'
  BY DEF SyncInv, IndexIsClosed, LocatorsAreOfIndex, vars, client
<1> QED BY <1>1, <1>2 DEF SyncInv

-----------------------------------------------------------------------------
(* The theorems.                                                            *)

\* The inductive invariant: the index of the client is closed, and every locator on
\* its way to the server is that of a block of the index.
THEOREM SyncInvHolds == Spec => []SyncInv
<1>1. SyncInv /\ [Next]_vars => SyncInv'
  BY StepGetBlocks, StepGetData, StepSendInventory, StepNewBlock, StepInv, StepSendGetData,
     StepBlockKnown, StepBlockDuplicate, StepBlockOrphan, StepBlockAccepted, StepReconnect, StepStutters
     DEF Next, Server, Client
<1> QED BY SyncInit, <1>1, PTL DEF Spec

\* The variables of the download keep their types: whatever the order of messages,
\* new blocks and reconnections, the client asks only for blocks that the server has,
\* and setInventoryKnown never exceeds its size nor holds a block twice.
THEOREM SyncTypes == Spec => []TypeOK
<1>1. SyncInv => TypeOK
  BY DEF SyncInv
<1> QED BY <1>1, SyncInvHolds, PTL

\* getblocks: the block that CBlockLocator::GetBlockIndex finds is one the client
\* has, so that the inventory skips nothing, whatever the fork, the heights and
\* the steps of the locator.
THEOREM BatchAlwaysStartsAtKnownBlock == Spec => []BatchStartsAtKnownBlock
<1>1. SyncInv => BatchStartsAtKnownBlock
  <2> SUFFICES ASSUME SyncInv, NEW i \in DOMAIN toServer, toServer[i].type = "getblocks"
               PROVE  GetBlockIndex(toServer[i].begin) \in index
    BY DEF BatchStartsAtKnownBlock
  <2>1. toServer[i].begin \in index
    BY DEF SyncInv, LocatorsAreOfIndex
  <2> QED BY <2>1, GetBlockIndexKnown
<1> QED BY <1>1, SyncInvHolds, PTL

=============================================================================
