------------------------ MODULE SyncCheckpointProofs ------------------------
(***************************************************************************)
(* Synchronised checkpoints, for every block tree.  Whatever is written,    *)
(* refused, lost and loaded again, the checkpoint is a stored block; and as *)
(* long as no write fails and no postponed block is refused, the database   *)
(* describes its best chain, memory agrees with it, and no reorganisation   *)
(* goes below the checkpoint.                                                *)
(***************************************************************************)
EXTENDS SyncCheckpoint, LedgerProofs

-----------------------------------------------------------------------------
(* The loops of SetBestChain and Reorganize.                                *)

\* The data of a definition by recursion: f[d] is s on base, and elsewhere F of
\* f[pred[d]] and d, where pred lowers a rank.
WalkData(D, T, rank, base, pred, s, F) ==
    /\ rank \in [D -> Nat]
    /\ pred \in [D \ base -> D]
    /\ \A d \in D \ base : rank[pred[d]] < rank[d]
    /\ s \in T
    /\ F \in [T \X (D \ base) -> T]

\* Such a definition has a solution.
LEMMA WalkExists ==
    ASSUME NEW D, NEW T, NEW rank, NEW base, NEW pred, NEW s, NEW F,
           WalkData(D, T, rank, base, pred, s, F)
    PROVE  \E f \in [D -> T] :
             \A d \in D : f[d] = IF d \in base THEN s ELSE F[<<f[pred[d]], d>>]
<1> USE DEF WalkData
<1> DEFINE Below(n) == { d \in D : rank[d] < n }
           Sol(g, n) == /\ g \in [Below(n) -> T]
                        /\ \A d \in Below(n) : g[d] = IF d \in base THEN s
                                                      ELSE F[<<g[pred[d]], d>>]
           Bad == { n \in Nat : ~\E g : Sol(g, n) }
<1>1. \A n \in Nat : \E g : Sol(g, n)
  <2> SUFFICES ASSUME Bad # {} PROVE FALSE
    OBVIOUS
  <2>1. Bad \subseteq Nat
    OBVIOUS
  <2>2. \E n \in Bad : \A m \in Bad : n <= m
    <3> HIDE DEF Bad
    <3> QED BY <2>1, NatMin
  <2>3. PICK n \in Bad : \A m \in Bad : n <= m
    BY <2>2
  <2>4. n # 0
    <3> SUFFICES ASSUME n = 0 PROVE FALSE
      OBVIOUS
    <3>1. Below(0) = {}
      OBVIOUS
    <3>2. Sol([d \in {} |-> s], 0)
      BY <3>1
    <3> QED BY <3>2, <2>3
  <2>5. n \in Nat /\ n - 1 \in Nat /\ n - 1 < n
    BY <2>3, <2>4
  <2>6. n - 1 \notin Bad
    <3> HIDE DEF Bad
    <3> QED BY <2>3, <2>5
  <2>7. PICK g : Sol(g, n - 1)
    BY <2>5, <2>6
  <2> DEFINE h == [d \in Below(n) |-> IF d \in base THEN s ELSE F[<<g[pred[d]], d>>]]
  <2>8. \A d \in Below(n) \ base : pred[d] \in Below(n - 1)
    BY <2>5
  <2>9. h \in [Below(n) -> T]
    BY <2>7, <2>8
  <2>10. \A d \in Below(n - 1) : d \in Below(n) /\ h[d] = g[d]
    BY <2>5, <2>7
  <2>11. \A d \in Below(n) : h[d] = IF d \in base THEN s ELSE F[<<h[pred[d]], d>>]
    BY <2>8, <2>10
  <2>12. Sol(h, n)
    <3> HIDE DEF h
    <3> QED BY <2>9, <2>11
  <2> QED BY <2>12, <2>3
<1>2. ASSUME NEW m \in Nat, NEW n \in Nat, NEW g, NEW h, Sol(g, m), Sol(h, n),
             NEW d \in Below(m) \cap Below(n)
      PROVE  g[d] = h[d]
  <2> DEFINE Diff == { e \in Below(m) \cap Below(n) : g[e] # h[e] }
             R == { rank[e] : e \in Diff }
  <2> SUFFICES ASSUME Diff # {} PROVE FALSE
    OBVIOUS
  <2>1. R # {} /\ R \subseteq Nat
    OBVIOUS
  <2>2. \E r \in R : \A q \in R : r <= q
    <3> HIDE DEF R
    <3> QED BY <2>1, NatMin
  <2>3. PICK e \in Diff : \A c \in Diff : rank[e] <= rank[c]
    BY <2>2
  <2>4. e \in D \ base
    BY <1>2, <2>3
  <2>5. pred[e] \in Below(m) \cap Below(n) /\ rank[pred[e]] < rank[e]
    BY <2>3, <2>4
  <2>6. pred[e] \notin Diff
    BY <2>3, <2>4, <2>5
  <2>7. g[pred[e]] = h[pred[e]]
    BY <2>5, <2>6
  <2> QED BY <1>2, <2>3, <2>4, <2>7
<1> DEFINE G(n) == CHOOSE g : Sol(g, n)
           f == [d \in D |-> G(rank[d] + 1)[d]]
<1>3. \A n \in Nat : Sol(G(n), n)
  <2> HIDE DEF Sol
  <2> QED BY <1>1
<1>4. \A d \in D : rank[d] + 1 \in Nat /\ d \in Below(rank[d] + 1)
  OBVIOUS
<1> HIDE DEF G
<1>5. f \in [D -> T]
  BY <1>3, <1>4
<1>6. ASSUME NEW d \in D \ base PROVE G(rank[d] + 1)[pred[d]] = f[pred[d]]
  <2>1. pred[d] \in D /\ pred[d] \in Below(rank[d] + 1) /\ pred[d] \in Below(rank[pred[d]] + 1)
    OBVIOUS
  <2>2. Sol(G(rank[d] + 1), rank[d] + 1) /\ Sol(G(rank[pred[d]] + 1), rank[pred[d]] + 1)
    BY <1>3, <1>4, <2>1
  <2> HIDE DEF Below, Sol
  <2>3. G(rank[d] + 1)[pred[d]] = G(rank[pred[d]] + 1)[pred[d]]
    BY <1>2, <1>4, <2>1, <2>2
  <2> QED BY <2>1, <2>3
<1>7. ASSUME NEW d \in D PROVE f[d] = IF d \in base THEN s ELSE F[<<f[pred[d]], d>>]
  <2>1. Sol(G(rank[d] + 1), rank[d] + 1) /\ d \in Below(rank[d] + 1)
    BY <1>3, <1>4
  <2>2. G(rank[d] + 1)[d] = IF d \in base THEN s ELSE F[<<G(rank[d] + 1)[pred[d]], d>>]
    BY <2>1
  <2>3. f[d] = G(rank[d] + 1)[d]
    OBVIOUS
  <2> HIDE DEF f
  <2> QED BY <2>2, <2>3, <1>6
<1> HIDE DEF f
<1> QED BY <1>5, <1>7

\* A step of a loop, on a block outside base or on one of S, does not leave T.
ConnectStaysIn(T, base) == \A x \in T : \A c \in Block \ base : Connect(x, c) \in T
InnerStaysIn(T, base) == \A x \in T : \A c \in Block \ base : SetBestChainInner(x, c) \in T
DisconnectStaysIn(T, S) == \A x \in T : \A d \in S : Disconnect(x, d) \in T

\* The states of the two loops that connect.
ConnectWalk(at, s, base) ==
    \A c \in Block : at[c] = IF c \in base THEN s ELSE Connect(at[Prev[c]], c)
InnerWalk(at, s, base) ==
    \A c \in Block : at[c] = IF c \in base THEN s ELSE SetBestChainInner(at[Prev[c]], c)

\* The loop of Reorganize over vConnect.
LEMMA ConnectToWalks ==
    ASSUME NEW T, NEW base, Genesis \in base, NEW s \in T,
           ConnectStaysIn(T, base)
    PROVE  \E at \in [Block -> T] :
             /\ ConnectWalk(at, s, base)
             /\ \A b \in Block : ConnectTo(s, base, b) = at[b]
<1> USE DEF ConnectStaysIn, ConnectWalk
<1> DEFINE F == [x \in T \X (Block \ base) |-> Connect(x[1], x[2])]
           pred == [c \in Block \ base |-> Prev[c]]
           Is(g) == g = [c \in Block |-> IF c \in base THEN s ELSE Connect(g[Prev[c]], c)]
           at == CHOOSE g : Is(g)
<1>1. \A c \in Block \ base : /\ Prev[c] \in Block /\ Height[Prev[c]] < Height[c]
  BY TreeAssumption
<1>2. WalkData(Block, T, Height, base, pred, s, F)
  BY <1>1, TreeAssumption DEF WalkData
<1>3. PICK f \in [Block -> T] :
        \A c \in Block : f[c] = IF c \in base THEN s ELSE F[<<f[pred[c]], c>>]
  <2> HIDE DEF F, pred
  <2> QED BY <1>2, WalkExists
<1>4. \A c \in Block : f[c] = IF c \in base THEN s ELSE Connect(f[Prev[c]], c)
  BY <1>1, <1>3
<1>5. Is(f)
  BY <1>3, <1>4
<1>6. Is(at)
  <2> HIDE DEF Is
  <2> QED BY <1>5
<1>7. \A b \in Block : ConnectTo(s, base, b) = at[b]
  BY DEF ConnectTo
<1> HIDE DEF at
<1>8. \A c \in Block : at[c] = IF c \in base THEN s ELSE Connect(at[Prev[c]], c)
  BY <1>6
<1>9. \A c \in Block : at[c] \in T
  <2> DEFINE S == { c \in Block : at[c] \notin T }
  <2> SUFFICES ASSUME S # {} PROVE FALSE
    OBVIOUS
  <2>1. S \subseteq Block /\ Genesis \notin S
    BY <1>8, TreeAssumption
  <2>2. \E x \in S : x # Genesis /\ Prev[x] \in Block \ S
    <3> HIDE DEF S
    <3> QED BY <2>1, LowestBlock
  <2> QED BY <2>2, <1>8
<1>10. at \in [Block -> T]
  <2>1. DOMAIN at = Block /\ at = [c \in Block |-> at[c]]
    BY <1>6
  <2> QED BY <1>9, <2>1
<1> QED BY <1>7, <1>8, <1>10

\* The loop of SetBestChain over vpindexSecondary.
LEMMA ConnectFurtherWalks ==
    ASSUME NEW T, NEW base, Genesis \in base, NEW s \in T,
           InnerStaysIn(T, base)
    PROVE  \E at \in [Block -> T] :
             /\ InnerWalk(at, s, base)
             /\ \A b \in Block : ConnectFurther(s, base, b) = at[b]
<1> USE DEF InnerStaysIn, InnerWalk
<1> DEFINE F == [x \in T \X (Block \ base) |-> SetBestChainInner(x[1], x[2])]
           pred == [c \in Block \ base |-> Prev[c]]
           Is(g) == g = [c \in Block |-> IF c \in base THEN s ELSE SetBestChainInner(g[Prev[c]], c)]
           at == CHOOSE g : Is(g)
<1>1. \A c \in Block \ base : /\ Prev[c] \in Block /\ Height[Prev[c]] < Height[c]
  BY TreeAssumption
<1>2. WalkData(Block, T, Height, base, pred, s, F)
  BY <1>1, TreeAssumption DEF WalkData
<1>3. PICK f \in [Block -> T] :
        \A c \in Block : f[c] = IF c \in base THEN s ELSE F[<<f[pred[c]], c>>]
  <2> HIDE DEF F, pred
  <2> QED BY <1>2, WalkExists
<1>4. \A c \in Block : f[c] = IF c \in base THEN s ELSE SetBestChainInner(f[Prev[c]], c)
  BY <1>1, <1>3
<1>5. Is(f)
  BY <1>3, <1>4
<1>6. Is(at)
  <2> HIDE DEF Is
  <2> QED BY <1>5
<1>7. \A b \in Block : ConnectFurther(s, base, b) = at[b]
  BY DEF ConnectFurther
<1> HIDE DEF at
<1>8. \A c \in Block : at[c] = IF c \in base THEN s ELSE SetBestChainInner(at[Prev[c]], c)
  BY <1>6
<1>9. \A c \in Block : at[c] \in T
  <2> DEFINE S == { c \in Block : at[c] \notin T }
  <2> SUFFICES ASSUME S # {} PROVE FALSE
    OBVIOUS
  <2>1. S \subseteq Block /\ Genesis \notin S
    BY <1>8, TreeAssumption
  <2>2. \E x \in S : x # Genesis /\ Prev[x] \in Block \ S
    <3> HIDE DEF S
    <3> QED BY <2>1, LowestBlock
  <2> QED BY <2>2, <1>8
<1>10. at \in [Block -> T]
  <2>1. DOMAIN at = Block /\ at = [c \in Block |-> at[c]]
    BY <1>6
  <2> QED BY <1>9, <2>1
<1> QED BY <1>7, <1>8, <1>10

\* The loop of Reorganize over vDisconnect.
LEMMA DisconnectToWalks ==
    ASSUME NEW T, NEW best \in Block, NEW s \in T,
           DisconnectStaysIn(T, Anc[best] \ {Genesis})
    PROVE  \E at \in [Anc[best] -> T] :
             /\ at[best] = s
             /\ \A c \in Anc[best] \ {Genesis} : at[Prev[c]] = Disconnect(at[c], c)
             /\ \A f \in Anc[best] : DisconnectTo(s, best, f) = at[f]
<1> USE DEF DisconnectStaysIn
<1> DEFINE child == [d \in Anc[best] \ {best} |-> CHOOSE c \in Anc[best] \ {Genesis} : Prev[c] = d]
           rank == [d \in Anc[best] |-> Height[best] - Height[d]]
           F == [x \in T \X (Anc[best] \ {best}) |-> Disconnect(x[1], child[x[2]])]
           Is(g) == g = [d \in Anc[best] |-> IF d = best THEN s
                                             ELSE Disconnect(g[child[d]], child[d])]
           at == CHOOSE g : Is(g)
<1>1. best \in Anc[best] /\ Anc[best] \subseteq Block
  BY AncBasic
<1>2. \A d \in Anc[best] \ {best} : child[d] \in Anc[best] \ {Genesis} /\ Prev[child[d]] = d
  BY ChildExists
<1>3. \A c \in Anc[best] \ {Genesis} : Prev[c] \in Anc[best] \ {best} /\ child[Prev[c]] = c
  <2> SUFFICES ASSUME NEW c \in Anc[best] \ {Genesis}
               PROVE  Prev[c] \in Anc[best] \ {best} /\ child[Prev[c]] = c
    OBVIOUS
  <2>1. Prev[c] \in Anc[best] /\ c \notin Anc[Prev[c]]
    BY <1>1, AncTrans, Parent
  <2>2. Prev[c] # best
    BY <2>1
  <2>3. child[Prev[c]] \in Anc[best] \ {Genesis} /\ Prev[child[Prev[c]]] = Prev[c]
    BY <1>2, <2>1, <2>2
  <2> HIDE DEF child
  <2> QED BY <2>1, <2>2, <2>3, OneChild
<1>4. \A d \in Anc[best] : rank[d] \in Nat
  BY <1>1, Monotone, TreeAssumption
<1> HIDE DEF child
<1>5. \A d \in Anc[best] \ {best} : rank[child[d]] < rank[d]
  <2> SUFFICES ASSUME NEW d \in Anc[best] \ {best} PROVE rank[child[d]] < rank[d]
    OBVIOUS
  <2>1. Height[child[d]] = Height[d] + 1 /\ Height[d] \in Nat /\ Height[best] \in Nat
    BY <1>1, <1>2, TreeAssumption
  <2> QED BY <1>2, <2>1
<1>6. WalkData(Anc[best], T, rank, {best}, child, s, F)
  <2>1. child \in [Anc[best] \ {best} -> Anc[best]]
    BY <1>2 DEF child
  <2>2. rank \in [Anc[best] -> Nat]
    BY <1>4
  <2>3. F \in [T \X (Anc[best] \ {best}) -> T]
    BY <1>2
  <2> HIDE DEF rank, F
  <2> QED BY <1>5, <2>1, <2>2, <2>3 DEF WalkData
<1>7. PICK f \in [Anc[best] -> T] :
        \A d \in Anc[best] : f[d] = IF d \in {best} THEN s ELSE F[<<f[child[d]], d>>]
  <2> HIDE DEF F, rank
  <2> QED BY <1>6, WalkExists
<1>8. \A d \in Anc[best] : f[d] = IF d = best THEN s ELSE Disconnect(f[child[d]], child[d])
  BY <1>2, <1>7
<1>9. Is(f)
  BY <1>7, <1>8
<1>10. Is(at)
  <2> HIDE DEF Is
  <2> QED BY <1>9
<1>11. \A d \in Anc[best] : DisconnectTo(s, best, d) = at[d]
  BY DEF DisconnectTo, child
<1> HIDE DEF at
<1>12. \A d \in Anc[best] : at[d] = IF d = best THEN s ELSE Disconnect(at[child[d]], child[d])
  BY <1>10
<1>13. \A d \in Anc[best] : at[d] \in T
  <2> DEFINE S == { d \in Anc[best] : at[d] \notin T }
  <2> SUFFICES ASSUME S # {} PROVE FALSE
    OBVIOUS
  <2>1. S \subseteq Anc[best] /\ best \notin S
    BY <1>1, <1>12
  <2>2. \E d \in S : \E c \in Anc[best] \ {Genesis} : Prev[c] = d /\ c \notin S
    <3> HIDE DEF S
    <3> QED BY <2>1, HighestBlock
  <2>3. PICK d \in S, c \in Anc[best] \ {Genesis} : Prev[c] = d /\ c \notin S
    BY <2>2
  <2>4. at[d] = Disconnect(at[c], c)
    BY <1>3, <1>12, <2>3
  <2> QED BY <2>3, <2>4
<1>14. at \in [Anc[best] -> T]
  <2>1. DOMAIN at = Anc[best] /\ at = [d \in Anc[best] |-> at[d]]
    BY <1>10
  <2> QED BY <1>13, <2>1
<1>15. at[best] = s /\ \A c \in Anc[best] \ {Genesis} : at[Prev[c]] = Disconnect(at[c], c)
  BY <1>1, <1>3, <1>12
<1> QED BY <1>11, <1>14, <1>15

-----------------------------------------------------------------------------
(* What the steps of the loops do.                                          *)

States == [ok : BOOLEAN, view : Views, pnext : [Block -> Block \cup {NoBlock}]]

\* A connected block changes neither the stored blocks nor the best block.
LEMMA ConnectResult ==
    ASSUME NEW x \in States, NEW c \in Block \ {Genesis}
    PROVE  /\ Connect(x, c) \in States
           /\ Connect(x, c).view.blocks = x.view.blocks
           /\ Connect(x, c).pnext = x.pnext
           /\ Connect(x, c).ok => /\ x.ok /\ c \in x.view.blocks /\ CanConnect(x.view, c)
                                  /\ Connect(x, c).view = Connected(x.view, c, x.pnext)
           /\ ~Connect(x, c).ok => Connect(x, c).view = x.view
           /\ x.ok /\ c \in x.view.blocks /\ CanConnect(x.view, c) => Connect(x, c).ok
<1>1. /\ x.view \in Views /\ x.pnext \in [Block -> Block \cup {NoBlock}] /\ x.ok \in BOOLEAN
      /\ x = [ok |-> x.ok, view |-> x.view, pnext |-> x.pnext]
  BY DEF States
<1>2. CASE x.ok /\ c \in x.view.blocks /\ CanConnect(x.view, c)
  <2> DEFINE w == Connected(x.view, c, x.pnext)
  <2>1. w \in Views /\ w.blocks = x.view.blocks
    BY <1>1, ViewTypes DEF Connected, Views
  <2> HIDE DEF w
  <2>2. Connect(x, c) = [ok |-> x.ok, view |-> w, pnext |-> x.pnext]
    BY <1>1, <1>2 DEF Connect, w
  <2>3. Connect(x, c) \in States /\ Connect(x, c).view = w /\ Connect(x, c).pnext = x.pnext
        /\ Connect(x, c).ok
    BY <1>1, <1>2, <2>1, <2>2 DEF States
  <2> QED BY <1>2, <2>1, <2>3 DEF w
<1>3. CASE ~(x.ok /\ c \in x.view.blocks /\ CanConnect(x.view, c))
  <2>1. Connect(x, c) = [ok |-> FALSE, view |-> x.view, pnext |-> x.pnext]
    BY <1>1, <1>3 DEF Connect
  <2>2. Connect(x, c) \in States /\ Connect(x, c).view = x.view /\ Connect(x, c).pnext = x.pnext
        /\ ~Connect(x, c).ok
    BY <1>1, <2>1 DEF States
  <2> QED BY <1>3, <2>2
<1> QED BY <1>2, <1>3

\* A disconnected block changes neither the stored blocks nor the best block.
LEMMA DisconnectResult ==
    ASSUME NEW x \in States, NEW d \in Block \ {Genesis}
    PROVE  /\ Disconnect(x, d) \in States
           /\ Disconnect(x, d).view.blocks = x.view.blocks
           /\ Disconnect(x, d).pnext = x.pnext
           /\ Disconnect(x, d).ok => x.ok /\ Disconnect(x, d).view = Disconnected(x.view, d)
<1>1. /\ x.view \in Views /\ x.pnext \in [Block -> Block \cup {NoBlock}] /\ x.ok \in BOOLEAN
      /\ x = [ok |-> x.ok, view |-> x.view, pnext |-> x.pnext]
  BY DEF States
<1>2. CASE x.ok /\ d \in x.view.blocks /\ CanDisconnect(x.view, d)
  <2> DEFINE w == Disconnected(x.view, d)
  <2>1. w \in Views /\ w.blocks = x.view.blocks
    BY <1>1, ViewTypes DEF Disconnected, Views
  <2> HIDE DEF w
  <2>2. Disconnect(x, d) = [ok |-> x.ok, view |-> w, pnext |-> x.pnext]
    BY <1>1, <1>2 DEF Disconnect, w
  <2> QED BY <1>1, <1>2, <2>1, <2>2 DEF States, w
<1>3. CASE ~(x.ok /\ d \in x.view.blocks /\ CanDisconnect(x.view, d))
  <2>1. Disconnect(x, d) = [ok |-> FALSE, view |-> x.view, pnext |-> x.pnext]
    BY <1>1, <1>3 DEF Disconnect
  <2> QED BY <1>1, <2>1 DEF States
<1> QED BY <1>2, <1>3

\* SetBestChainInner changes the links on disk and in memory alike.
LEMMA InnerResult ==
    ASSUME NEW x \in States, NEW c \in Block \ {Genesis}, x.view.next = x.pnext
    PROVE  LET r == SetBestChainInner(x, c) IN
           /\ r \in States /\ r.view.blocks = x.view.blocks
           /\ r.view.next = r.pnext
           /\ r.ok => /\ x.ok /\ c \in x.view.blocks /\ CanConnect(x.view, c)
                      /\ r.view = WithBest(Connected(x.view, c, x.pnext), c)
                      /\ r.view.best = c
                      /\ r.pnext = [x.pnext EXCEPT ![Prev[c]] = c]
           /\ ~r.ok => r.view = x.view /\ r.pnext = x.pnext
           /\ x.ok /\ c \in x.view.blocks /\ CanConnect(x.view, c) => r.ok
<1> DEFINE k == Connect(x, c)
           r == SetBestChainInner(x, c)
<1>1. /\ k \in States /\ k.view.blocks = x.view.blocks /\ k.pnext = x.pnext
      /\ k.ok => /\ x.ok /\ c \in x.view.blocks /\ CanConnect(x.view, c)
                 /\ k.view = Connected(x.view, c, x.pnext)
      /\ ~k.ok => k.view = x.view
      /\ x.ok /\ c \in x.view.blocks /\ CanConnect(x.view, c) => k.ok
  BY ConnectResult
<1>2. r = IF k.ok THEN [k EXCEPT !.view = WithBest(@, c), !.pnext = Link(@, {c})] ELSE k
  BY DEF SetBestChainInner
<1> HIDE DEF k, r
<1>3. /\ k.view \in Views /\ k.pnext \in [Block -> Block \cup {NoBlock}] /\ k.ok \in BOOLEAN
      /\ k = [ok |-> k.ok, view |-> k.view, pnext |-> k.pnext]
  BY <1>1 DEF States
<1>4. CASE k.ok
  <2> DEFINE w == WithBest(k.view, c)
             n == Link(k.pnext, {c})
  <2>1. w \in Views /\ w.blocks = k.view.blocks /\ w.best = c /\ w.next = k.view.next
    BY <1>3, ViewTypes DEF WithBest, Views
  <2>2. Prev[c] \in Block /\ Prev[c] # c
    BY Parent
  <2>3. n = [x.pnext EXCEPT ![Prev[c]] = c]
    <3>1. \A y \in Block : n[y] = IF y = Prev[c] THEN c ELSE k.pnext[y]
      BY DEF Link
    <3>2. n = [y \in Block |-> n[y]]
      BY DEF Link
    <3> HIDE DEF n
    <3>3. k.pnext \in [Block -> Block \cup {NoBlock}]
      BY <1>3
    <3> QED BY <1>1, <2>2, <3>1, <3>2, <3>3
  <2>4. n \in [Block -> Block \cup {NoBlock}]
    BY <1>1, <1>3, <2>2, <2>3
  <2>5. k.view.next = [x.view.next EXCEPT ![c] = x.pnext[c], ![Prev[c]] = c]
    <3>1. \A v \in Views : Connected(v, c, x.pnext).next
                              = [v.next EXCEPT ![c] = x.pnext[c], ![Prev[c]] = c]
      BY DEF Connected, Views
    <3>2. x.view \in Views
      BY DEF States
    <3> QED BY <1>1, <1>4, <3>1, <3>2
  <2>6. k.view.next = n
    <3>1. k.pnext = x.pnext /\ x.pnext \in [Block -> Block \cup {NoBlock}]
      BY <1>1, <1>3
    <3> HIDE DEF n
    <3> QED BY <2>2, <2>3, <2>5, <3>1
  <2> HIDE DEF w, n
  <2>7. r = [ok |-> TRUE, view |-> w, pnext |-> n]
    BY <1>2, <1>3, <1>4 DEF w, n
  <2>8. r \in States /\ r.view = w /\ r.pnext = n /\ r.ok
    BY <2>1, <2>4, <2>7 DEF States
  <2>9. w = WithBest(Connected(x.view, c, x.pnext), c)
    BY <1>1, <1>4 DEF w
  <2> QED BY <1>1, <1>4, <2>1, <2>3, <2>6, <2>8, <2>9 DEF r
<1>5. CASE ~k.ok
  BY <1>1, <1>2, <1>5 DEF r
<1> QED BY <1>4, <1>5

-----------------------------------------------------------------------------
(* What the loops do.                                                       *)

\* Disconnecting the blocks above f unlinks them and, from a view that describes
\* the whole chain, leads to a view that describes the chain of f.
LEMMA DownResult ==
    ASSUME NEW s \in States, s.view.next = s.pnext, NEW best \in Block, NEW f \in Anc[best]
    PROVE  LET r == DisconnectTo(s, best, f) IN
           /\ r \in States /\ r.view.blocks = s.view.blocks /\ r.pnext = s.pnext
           /\ r.ok => /\ r.view.next = Unlink(s.pnext, Anc[best] \ Anc[f])
                      /\ Describes(s.view, best) => Describes(r.view, f)
<1> DEFINE T == { x \in States : x.view.blocks = s.view.blocks /\ x.pnext = s.pnext }
<1>1. Anc[best] \subseteq Block /\ best \in Anc[best]
  BY AncBasic
<1>2. DisconnectStaysIn(T, Anc[best] \ {Genesis})
  BY <1>1, DisconnectResult DEF DisconnectStaysIn
<1>3. s \in T
  OBVIOUS
<1>4. \E at \in [Anc[best] -> T] :
        /\ at[best] = s
        /\ \A c \in Anc[best] \ {Genesis} : at[Prev[c]] = Disconnect(at[c], c)
        /\ \A d \in Anc[best] : DisconnectTo(s, best, d) = at[d]
  <2> HIDE DEF T
  <2> QED BY <1>2, <1>3, DisconnectToWalks
<1>5. PICK at \in [Anc[best] -> T] :
        /\ at[best] = s
        /\ \A c \in Anc[best] \ {Genesis} : at[Prev[c]] = Disconnect(at[c], c)
        /\ \A d \in Anc[best] : DisconnectTo(s, best, d) = at[d]
  BY <1>4
<1>6. \A d \in Anc[best] : at[d] \in States /\ at[d].view.blocks = s.view.blocks /\ at[d].pnext = s.pnext
  BY <1>5
<1> DEFINE P(d) == at[d].ok => /\ at[d].view.next = Unlink(s.pnext, Anc[best] \ Anc[d])
                               /\ Describes(s.view, best) => Describes(at[d].view, d)
           S == { d \in Anc[best] : ~P(d) }
<1>7. P(best)
  <2>1. s.pnext \in [Block -> Block \cup {NoBlock}]
    BY DEF States
  <2>2. Unlink(s.pnext, Anc[best] \ Anc[best]) = s.pnext
    BY <2>1 DEF Unlink
  <2> QED BY <1>5, <2>2
<1>8. ASSUME NEW c \in Anc[best] \ {Genesis}, P(c) PROVE P(Prev[c])
  <2>1. /\ c \in Block \ {Genesis} /\ Prev[c] \in Anc[best] /\ Prev[c] \in Block
        /\ Anc[c] = Anc[Prev[c]] \cup {c} /\ c \notin Anc[Prev[c]]
    BY <1>1, Parent, AncTrans
  <2> DEFINE x == at[c]
             y == at[Prev[c]]
  <2>2. y = Disconnect(x, c) /\ x \in States
    BY <1>5, <1>6
  <2> SUFFICES ASSUME y.ok
               PROVE  /\ y.view.next = Unlink(s.pnext, Anc[best] \ Anc[Prev[c]])
                      /\ Describes(s.view, best) => Describes(y.view, Prev[c])
    OBVIOUS
  <2>3. x.ok /\ y.view = Disconnected(x.view, c) /\ x.view \in Views
    BY <2>1, <2>2, DisconnectResult DEF States
  <2>4. /\ x.view.next = Unlink(s.pnext, Anc[best] \ Anc[c])
        /\ Describes(s.view, best) => Describes(x.view, c)
    BY <1>8, <2>3
  <2> HIDE DEF x, y
  <2>5. Describes(s.view, best) => Describes(y.view, Prev[c])
    BY <2>1, <2>3, <2>4, DescribesDisconnect
  <2>6. y.view.next = [x.view.next EXCEPT ![Prev[c]] = NoBlock]
    <3>1. \A v \in Views : Disconnected(v, c).next = [v.next EXCEPT ![Prev[c]] = NoBlock]
      BY DEF Disconnected, Views
    <3> QED BY <2>3, <3>1
  <2>7. y.view.next = Unlink(s.pnext, Anc[best] \ Anc[Prev[c]])
    <3>1. Anc[best] \ Anc[Prev[c]] = (Anc[best] \ Anc[c]) \cup {c}
      BY <2>1
    <3> QED BY <2>1, <2>4, <2>6, <3>1 DEF Unlink
  <2> QED BY <2>5, <2>7
<1> HIDE DEF P
<1>9. S = {}
  <2> SUFFICES ASSUME S # {} PROVE FALSE
    OBVIOUS
  <2>1. S \subseteq Anc[best] /\ best \notin S
    BY <1>7
  <2>2. \E d \in S : \E c \in Anc[best] \ {Genesis} : Prev[c] = d /\ c \notin S
    <3> HIDE DEF S
    <3> QED BY <2>1, HighestBlock
  <2> QED BY <2>2, <1>8
<1>10. P(f)
  BY <1>9
<1> HIDE DEF S
<1> QED BY <1>5, <1>6, <1>10 DEF P

\* Connecting the blocks of the chain of a above the fork links them and, from a
\* view that describes the chain of the fork, leads to one that describes the
\* chain of a.  Above the fork the pointers in memory are null.
LEMMA UpResult ==
    ASSUME NEW s \in States, NEW best \in Block, NEW a \in Block, NEW f \in Anc[best] \cap Anc[a],
           Anc[best] \cap Anc[a] \subseteq Anc[f],
           s.ok => \A c \in Anc[a] \ Anc[best] : s.view.next[c] = s.pnext[c]
    PROVE  LET r == ConnectTo(s, Anc[best], a) IN
           /\ r \in States /\ r.view.blocks = s.view.blocks /\ r.pnext = s.pnext
           /\ r.ok => /\ s.ok
                      /\ r.view.next = Link(s.view.next, Anc[a] \ Anc[best])
                      /\ Anc[a] \ Anc[best] \subseteq s.view.blocks
                      /\ /\ Describes(s.view, f) /\ a \notin Anc[best]
                         /\ \A c \in Anc[a] \ Anc[best] : s.pnext[c] = NoBlock
                         => Describes(r.view, a)
<1> DEFINE T == { x \in States : x.view.blocks = s.view.blocks /\ x.pnext = s.pnext }
           base == Anc[best]
<1>1. /\ Anc[best] \subseteq Block /\ Anc[a] \subseteq Block /\ Genesis \in base /\ a \in Anc[a]
      /\ Genesis \in Anc[a] /\ Genesis \in Block /\ f \in Block
  BY AncBasic
<1>2. ConnectStaysIn(T, base)
  BY <1>1, ConnectResult DEF ConnectStaysIn
<1>3. s \in T
  OBVIOUS
<1>4. \E at \in [Block -> T] :
        /\ ConnectWalk(at, s, base)
        /\ \A b \in Block : ConnectTo(s, base, b) = at[b]
  <2>1. Genesis \in base
    BY <1>1
  <2> HIDE DEF T, base
  <2> QED BY <1>2, <1>3, <2>1, ConnectToWalks
<1>5. PICK at \in [Block -> T] :
        /\ ConnectWalk(at, s, base)
        /\ \A b \in Block : ConnectTo(s, base, b) = at[b]
  BY <1>4
<1> USE DEF ConnectWalk
<1>6. \A c \in Block : at[c] \in States /\ at[c].view.blocks = s.view.blocks /\ at[c].pnext = s.pnext
  BY <1>5
<1> DEFINE Good == /\ Describes(s.view, f)
                   /\ \A c \in Anc[a] \ Anc[best] : s.pnext[c] = NoBlock
           P(c) == at[c].ok => /\ s.ok
                               /\ at[c].view.next = Link(s.view.next, Anc[c] \ Anc[best])
                               /\ Anc[c] \ Anc[best] \subseteq s.view.blocks
                               /\ Good /\ c \notin Anc[best] => Describes(at[c].view, c)
           S == { c \in Anc[a] : ~P(c) }
<1>7. ASSUME NEW c \in Anc[best] PROVE P(c)
  <2>1. at[c] = s
    BY <1>1, <1>5
  <2>2. Anc[c] \subseteq Anc[best]
    BY AncTrans
  <2>3. s.view.next \in [Block -> Block \cup {NoBlock}]
    BY DEF States, Views
  <2>4. Link(s.view.next, {}) = s.view.next
    BY <2>3 DEF Link
  <2>5. Anc[c] \ Anc[best] = {}
    BY <2>2
  <2> QED BY <1>7, <2>1, <2>4, <2>5
<1>8. ASSUME NEW c \in Anc[a] \ Anc[best], P(Prev[c]) PROVE P(c)
  <2>1. /\ c \in Block \ {Genesis} /\ Prev[c] \in Anc[a] /\ Prev[c] \in Block
        /\ Anc[c] = Anc[Prev[c]] \cup {c} /\ c \notin Anc[Prev[c]] /\ Prev[c] # c
    BY <1>1, Parent, AncTrans
  <2> DEFINE x == at[Prev[c]]
             y == at[c]
             C == Anc[Prev[c]] \ Anc[best]
  <2>2. y = Connect(x, c) /\ x \in States /\ x.view.blocks = s.view.blocks /\ x.pnext = s.pnext
    BY <1>5, <1>6, <2>1
  <2> SUFFICES ASSUME y.ok
               PROVE  /\ s.ok
                      /\ y.view.next = Link(s.view.next, Anc[c] \ Anc[best])
                      /\ Anc[c] \ Anc[best] \subseteq s.view.blocks
                      /\ Good => Describes(y.view, c)
    OBVIOUS
  <2>3. /\ x.ok /\ y.view = Connected(x.view, c, x.pnext) /\ x.view \in Views
        /\ c \in x.view.blocks /\ CanConnect(x.view, c)
        /\ x.pnext \in [Block -> Block \cup {NoBlock}]
    <3> HIDE DEF x, y
    <3>1. x.view \in Views /\ x.pnext \in [Block -> Block \cup {NoBlock}]
      BY <2>2 DEF States
    <3>2. y.ok
      OBVIOUS
    <3> QED BY <2>1, <2>2, <3>1, <3>2, ConnectResult
  <2>4. /\ s.ok
        /\ x.view.next = Link(s.view.next, C)
        /\ C \subseteq s.view.blocks
        /\ Good /\ Prev[c] \notin Anc[best] => Describes(x.view, Prev[c])
    BY <1>8, <2>3
  <2> HIDE DEF y
  <2>5. Anc[c] \ Anc[best] = C \cup {c}
    BY <2>1
  <2>6. Prev[c] \in Anc[best] => x = s /\ Prev[c] = f
    <3> SUFFICES ASSUME Prev[c] \in Anc[best] PROVE x = s /\ Prev[c] = f
      OBVIOUS
    <3>1. x = s
      BY <1>5, <2>1
    <3>2. Prev[c] \in Anc[f]
      BY <2>1
    <3>3. Anc[f] \subseteq Anc[best]
      BY AncTrans
    <3>4. Prev[c] = f
      BY <3>2, <3>3, FirstAbove
    <3> QED BY <3>1, <3>4
  <2> HIDE DEF x
  <2>7. Good => Describes(y.view, c)
    <3> SUFFICES ASSUME Good PROVE Describes(y.view, c)
      OBVIOUS
    <3>1. Describes(x.view, Prev[c])
      BY <2>4, <2>6
    <3>2. x.pnext[c] = NoBlock
      BY <2>2
    <3> QED BY <2>1, <2>3, <3>1, <3>2, DescribesConnect
  <2>8. y.view.next = [x.view.next EXCEPT ![c] = s.pnext[c], ![Prev[c]] = c]
    <3>1. \A v \in Views : Connected(v, c, x.pnext).next
                             = [v.next EXCEPT ![c] = x.pnext[c], ![Prev[c]] = c]
      BY DEF Connected, Views
    <3> QED BY <2>2, <2>3, <3>1
  <2>9. \A e \in C : Prev[e] # c /\ Prev[e] # Prev[c] /\ e \in Block /\ e # Genesis
    <3> SUFFICES ASSUME NEW e \in C PROVE Prev[e] # c /\ Prev[e] # Prev[c] /\ e \in Block /\ e # Genesis
      OBVIOUS
    <3>1. e \in Anc[Prev[c]] /\ e # Genesis /\ e \in Block /\ e # c /\ e \in Anc[c] /\ c \in Anc[c]
      BY <1>1, <2>1, AncBasic
    <3>2. Prev[e] \in Anc[Prev[c]]
      BY <2>1, <3>1, AncTrans
    <3>3. Prev[e] # Prev[c]
      BY <2>1, <3>1, OneChild
    <3> QED BY <2>1, <3>1, <3>2, <3>3
  <2>10. y.view.next = Link(s.view.next, C \cup {c})
    <3>1. s.view.next[c] = s.pnext[c]
      BY <2>4
    <3>2. x.view.next[c] = s.pnext[c]
      BY <2>1, <2>4, <2>9, <3>1 DEF Link
    <3>3. x.view.next \in [Block -> Block \cup {NoBlock}]
      BY <2>3 DEF Views
    <3>4. y.view.next = [x.view.next EXCEPT ![Prev[c]] = c]
      BY <2>1, <2>8, <3>2, <3>3
    <3> DEFINE l == Link(s.view.next, C \cup {c})
    <3>5. ASSUME NEW z \in Block, z # Prev[c] PROVE l[z] = x.view.next[z]
      <4>1. \A e : e \in C \cup {c} /\ Prev[e] = z <=> e \in C /\ Prev[e] = z
        BY <3>5
      <4>2. (CHOOSE e \in C \cup {c} : Prev[e] = z) = CHOOSE e \in C : Prev[e] = z
        BY <4>1
      <4>3. (\E e \in C \cup {c} : Prev[e] = z) <=> \E e \in C : Prev[e] = z
        BY <4>1
      <4>4. l[z] = IF \E e \in C \cup {c} : Prev[e] = z
                   THEN CHOOSE e \in C \cup {c} : Prev[e] = z ELSE s.view.next[z]
        BY DEF Link
      <4>5. x.view.next[z] = IF \E e \in C : Prev[e] = z
                             THEN CHOOSE e \in C : Prev[e] = z ELSE s.view.next[z]
        BY <2>4 DEF Link
      <4> HIDE DEF l, C
      <4> QED BY <4>2, <4>3, <4>4, <4>5
    <3>6. l[Prev[c]] = c
      <4>1. \A e \in C \cup {c} : Prev[e] = Prev[c] => e = c
        BY <2>9
      <4>2. (CHOOSE e \in C \cup {c} : Prev[e] = Prev[c]) = c
        BY <4>1
      <4> QED BY <2>1, <4>2 DEF Link
    <3>7. l = [z \in Block |-> l[z]]
      BY DEF Link
    <3> HIDE DEF l
    <3>8. \A z \in Block : y.view.next[z] = l[z]
      BY <2>1, <3>3, <3>4, <3>5, <3>6
    <3>9. y.view.next \in [Block -> Block \cup {NoBlock}]
      BY <2>1, <3>3, <3>4
    <3> QED BY <3>7, <3>8, <3>9 DEF l
  <2> HIDE DEF C
  <2>11. Anc[c] \ Anc[best] \subseteq s.view.blocks
    BY <2>2, <2>3, <2>4, <2>5
  <2> QED BY <2>4, <2>5, <2>7, <2>10, <2>11
<1> HIDE DEF P
<1>9. S = {}
  <2> SUFFICES ASSUME S # {} PROVE FALSE
    OBVIOUS
  <2>1. S \subseteq Block /\ Genesis \notin S
    BY <1>1, <1>7
  <2>2. \E c \in S : c # Genesis /\ Prev[c] \in Block \ S
    <3> HIDE DEF S
    <3> QED BY <2>1, LowestBlock
  <2>3. PICK c \in S : c # Genesis /\ Prev[c] \in Block \ S
    BY <2>2
  <2>4. Prev[c] \in Anc[a]
    BY <2>3, AncTrans
  <2>5. P(Prev[c]) /\ ~P(c)
    BY <2>3, <2>4
  <2> QED BY <2>3, <2>5, <1>7, <1>8
<1>10. P(a)
  BY <1>1, <1>9
<1> HIDE DEF S
<1> QED BY <1>5, <1>6, <1>10 DEF P

\* A switch to the chain of a, from the pointers in memory: where they point now.
Relinked(next, best, a) == Link(Unlink(next, Anc[best] \ Anc[a]), Anc[a] \ Anc[best])

\* A reorganisation that succeeds makes a the best block, and changes the links on
\* disk and in memory alike.  From a view that describes the chain of the best
\* block it leads to one that describes the chain of a.
LEMMA ReorganizeResult ==
    ASSUME NEW s \in States, s.view.next = s.pnext, NEW best \in Block, NEW a \in Block
    PROVE  LET r == Reorganize(s, best, a) IN
           /\ r \in States /\ r.view.blocks = s.view.blocks
           /\ r.ok => /\ r.view.best = a /\ r.view.next = r.pnext
                      /\ r.pnext = Relinked(s.pnext, best, a)
                      /\ Anc[a] \ Anc[best] \subseteq s.view.blocks
                      /\ Describes(s.view, best) /\ a \notin Anc[best] => Describes(r.view, a)
<1> DEFINE f == pfork(best, a)
           d == DisconnectTo(s, best, f)
           u == ConnectTo(d, Anc[best], a)
           r == Reorganize(s, best, a)
           n == Relinked(s.pnext, best, a)
<1>1. f \in Anc[best] \cap Anc[a] /\ Anc[best] \cap Anc[a] \subseteq Anc[f]
  BY ForkExists DEF pfork
<1>2. r = IF u.ok THEN [u EXCEPT !.view = WithBest(@, a), !.pnext = Relinked(@, best, a)] ELSE u
  BY DEF Reorganize, Relinked
<1> HIDE DEF f
<1>3. Anc[best] \ Anc[f] = Anc[best] \ Anc[a]
  BY <1>1, AncTrans
<1>4. /\ d \in States /\ d.view.blocks = s.view.blocks /\ d.pnext = s.pnext
      /\ d.ok => /\ d.view.next = Unlink(s.pnext, Anc[best] \ Anc[a])
                 /\ Describes(s.view, best) => Describes(d.view, f)
  BY <1>1, <1>3, DownResult
<1> HIDE DEF d
<1>5. Anc[best] \subseteq Block /\ Anc[a] \subseteq Block
  BY AncBasic
<1>6. d.ok => \A c \in Anc[a] \ Anc[best] : d.view.next[c] = d.pnext[c]
  <2> SUFFICES ASSUME d.ok, NEW c \in Anc[a] \ Anc[best] PROVE d.view.next[c] = s.pnext[c]
    BY <1>4
  <2>1. \A e \in Anc[best] \ Anc[a] : Prev[e] # c
    <3> SUFFICES ASSUME NEW e \in Anc[best] \ Anc[a] PROVE Prev[e] \in Anc[best]
      OBVIOUS
    <3>1. e # Genesis
      BY AncBasic
    <3> QED BY <3>1, AncTrans
  <2>2. c \in Block
    BY <1>5
  <2> QED BY <1>4, <2>1, <2>2 DEF Unlink
<1>7. /\ u \in States /\ u.view.blocks = d.view.blocks /\ u.pnext = d.pnext
      /\ u.ok => /\ d.ok
                 /\ u.view.next = Link(d.view.next, Anc[a] \ Anc[best])
                 /\ Anc[a] \ Anc[best] \subseteq d.view.blocks
                 /\ /\ Describes(d.view, f) /\ a \notin Anc[best]
                    /\ \A c \in Anc[a] \ Anc[best] : d.pnext[c] = NoBlock
                    => Describes(u.view, a)
  BY <1>1, <1>4, <1>6, UpResult
<1> HIDE DEF u, r
<1>8. CASE ~u.ok
  BY <1>2, <1>4, <1>7, <1>8 DEF r
<1>9. CASE u.ok
  <2> DEFINE w == WithBest(u.view, a)
  <2>1. /\ u.view \in Views /\ u.ok = TRUE /\ u.pnext = s.pnext /\ s.pnext = s.view.next
        /\ u = [ok |-> u.ok, view |-> u.view, pnext |-> u.pnext] /\ s.view \in Views
    BY <1>4, <1>7, <1>9 DEF States
  <2>2. w \in Views /\ w.blocks = u.view.blocks /\ w.best = a /\ w.next = u.view.next
    BY <2>1, ViewTypes DEF WithBest, Views
  <2>3. u.view.next = n
    BY <1>4, <1>7, <1>9 DEF Relinked
  <2>4. n \in [Block -> Block \cup {NoBlock}]
    BY <2>1, <2>3 DEF Views
  <2>5. Describes(s.view, best) /\ a \notin Anc[best] => Describes(w, a)
    <3> SUFFICES ASSUME Describes(s.view, best), a \notin Anc[best] PROVE Describes(w, a)
      OBVIOUS
    <3>1. \A c \in Anc[a] \ Anc[best] : d.pnext[c] = NoBlock
      BY <1>4, <1>5, <2>1, OutsideUnlinked DEF Describes, Views
    <3>2. Describes(u.view, a)
      BY <1>4, <1>7, <1>9, <3>1
    <3> QED BY <2>1, <3>2, DescribesBest
  <2> HIDE DEF w, n
  <2>6. r = [ok |-> TRUE, view |-> w, pnext |-> n]
    BY <1>2, <1>9, <2>1 DEF w, n
  <2>7. r \in States /\ r.view = w /\ r.pnext = n /\ r.ok
    BY <2>2, <2>4, <2>6 DEF States
  <2> QED BY <1>4, <1>7, <1>9, <2>2, <2>3, <2>5, <2>7 DEF r, n
<1> QED BY <1>8, <1>9

-----------------------------------------------------------------------------
(* SetBestChain.                                                            *)

\* The blocks B hold the parents of their blocks.
Closed(B) == B \subseteq Block /\ \A b \in B : Anc[b] \subseteq B

\* A state whose links are the same on disk and in memory, and link stored blocks
\* only.
Linked(x, B) ==
    /\ x \in States /\ x.view.blocks = B /\ x.view.next = x.pnext
    /\ \A c \in Block : x.pnext[c] # NoBlock => c \in B

\* Two blocks of which each is an ancestor of the other are the same.
LEMMA AncAntisymmetric ==
    ASSUME NEW a \in Block, NEW b \in Anc[a], a \in Anc[b]
    PROVE  a = b
<1>1. b \in Block
  BY AncBasic
<1>2. Height[a] \in Nat /\ Height[b] \in Nat
  BY <1>1, TreeAssumption
<1>3. a # b => Height[a] < Height[b] /\ Height[b] < Height[a]
  BY <1>1, Monotone
<1> QED BY <1>2, <1>3

\* The walk down to pindexIntermediate finds it: it is on the chain of b, and no
\* lower than a block where the chains of b and of the best block meet.
LEMMA FirstTipExists ==
    ASSUME NEW best \in Block, NEW b \in Block \ {Genesis}
    PROVE  /\ FirstTip(best, b) \in Anc[b] \ {Genesis}
           /\ b \notin Anc[best] => /\ FirstTip(best, b) \notin Anc[best]
                                    /\ Anc[best] \cap Anc[b] \subseteq Anc[FirstTip(best, b)]
<1> DEFINE a == pindexIntermediate(best, b)
           Is(x) == /\ x = b \/ ChainTrust[x] > ChainTrust[best]
                    /\ ChainTrust[Prev[x]] <= ChainTrust[best]
           S == { x \in Anc[b] : ChainTrust[x] > ChainTrust[best] }
<1>1. b \in Anc[b] /\ Anc[b] \subseteq Block /\ Prev[b] \in Anc[b] /\ Genesis \in Anc[best]
  BY AncBasic, AncTrans
<1>2. \A x \in Block : ChainTrust[x] \in Nat
  BY TreeAssumption
<1>3. \E x \in Anc[b] \ {Genesis} : Is(x)
  <2>1. CASE S = {}
    <3>1. ~(ChainTrust[Prev[b]] > ChainTrust[best])
      BY <1>1, <2>1
    <3>2. ChainTrust[Prev[b]] \in Nat /\ ChainTrust[best] \in Nat
      BY <1>1, <1>2
    <3> QED BY <1>1, <3>1, <3>2
  <2>2. CASE S # {}
    <3>1. Genesis \notin S
      <4>1. Genesis = best \/ ChainTrust[Genesis] < ChainTrust[best]
        BY <1>1, Monotone
      <4>2. Genesis \in Block
        BY TreeAssumption
      <4> QED BY <1>2, <4>1, <4>2
    <3>2. S \subseteq Block
      BY <1>1
    <3>3. \E x \in S : x # Genesis /\ Prev[x] \in Block \ S
      <4> HIDE DEF S
      <4> QED BY <2>2, <3>1, <3>2, LowestBlock
    <3>4. PICK x \in S : x # Genesis /\ Prev[x] \in Block \ S
      BY <3>3
    <3>5. Prev[x] \in Anc[b]
      BY <3>4, AncTrans
    <3>6. ~(ChainTrust[Prev[x]] > ChainTrust[best]) /\ Prev[x] \in Block
      BY <3>4, <3>5
    <3>7. Is(x)
      BY <1>2, <3>4, <3>6
    <3> QED BY <3>4, <3>7
  <2> QED BY <2>1, <2>2
<1>4. a \in Anc[b] \ {Genesis} /\ Is(a)
  BY <1>3 DEF pindexIntermediate
<1> HIDE DEF a
<1>5. b \notin Anc[best] => a \notin Anc[best]
  <2> SUFFICES ASSUME b \notin Anc[best], a \in Anc[best] PROVE FALSE
    OBVIOUS
  <2>1. a # b /\ ChainTrust[a] > ChainTrust[best]
    BY <1>4
  <2>2. a = best \/ ChainTrust[a] < ChainTrust[best]
    BY Monotone
  <2>3. a \in Block
    BY <1>1, <1>4
  <2> QED BY <1>2, <2>1, <2>2, <2>3
<1>6. FirstTip(best, b) = b \/ FirstTip(best, b) = a
  BY DEF FirstTip, a
<1>7. ASSUME NEW t \in Anc[b], t \notin Anc[best], NEW d \in Anc[best] \cap Anc[b]
      PROVE  d \in Anc[t]
  <2>1. d \in Anc[t] \/ t \in Anc[d]
    BY Comparable
  <2>2. Anc[d] \subseteq Anc[best]
    BY AncTrans
  <2> QED BY <1>7, <2>1, <2>2
<1> QED BY <1>1, <1>4, <1>5, <1>6, <1>7

\* A switch links stored blocks only, and leaves the genesis block linked.
LEMMA RelinkedStored ==
    ASSUME NEW n \in [Block -> Block \cup {NoBlock}], NEW B, Closed(B),
           \A c \in Block : n[c] # NoBlock => c \in B,
           NEW best \in B, NEW a \in Block \ {Genesis}, Anc[a] \ Anc[best] \subseteq B,
           n[Genesis] = NoBlock => best = Genesis
    PROVE  /\ \A c \in Block : Relinked(n, best, a)[c] # NoBlock => c \in B
           /\ Relinked(n, best, a)[Genesis] # NoBlock
           /\ a \in B
<1> DEFINE U == Anc[best] \ Anc[a]
           L == Anc[a] \ Anc[best]
           m == Unlink(n, U)
           r == Relinked(n, best, a)
<1>1. /\ best \in Block /\ Anc[best] \subseteq B /\ a \in Anc[a] /\ Anc[a] \subseteq Block
      /\ Genesis \in Block /\ NoBlock \notin Block /\ B \subseteq Block /\ Genesis \in Anc[best]
  BY AncBasic, TreeAssumption DEF Closed
<1>2. \A c \in Block : m[c] = IF \E d \in U : Prev[d] = c THEN NoBlock ELSE n[c]
  BY DEF Unlink
<1>3. \A c \in Block : r[c] = IF \E e \in L : Prev[e] = c
                              THEN CHOOSE e \in L : Prev[e] = c ELSE m[c]
  BY DEF Relinked, Link
<1> HIDE DEF m, r
<1>4. \A e \in L : e \in B /\ e \in Block \ {Genesis} /\ Prev[e] \in B
  <2> SUFFICES ASSUME NEW e \in L PROVE e \in B /\ e \in Block \ {Genesis} /\ Prev[e] \in B
    OBVIOUS
  <2>1. e \in B /\ e \in Block \ {Genesis}
    BY <1>1
  <2>2. Prev[e] \in Anc[e]
    BY <2>1, AncBasic, AncTrans
  <2> QED BY <2>1, <2>2 DEF Closed
<1>5. ASSUME NEW c \in Block, r[c] # NoBlock PROVE c \in B
  BY <1>2, <1>3, <1>4, <1>5
<1>6. r[Genesis] # NoBlock
  <2>1. CASE \E e \in L : Prev[e] = Genesis
    <3>1. r[Genesis] \in L
      BY <1>1, <1>3, <2>1
    <3> QED BY <1>1, <1>4, <3>1
  <2>2. CASE ~\E e \in L : Prev[e] = Genesis
    <3>1. Genesis \in Anc[a] /\ Genesis # a
      BY AncBasic
    <3>2. PICK c \in Anc[a] \ {Genesis} : Prev[c] = Genesis
      BY <3>1, ChildExists
    <3>3. c \in Anc[best]
      BY <2>2, <3>2
    <3>4. best # Genesis
      BY <3>2, <3>3, TreeAssumption
    <3>5. ~\E d \in U : Prev[d] = Genesis
      <4> SUFFICES ASSUME NEW d \in U, Prev[d] = Genesis PROVE FALSE
        OBVIOUS
      <4>1. d \in Anc[best] /\ d # Genesis /\ d \notin Anc[a]
        BY <3>1
      <4>2. c = d
        BY <1>1, <3>2, <3>3, <4>1, OneChild
      <4> QED BY <3>2, <4>1, <4>2
    <3> QED BY <1>1, <1>2, <1>3, <2>2, <3>4, <3>5
  <2> QED BY <2>1, <2>2
<1>7. a \in B
  BY <1>1
<1> QED BY <1>5, <1>6, <1>7 DEF r

\* The first transaction of SetBestChain: either way the new best block on disk is
\* FirstTip.
LEMMA FirstSwitchResult ==
    ASSUME NEW B, Closed(B), NEW s, Linked(s, B), NEW best \in B,
           s.pnext[Genesis] = NoBlock => best = Genesis,
           NEW b \in Block \ {Genesis}, FirstSwitch(s, best, b).ok
    PROVE  LET r == FirstSwitch(s, best, b) IN
           /\ Linked(r, B)
           /\ r.view.best = FirstTip(best, b) /\ r.view.best \in B
           /\ r.pnext[Genesis] # NoBlock
           /\ Describes(s.view, best) /\ b \notin Anc[best] => Describes(r.view, r.view.best)
<1> DEFINE r == FirstSwitch(s, best, b)
           a == FirstTip(best, b)
<1>1. /\ s \in States /\ s.view.blocks = B /\ s.view.next = s.pnext
      /\ \A c \in Block : s.pnext[c] # NoBlock => c \in B
      /\ s.pnext \in [Block -> Block \cup {NoBlock}]
  BY DEF Linked, States
<1>2. best \in Block /\ a \in Block \ {Genesis} /\ (b \notin Anc[best] => a \notin Anc[best])
  BY FirstTipExists, AncBasic DEF Closed
<1>3. CASE Prev[b] # best
  <2>1. r = Reorganize(s, best, a)
    BY <1>3 DEF FirstSwitch
  <2> HIDE DEF a, r
  <2>2. r.ok
    BY DEF r
  <2>3. /\ r \in States /\ r.view.blocks = B /\ r.view.best = a /\ r.view.next = r.pnext
        /\ r.pnext = Relinked(s.pnext, best, a)
        /\ Anc[a] \ Anc[best] \subseteq B
        /\ Describes(s.view, best) /\ a \notin Anc[best] => Describes(r.view, a)
    BY <1>1, <1>2, <2>1, <2>2, ReorganizeResult
  <2>4. /\ \A c \in Block : r.pnext[c] # NoBlock => c \in B
        /\ r.pnext[Genesis] # NoBlock /\ a \in B
    BY <1>1, <1>2, <2>3, RelinkedStored
  <2> QED BY <1>2, <2>3, <2>4 DEF Linked, a, r
<1>4. CASE Prev[b] = best
  <2>1. r = SetBestChainInner(s, b) /\ a = b
    BY <1>4 DEF FirstSwitch, FirstTip
  <2> HIDE DEF a, r
  <2>2. r.ok
    BY DEF r
  <2>3. /\ r \in States /\ r.view.blocks = B /\ r.view.next = r.pnext
        /\ b \in s.view.blocks /\ CanConnect(s.view, b)
        /\ r.view = WithBest(Connected(s.view, b, s.pnext), b) /\ r.view.best = b
        /\ r.pnext = [s.pnext EXCEPT ![best] = b]
    BY <1>1, <1>4, <2>1, <2>2, InnerResult
  <2>4. \A c \in Block : r.pnext[c] # NoBlock => c \in B
    BY <1>1, <2>3
  <2>5. r.pnext[Genesis] # NoBlock
    BY <1>1, <2>3, TreeAssumption
  <2>6. ASSUME Describes(s.view, best) PROVE Describes(r.view, b)
    <3>1. s.view \in Views
      BY <1>1 DEF States
    <3>2. s.pnext[b] = NoBlock
      <4>1. b \notin Anc[best]
        BY <1>4, Parent
      <4>2. LinksOK(s.pnext, best)
        BY <1>1, <2>6 DEF Describes
      <4> QED BY <1>1, <1>2, <4>1, <4>2, OutsideUnlinked
    <3>3. Describes(Connected(s.view, b, s.pnext), b)
      BY <1>1, <1>4, <2>3, <2>6, <3>1, <3>2, DescribesConnect
    <3>4. Connected(s.view, b, s.pnext) \in Views
      BY <1>1, <3>1, ViewTypes
    <3> QED BY <2>3, <3>3, <3>4, DescribesBest
  <2> QED BY <1>1, <2>1, <2>3, <2>4, <2>5, <2>6 DEF Linked, a, r
<1> QED BY <1>3, <1>4

\* A state of the loop over vpindexSecondary.
Further(x, B) == Linked(x, B) /\ x.pnext[Genesis] # NoBlock /\ x.view.best \in B

\* A block that nothing is wrong with.
ValidBlock(c) == ChainValid(c) /\ Fails[c] \notin {"check", "connect"}

\* One step of that loop: a stored block that is valid is not refused.
LEMMA InnerFurther ==
    ASSUME NEW B, Closed(B), NEW x, Further(x, B), NEW c \in Block \ {Genesis}
    PROVE  LET r == SetBestChainInner(x, c) IN
           /\ Further(r, B)
           /\ r.ok => x.ok /\ r.view.best = c
           /\ ~r.ok => r.view = x.view /\ r.pnext = x.pnext
           /\ r.ok /\ Describes(x.view, Prev[c]) => Describes(r.view, c)
           /\ x.ok /\ c \in B /\ ValidBlock(c) /\ Describes(x.view, Prev[c]) => r.ok
<1> DEFINE r == SetBestChainInner(x, c)
<1>1. /\ x \in States /\ x.view.blocks = B /\ x.view.next = x.pnext
      /\ \A y \in Block : x.pnext[y] # NoBlock => y \in B
      /\ x.pnext \in [Block -> Block \cup {NoBlock}] /\ x.view \in Views
      /\ x.pnext[Genesis] # NoBlock /\ x.view.best \in B
  BY DEF Further, Linked, States
<1>2. /\ r \in States /\ r.view.blocks = x.view.blocks
      /\ r.view.next = r.pnext
      /\ r.ok => /\ x.ok /\ c \in x.view.blocks /\ CanConnect(x.view, c)
                 /\ r.view = WithBest(Connected(x.view, c, x.pnext), c)
                 /\ r.view.best = c
                 /\ r.pnext = [x.pnext EXCEPT ![Prev[c]] = c]
      /\ ~r.ok => r.view = x.view /\ r.pnext = x.pnext
      /\ x.ok /\ c \in x.view.blocks /\ CanConnect(x.view, c) => r.ok
  BY <1>1, InnerResult
<1> HIDE DEF r
<1>3. CASE ~r.ok
  <2>1. ValidBlock(c) /\ Describes(x.view, Prev[c]) => CanConnect(x.view, c)
    BY <1>1, ConnectComplete DEF ValidBlock
  <2> QED BY <1>1, <1>2, <1>3, <2>1 DEF Further, Linked, r
<1>4. CASE r.ok
  <2>1. Prev[c] \in B /\ Prev[c] \in Block
    BY <1>1, <1>2, <1>4, AncBasic, AncTrans DEF Closed
  <2>2. \A y \in Block : r.pnext[y] # NoBlock => y \in B
    BY <1>1, <1>2, <1>4, <2>1
  <2>3. r.pnext[Genesis] # NoBlock
    BY <1>1, <1>2, <1>4, <2>1, TreeAssumption
  <2>4. Further(r, B)
    BY <1>1, <1>2, <1>4, <2>2, <2>3 DEF Further, Linked
  <2>5. ASSUME Describes(x.view, Prev[c]) PROVE Describes(r.view, c)
    <3>1. x.pnext[c] = NoBlock
      <4>1. c \notin Anc[Prev[c]]
        BY Parent
      <4>2. LinksOK(x.pnext, Prev[c])
        BY <1>1, <2>5 DEF Describes
      <4> QED BY <1>1, <2>1, <4>1, <4>2, OutsideUnlinked
    <3>2. Describes(Connected(x.view, c, x.pnext), c)
      BY <1>1, <1>2, <1>4, <2>5, <3>1, DescribesConnect
    <3>3. Connected(x.view, c, x.pnext) \in Views
      BY <1>1, ViewTypes
    <3> QED BY <1>2, <1>4, <3>2, <3>3, DescribesBest
  <2> QED BY <1>2, <1>4, <2>4, <2>5 DEF r
<1> QED BY <1>3, <1>4

\* The postponed blocks, in a batch: the best block on disk stays on the chain of
\* b, and the view describes it.
LEMMA FurtherResult ==
    ASSUME NEW B, Closed(B), NEW s, Further(s, B), NEW b \in Block, NEW a \in Anc[b],
           s.view.best = a
    PROVE  LET r == ConnectFurther(s, Anc[a], b) IN
           /\ Further(r, B)
           /\ r.view.best \in Anc[b] /\ a \in Anc[r.view.best]
           /\ Describes(s.view, a) => Describes(r.view, r.view.best)
           /\ /\ Describes(s.view, a) /\ s.ok
              /\ \A c \in Anc[b] \ Anc[a] : c \in B /\ ValidBlock(c)
              => r.view.best = b
<1> DEFINE T == { x \in States : Further(x, B) }
           base == Anc[a]
<1>1. a \in Block /\ Anc[b] \subseteq Block /\ Genesis \in Anc[a] /\ a \in Anc[a] /\ b \in Anc[b]
  BY AncBasic
<1>2. InnerStaysIn(T, base)
  <2>1. \A x : Further(x, B) => x \in States
    BY DEF Further, Linked
  <2> HIDE DEF T
  <2>2. ASSUME NEW x \in T, NEW c \in Block \ base PROVE SetBestChainInner(x, c) \in T
    <3>1. c \in Block \ {Genesis}
      BY <1>1
    <3>2. Further(x, B)
      BY DEF T
    <3>3. Further(SetBestChainInner(x, c), B)
      BY <3>1, <3>2, InnerFurther
    <3> QED BY <2>1, <3>3 DEF T
  <2> QED BY <2>2 DEF InnerStaysIn
<1>3. s \in T
  BY DEF Further, Linked
<1>4. \E at \in [Block -> T] :
        /\ InnerWalk(at, s, base)
        /\ \A c \in Block : ConnectFurther(s, base, c) = at[c]
  <2>1. Genesis \in base
    BY <1>1
  <2> HIDE DEF T, base
  <2> QED BY <1>2, <1>3, <2>1, ConnectFurtherWalks
<1>5. PICK at \in [Block -> T] :
        /\ InnerWalk(at, s, base)
        /\ \A c \in Block : ConnectFurther(s, base, c) = at[c]
  BY <1>4
<1>6. \A c \in Block : at[c] \in States /\ Further(at[c], B)
  BY <1>5
<1>7. /\ \A c \in Block \cap Anc[a] : at[c] = s
      /\ \A c \in Block \ Anc[a] : at[c] = SetBestChainInner(at[Prev[c]], c)
  BY <1>5 DEF InnerWalk
<1> DEFINE Good == /\ Describes(s.view, a) /\ s.ok
                   /\ \A c \in Anc[b] \ Anc[a] : c \in B /\ ValidBlock(c)
           P(c) == /\ at[c].view.best \in Anc[b] /\ a \in Anc[at[c].view.best]
                   /\ Good => at[c].ok
                   /\ c \notin Anc[a] /\ at[c].ok => at[c].view.best = c
                   /\ Describes(s.view, a) => Describes(at[c].view, at[c].view.best)
           S == { c \in Anc[b] : ~P(c) }
<1>8. ASSUME NEW c \in Block \cap Anc[a] PROVE P(c)
  BY <1>1, <1>7
<1>9. ASSUME NEW c \in Anc[b] \ Anc[a], P(Prev[c]) PROVE P(c)
  <2> DEFINE x == at[Prev[c]]
             y == at[c]
  <2>1. c \in Block \ {Genesis} /\ Prev[c] \in Block /\ Prev[c] \in Anc[b]
    BY <1>1, AncTrans, Parent
  <2>2. y = SetBestChainInner(x, c) /\ Further(x, B)
    BY <1>6, <1>7, <2>1
  <2>3. x.ok => x.view.best = Prev[c]
    <3>1. CASE Prev[c] \notin Anc[a]
      BY <1>9, <3>1
    <3>2. CASE Prev[c] \in Anc[a]
      <4>1. Prev[c] = a
        BY <3>2, FirstAbove
      <4> QED BY <1>7, <2>1, <3>2, <4>1
    <3> QED BY <3>1, <3>2
  <2>4. /\ x.view.best \in Anc[b] /\ a \in Anc[x.view.best]
        /\ Describes(s.view, a) => Describes(x.view, x.view.best)
        /\ Good => x.ok
    BY <1>9
  <2> HIDE DEF x, y
  <2>5. /\ y.ok => x.ok /\ y.view.best = c
        /\ ~y.ok => y.view = x.view
        /\ y.ok /\ Describes(x.view, Prev[c]) => Describes(y.view, c)
        /\ x.ok /\ c \in B /\ ValidBlock(c) /\ Describes(x.view, Prev[c]) => y.ok
    BY <2>1, <2>2, InnerFurther
  <2>6. CASE ~y.ok
    <3>1. ~Good
      BY <2>3, <2>4, <2>5, <2>6
    <3> QED BY <2>4, <2>5, <2>6, <3>1 DEF y
  <2>7. CASE y.ok
    <3>1. a \in Anc[c]
      <4>1. a \in Anc[Prev[c]]
        BY <2>3, <2>4, <2>5, <2>7
      <4> QED BY <2>1, <4>1, Parent
    <3> QED BY <2>3, <2>4, <2>5, <2>7, <3>1 DEF y
  <2> QED BY <2>6, <2>7
<1> HIDE DEF P
<1>10. S = {}
  <2> SUFFICES ASSUME S # {} PROVE FALSE
    OBVIOUS
  <2>1. S \subseteq Block /\ Genesis \notin S
    BY <1>1, <1>8
  <2>2. \E c \in S : c # Genesis /\ Prev[c] \in Block \ S
    <3> HIDE DEF S
    <3> QED BY <2>1, LowestBlock
  <2>3. PICK c \in S : c # Genesis /\ Prev[c] \in Block \ S
    BY <2>2
  <2>4. Prev[c] \in Anc[b]
    BY <2>3, AncTrans
  <2>5. P(Prev[c]) /\ ~P(c)
    BY <2>3, <2>4
  <2> QED BY <1>1, <2>3, <2>5, <1>8, <1>9
<1>11. P(b)
  BY <1>1, <1>10
<1> HIDE DEF S
<1>12. ConnectFurther(s, Anc[a], b) = at[b] /\ Further(at[b], B)
  BY <1>5, <1>6
<1>13. Good => at[b].view.best = b
  <2>1. CASE b \in Anc[a]
    <3>1. at[b] = s
      BY <1>7, <2>1
    <3>2. a = b
      BY <2>1, AncAntisymmetric
    <3> QED BY <3>1, <3>2
  <2>2. CASE b \notin Anc[a]
    BY <1>11, <2>2 DEF P
  <2> QED BY <2>1, <2>2
<1> QED BY <1>11, <1>12, <1>13 DEF P

\* SetBestChain in the batch of WriteToDisk.
LEMMA SetBestChainResult ==
    ASSUME NEW B, Closed(B), NEW s, Linked(s, B), NEW best \in B,
           s.pnext[Genesis] = NoBlock => best = Genesis,
           NEW b \in Block \ {Genesis}, SetBestChain(s, best, b).ok
    PROVE  LET r == SetBestChain(s, best, b) IN
           /\ Further(r, B)
           /\ r.view.best \in Anc[b]
           /\ Describes(s.view, best) /\ b \notin Anc[best] =>
                /\ Describes(r.view, r.view.best)
                /\ Anc[best] \cap Anc[b] \subseteq Anc[r.view.best]
                /\ (\A c \in Anc[b] : c \in B /\ ValidBlock(c)) => r.view.best = b
<1> DEFINE q == FirstSwitch(s, best, b)
           a == FirstTip(best, b)
           k == ConnectFurther(q, Anc[a], b)
           r == SetBestChain(s, best, b)
<1>1. best \in Block
  BY DEF Closed
<1>2. /\ a \in Anc[b] \ {Genesis}
      /\ b \notin Anc[best] => Anc[best] \cap Anc[b] \subseteq Anc[a]
  BY <1>1, FirstTipExists
<1>3. q.ok /\ r = [k EXCEPT !.ok = TRUE]
  BY DEF SetBestChain
<1>4. /\ Linked(q, B) /\ q.view.best = a /\ q.view.best \in B /\ q.pnext[Genesis] # NoBlock
      /\ Describes(s.view, best) /\ b \notin Anc[best] => Describes(q.view, a)
  BY <1>3, FirstSwitchResult
<1>5. Further(q, B)
  BY <1>4 DEF Further
<1> HIDE DEF q, a, r
<1>6. /\ Further(k, B)
      /\ k.view.best \in Anc[b] /\ a \in Anc[k.view.best]
      /\ Describes(q.view, a) => Describes(k.view, k.view.best)
      /\ /\ Describes(q.view, a) /\ q.ok
         /\ \A c \in Anc[b] \ Anc[a] : c \in B /\ ValidBlock(c)
         => k.view.best = b
  BY <1>2, <1>4, <1>5, FurtherResult
<1> HIDE DEF k
<1>7. k.view.best \in Block
  BY <1>6, AncBasic
<1>8. Anc[a] \subseteq Anc[k.view.best]
  BY <1>6, <1>7, AncTrans
<1>9. k = [ok |-> k.ok, view |-> k.view, pnext |-> k.pnext] /\ k.view \in Views
      /\ k.pnext \in [Block -> Block \cup {NoBlock}]
  BY <1>6 DEF Further, Linked, States
<1>10. r = [ok |-> TRUE, view |-> k.view, pnext |-> k.pnext]
  BY <1>3, <1>9
<1>11. r \in States /\ r.view = k.view /\ r.pnext = k.pnext
  BY <1>9, <1>10 DEF States
<1>12. Further(r, B)
  BY <1>6, <1>11 DEF Further, Linked
<1> QED BY <1>2, <1>3, <1>4, <1>6, <1>8, <1>11, <1>12 DEF r

-----------------------------------------------------------------------------
(* Whichever writes fail, the checkpoint is stored.                         *)

\* The database and the pointers in memory are a state for SetBestChain to start
\* from.
LEMMA StoredLinked ==
    ASSUME StoredInv
    PROVE  /\ Closed(disk.blocks) /\ Linked(State(disk), disk.blocks) /\ disk \in Views
           /\ pnext \in [Block -> Block \cup {NoBlock}]
           /\ State(disk).pnext = pnext /\ State(disk).view = disk
           /\ Genesis \in Block /\ NoBlock \notin Block
<1>1. disk \in Views /\ pnext \in [Block -> Block \cup {NoBlock}] /\ pnext = disk.next
  BY DEF StoredInv, TypeOK
<1>2. disk.blocks \subseteq Block
  BY <1>1 DEF Views
<1>3. Closed(disk.blocks)
  BY <1>2 DEF StoredInv, Closed
<1>4. State(disk) \in States /\ State(disk).pnext = pnext /\ State(disk).view = disk
  BY <1>1 DEF State, States
<1>5. Linked(State(disk), disk.blocks)
  BY <1>1, <1>4 DEF Linked, StoredInv
<1> QED BY <1>1, <1>3, <1>4, <1>5, TreeAssumption

\* AcceptBlock stores a block on top of a stored one, and does not change the links
\* by doing so.
LEMMA AcceptStored ==
    ASSUME StoredInv, NEW b \in Block \ {Genesis}, AcceptBlock(b)
    PROVE  LET v == WithNewBlock(disk, b)
               B == disk.blocks \cup {b}
           IN  /\ Prev[b] \in disk.blocks /\ b \notin disk.blocks
               /\ v \in Views /\ v.blocks = B /\ v.best = disk.best /\ v.next = disk.next
               /\ Closed(B) /\ Linked(State(v), B)
               /\ State(v).pnext = pnext /\ State(v).view = v /\ State(v).ok
<1> DEFINE v == WithNewBlock(disk, b)
           B == disk.blocks \cup {b}
<1>1. /\ disk \in Views /\ pnext \in [Block -> Block \cup {NoBlock}] /\ pnext = disk.next
      /\ \A c \in Block : pnext[c] # NoBlock => c \in disk.blocks
      /\ disk.blocks \subseteq mapBlockIndex /\ pindexBest \in disk.blocks
      /\ \A c \in disk.blocks : Anc[c] \subseteq disk.blocks
      /\ pnext[Genesis] = NoBlock => pindexBest = Genesis
  BY DEF StoredInv, TypeOK
<1>2. b \notin disk.blocks
  BY <1>1 DEF AcceptBlock
<1>3. Prev[b] \in disk.blocks
  <2>1. IsInMainChain(pnext, pindexBest, Genesis)
    BY <1>1 DEF IsInMainChain
  <2>2. \A c \in Block : IsInMainChain(pnext, pindexBest, c) => Anc[c] \subseteq disk.blocks
    BY <1>1 DEF IsInMainChain
  <2>3. VerifyInputsUnspent(disk, mapBlockIndex, pnext, pindexBest, b)
    BY DEF AcceptBlock
  <2> QED BY <2>1, <2>2, <2>3, VerifiedParentStored
<1>4. v \in Views /\ v.blocks = B /\ v.best = disk.best /\ v.next = [disk.next EXCEPT ![b] = NoBlock]
  BY <1>1, ViewTypes DEF WithNewBlock, Views
<1> HIDE DEF v
<1>5. v.next = disk.next
  BY <1>1, <1>2, <1>4
<1>6. Closed(B)
  <2>1. Anc[b] = Anc[Prev[b]] \cup {b} /\ Anc[Prev[b]] \subseteq disk.blocks
    BY <1>1, <1>3, Parent
  <2>2. disk.blocks \subseteq Block
    BY <1>1 DEF Views
  <2> QED BY <1>1, <2>1, <2>2 DEF Closed
<1>7. State(v) \in States /\ State(v).pnext = pnext /\ State(v).view = v /\ State(v).ok
  BY <1>1, <1>4 DEF State, States
<1>8. Linked(State(v), B)
  BY <1>1, <1>4, <1>5, <1>7 DEF Linked
<1> QED BY <1>2, <1>3, <1>4, <1>5, <1>6, <1>7, <1>8 DEF v

\* A valid checkpoint that is on the best chain, or that can be read, is stored.
LEMMA ValidIsStored ==
    ASSUME StoredInv, NEW c \in mapBlockIndex, ValidateSyncCheckpoint(c)
    PROVE  /\ c \in Block \ {Genesis} /\ hashSyncCheckpoint \in Anc[c]
           /\ IsInMainChain(pnext, pindexBest, c) => c \in disk.blocks
<1>1. c \in Block /\ hashSyncCheckpoint \in Anc[c] /\ Height[c] > Height[hashSyncCheckpoint]
  BY DEF StoredInv, TypeOK, ValidateSyncCheckpoint, IsDescendant
<1>2. c # Genesis
  <2> SUFFICES ASSUME c = Genesis PROVE FALSE
    OBVIOUS
  <2>1. hashSyncCheckpoint = Genesis
    BY <1>1, TreeAssumption
  <2>2. Height[Genesis] \in Nat
    BY TreeAssumption
  <2> QED BY <1>1, <2>1, <2>2
<1>3. IsInMainChain(pnext, pindexBest, c) => c \in disk.blocks
  BY <1>1 DEF StoredInv, IsInMainChain
<1> QED BY <1>1, <1>2, <1>3

\* StoredInv holds initially.
LEMMA StoredInit == Init => StoredInv
<1> SUFFICES ASSUME Init PROVE StoredInv
  OBVIOUS
<1>1. /\ Genesis \in Block /\ NoBlock \notin Block /\ Anc[Genesis] = {Genesis}
  BY TreeAssumption
<1>2. disk \in Views /\ disk.blocks = {Genesis} /\ disk.best = Genesis /\ disk.next = pnext
  BY GenesisViewType DEF Init, GenesisView
<1>3. 0 \in 0..Upgrades
  BY CheckpointAssumption
<1>4. TypeOK
  BY <1>1, <1>2, <1>3 DEF Init, TypeOK
<1> QED BY <1>1, <1>2, <1>4 DEF Init, StoredInv

\* One lemma for every step that may change what is stored or linked.
LEMMA StoredAccept ==
    ASSUME StoredInv, NEW b \in Block \ {Genesis}, AcceptBlock(b), UNCHANGED faults
    PROVE  StoredInv'
<1> DEFINE v == WithNewBlock(disk, b)
           B == disk.blocks \cup {b}
           heavier == ChainTrust[b] > ChainTrust[pindexBest]
           s == IF heavier THEN SetBestChain(State(v), pindexBest, b) ELSE State(v)
<1>1. /\ Prev[b] \in disk.blocks /\ b \notin disk.blocks
      /\ v \in Views /\ v.blocks = B /\ v.best = disk.best /\ v.next = disk.next
      /\ Closed(B) /\ Linked(State(v), B)
      /\ State(v).pnext = pnext /\ State(v).view = v /\ State(v).ok
  BY AcceptStored
<1>2. /\ mapBlockIndex' = mapBlockIndex \cup {b}
      /\ \/ /\ s.ok /\ disk' = s.view /\ pnext' = s.pnext
            /\ pindexBest' = IF heavier THEN b ELSE pindexBest
            /\ phase' = "accepted"
            /\ refused' = (refused \/ (heavier /\ s.view.best # b))
         \/ UNCHANGED <<disk, pnext, pindexBest, phase, refused>>
      /\ UNCHANGED <<checkpoint, diskSync, keys, syncKey, cur, vpindexSecondary>>
      /\ phase = "idle" /\ refused \in BOOLEAN
  BY DEF AcceptBlock, StoredInv, TypeOK
<1> HIDE DEF v
<1>3. CASE UNCHANGED <<disk, pnext, pindexBest, phase, refused>>
  <2>1. mapBlockIndex' \subseteq Block /\ disk.blocks \subseteq mapBlockIndex'
    BY <1>2 DEF StoredInv, TypeOK
  <2>2. TypeOK'
    BY <1>2, <1>3, <2>1 DEF StoredInv, TypeOK, checkpoint, keys
  <2> QED BY <1>2, <1>3, <2>1, <2>2 DEF StoredInv, checkpoint, keys
<1>4. CASE /\ s.ok /\ disk' = s.view /\ pnext' = s.pnext
           /\ pindexBest' = IF heavier THEN b ELSE pindexBest
           /\ phase' = "accepted"
           /\ refused' = (refused \/ (heavier /\ s.view.best # b))
  <2>1. /\ Linked(s, B) /\ s.view.best \in B
        /\ s.pnext[Genesis] = NoBlock => ~heavier /\ s.pnext = pnext /\ s.view.best = disk.best
    <3>1. CASE heavier
      <4>1. /\ pindexBest \in B /\ (pnext[Genesis] = NoBlock => pindexBest = Genesis)
        BY DEF StoredInv
      <4>2. Further(s, B)
        BY <1>1, <1>4, <3>1, <4>1, SetBestChainResult
      <4> QED BY <3>1, <4>2 DEF Further
    <3>2. CASE ~heavier
      BY <1>1, <3>2 DEF StoredInv
    <3> QED BY <3>1, <3>2
  <2> HIDE DEF s
  <2>2. /\ disk' \in Views /\ disk'.blocks = B /\ disk'.next = pnext' /\ disk'.best \in B
        /\ pnext' \in [Block -> Block \cup {NoBlock}]
        /\ \A c \in Block : pnext'[c] # NoBlock => c \in B
    BY <1>4, <2>1 DEF Linked, States
  <2>3. mapBlockIndex' \subseteq Block /\ B \subseteq mapBlockIndex'
    BY <1>2 DEF StoredInv, TypeOK
  <2>4. pindexBest' \in B /\ B \subseteq Block
    BY <1>1, <1>4 DEF StoredInv, Closed
  <2>5. TypeOK'
    <3>1. refused' \in BOOLEAN
      BY <1>2, <1>4
    <3> QED BY <1>2, <1>4, <2>2, <2>3, <2>4, <3>1 DEF StoredInv, TypeOK, checkpoint, keys
  <2>6. pnext'[Genesis] = NoBlock => pindexBest' = Genesis /\ disk'.best = Genesis
    BY <1>4, <2>1 DEF StoredInv
  <2>7. Genesis \in B /\ \A c \in B : Anc[c] \subseteq B
    BY <1>1 DEF StoredInv, Closed
  <2>8. diskSync' \in B /\ hashSyncCheckpoint' = diskSync'
    BY <1>2 DEF StoredInv, checkpoint
  <2> HIDE DEF B
  <2> QED BY <1>4, <2>2, <2>3, <2>4, <2>5, <2>6, <2>7, <2>8 DEF StoredInv
<1> QED BY <1>2, <1>3, <1>4

\* A checkpoint whose switch or write is started is a stored block.
LEMMA StoredStart ==
    ASSUME StoredInv, NEW c \in mapBlockIndex, ValidateSyncCheckpoint(c), StartCheckpoint(c),
           UNCHANGED <<memory, disk, diskSync, keys, syncKey, refused, faults>>
    PROVE  StoredInv'
<1>1. /\ c \in Block \ {Genesis}
      /\ IsInMainChain(pnext, pindexBest, c) => c \in disk.blocks
  BY ValidIsStored
<1>2. /\ phase' \in {"write", "switch", "idle"} /\ cur' \in {NoBlock, c}
      /\ phase' \in {"write", "switch"} => cur' = c /\ c \in disk.blocks
  BY <1>1 DEF StartCheckpoint
<1>3. UNCHANGED <<mapBlockIndex, pnext, pindexBest, hashSyncCheckpoint, hashPendingCheckpoint,
                  hashInvalidCheckpoint, disk, diskSync, diskPubKey, strMasterPubKey, syncKey,
                  vpindexSecondary, refused, faults>>
  BY DEF StartCheckpoint, memory, checkpoint, keys
<1>4. TypeOK'
  BY <1>1, <1>2, <1>3 DEF StoredInv, TypeOK
<1> QED BY <1>1, <1>2, <1>3, <1>4 DEF StoredInv

\* The first transaction of the switch stores no block and forgets none.
LEMMA StoredSwitch ==
    ASSUME StoredInv, SwitchToCheckpoint, UNCHANGED faults
    PROVE  StoredInv'
<1> DEFINE s == FirstSwitch(State(disk), pindexBest, cur)
           B == disk.blocks
<1>1. /\ Closed(B) /\ Linked(State(disk), B) /\ State(disk).pnext = pnext
      /\ Genesis \in Block /\ NoBlock \notin Block
  BY StoredLinked
<1>2. cur \in Block \ {Genesis} /\ cur \in B /\ pindexBest \in B
  BY <1>1 DEF StoredInv, SwitchToCheckpoint, Closed
<1>3. UNCHANGED <<mapBlockIndex, pindexBest, hashSyncCheckpoint, hashPendingCheckpoint, diskSync,
                  diskPubKey, strMasterPubKey, syncKey, refused, faults>>
  BY DEF SwitchToCheckpoint, keys
<1>4. CASE /\ s.ok /\ disk' = s.view /\ pnext' = s.pnext
           /\ vpindexSecondary' = Postponed(pindexBest, cur)
           /\ phase' = "postponed"
           /\ UNCHANGED <<hashInvalidCheckpoint, cur>>
  <2>1. pnext[Genesis] = NoBlock => pindexBest = Genesis
    BY DEF StoredInv
  <2>2. Linked(s, B) /\ s.view.best \in B /\ s.pnext[Genesis] # NoBlock
    BY <1>1, <1>2, <1>4, <2>1, FirstSwitchResult
  <2>3. pindexBest \in Block
    BY DEF StoredInv, TypeOK
  <2>4. FirstTip(pindexBest, cur) \in Anc[cur]
    BY <1>2, <2>3, FirstTipExists
  <2>5. FirstTip(pindexBest, cur) \in Block
    BY <1>2, <2>4, AncBasic
  <2>6. vpindexSecondary' \subseteq Block /\ Genesis \notin vpindexSecondary'
    BY <1>2, <1>4, <2>5, AncBasic DEF Postponed
  <2> HIDE DEF s
  <2>7. /\ disk' \in Views /\ disk'.blocks = B /\ disk'.next = pnext' /\ disk'.best \in B
        /\ pnext' \in [Block -> Block \cup {NoBlock}] /\ pnext'[Genesis] # NoBlock
        /\ \A c \in Block : pnext'[c] # NoBlock => c \in B
    BY <1>4, <2>2 DEF Linked, States
  <2>8. TypeOK'
    BY <1>3, <1>4, <2>6, <2>7 DEF StoredInv, TypeOK
  <2> QED BY <1>2, <1>3, <1>4, <2>6, <2>7, <2>8 DEF StoredInv
<1>5. CASE /\ hashInvalidCheckpoint' = cur
           /\ phase' = "idle" /\ cur' = NoBlock
           /\ UNCHANGED <<disk, pnext, vpindexSecondary>>
  <2>1. TypeOK'
    BY <1>2, <1>3, <1>5 DEF StoredInv, TypeOK
  <2> QED BY <1>3, <1>5, <2>1 DEF StoredInv
<1> QED BY <1>4, <1>5 DEF SwitchToCheckpoint

\* Nor does the connection of a postponed block.
LEMMA StoredPostponed ==
    ASSUME StoredInv, ConnectPostponed, UNCHANGED faults
    PROVE  StoredInv'
<1>1. PICK c \in vpindexSecondary :
        LET s == SetBestChainInner(State(disk), c)
        IN  \/ /\ s.ok /\ disk' = s.view /\ pnext' = s.pnext
               /\ vpindexSecondary' = vpindexSecondary \ {c}
            \/ vpindexSecondary' = {} /\ UNCHANGED <<disk, pnext>>
  BY DEF ConnectPostponed
<1> DEFINE s == SetBestChainInner(State(disk), c)
           B == disk.blocks
<1>2. UNCHANGED <<mapBlockIndex, pindexBest, hashSyncCheckpoint, hashPendingCheckpoint,
                  hashInvalidCheckpoint, diskSync, diskPubKey, strMasterPubKey, syncKey, phase,
                  cur, faults>>
      /\ refused' \in BOOLEAN
  BY DEF ConnectPostponed, checkpoint, keys, StoredInv, TypeOK
<1>3. CASE vpindexSecondary' = {} /\ UNCHANGED <<disk, pnext>>
  <2>1. TypeOK'
    BY <1>2, <1>3 DEF StoredInv, TypeOK
  <2> QED BY <1>2, <1>3, <2>1 DEF StoredInv
<1>4. CASE /\ s.ok /\ disk' = s.view /\ pnext' = s.pnext
           /\ vpindexSecondary' = vpindexSecondary \ {c}
  <2>1. /\ Closed(B) /\ Linked(State(disk), B) /\ State(disk).pnext = pnext
        /\ State(disk).view = disk
    BY StoredLinked
  <2>2. phase = "postponed" /\ pnext[Genesis] # NoBlock /\ c \in Block \ {Genesis} /\ disk.best \in B
    BY DEF ConnectPostponed, StoredInv, TypeOK
  <2>3. Further(State(disk), B)
    BY <2>1, <2>2 DEF Further
  <2>4. Further(s, B)
    BY <2>1, <2>2, <2>3, InnerFurther
  <2> HIDE DEF s
  <2>5. /\ disk' \in Views /\ disk'.blocks = B /\ disk'.next = pnext' /\ disk'.best \in B
        /\ pnext' \in [Block -> Block \cup {NoBlock}] /\ pnext'[Genesis] # NoBlock
        /\ \A d \in Block : pnext'[d] # NoBlock => d \in B
    BY <1>4, <2>4 DEF Further, Linked, States
  <2>6. vpindexSecondary' \subseteq Block /\ Genesis \notin vpindexSecondary'
    BY <1>4, <2>2 DEF StoredInv, TypeOK
  <2>7. TypeOK'
    BY <1>2, <2>5, <2>6 DEF StoredInv, TypeOK
  <2> QED BY <1>2, <2>5, <2>6, <2>7 DEF StoredInv
<1> QED BY <1>1, <1>3, <1>4

\* Every step keeps StoredInv.
LEMMA StoredStep == StoredInv /\ [Next]_vars => StoredInv'
<1> SUFFICES ASSUME StoredInv, [Next]_vars PROVE StoredInv'
  OBVIOUS
<1> USE DEF memory, checkpoint, keys, handler
<1>1. CASE UNCHANGED vars
  BY <1>1 DEF vars, StoredInv, TypeOK
<1>2. ASSUME NEW b \in Block \ {Genesis}, AcceptBlock(b), UNCHANGED faults PROVE StoredInv'
  BY <1>2, StoredAccept
<1>3. ASSUME NEW c \in Signed, ProcessSyncCheckpoint(c), UNCHANGED faults PROVE StoredInv'
  <2>1. c \in Block
    BY CheckpointAssumption
  <2>2. CASE c \in mapBlockIndex /\ ValidateSyncCheckpoint(c)
    BY <1>3, <2>2, StoredStart DEF ProcessSyncCheckpoint
  <2>3. CASE ~(c \in mapBlockIndex /\ ValidateSyncCheckpoint(c))
    <3>1. /\ hashPendingCheckpoint' \in {c, hashPendingCheckpoint}
          /\ hashInvalidCheckpoint' \in {c, hashInvalidCheckpoint}
          /\ UNCHANGED <<memory, hashSyncCheckpoint, handler, disk, diskSync, keys, syncKey, refused,
                         faults>>
      BY <1>3, <2>3 DEF ProcessSyncCheckpoint, InvalidAfter
    <3>2. TypeOK'
      BY <2>1, <3>1 DEF StoredInv, TypeOK
    <3> QED BY <3>1, <3>2 DEF StoredInv
  <2> QED BY <2>2, <2>3
<1>4. CASE AcceptPendingSyncCheckpoint /\ UNCHANGED faults
  <2> DEFINE c == hashPendingCheckpoint
  <2>1. CASE c \in mapBlockIndex /\ ValidateSyncCheckpoint(c)
    BY <1>4, <2>1, StoredStart DEF AcceptPendingSyncCheckpoint
  <2>2. CASE ~(c \in mapBlockIndex /\ ValidateSyncCheckpoint(c))
    <3>1. /\ phase' = "idle"
          /\ hashPendingCheckpoint' \in {NoBlock, hashPendingCheckpoint}
          /\ hashInvalidCheckpoint' \in {hashPendingCheckpoint, hashInvalidCheckpoint}
          /\ UNCHANGED <<memory, hashSyncCheckpoint, cur, vpindexSecondary, disk, diskSync, keys,
                         syncKey, refused, faults>>
      BY <1>4, <2>2 DEF AcceptPendingSyncCheckpoint, InvalidAfter
    <3>2. TypeOK'
      BY <3>1 DEF StoredInv, TypeOK
    <3> QED BY <3>1, <3>2 DEF StoredInv
  <2> QED BY <2>1, <2>2
<1>5. CASE SwitchToCheckpoint /\ UNCHANGED faults
  BY <1>5, StoredSwitch
<1>6. CASE ConnectPostponed /\ UNCHANGED faults
  BY <1>6, StoredPostponed
<1>7. CASE SwitchDone /\ UNCHANGED faults
  <2>1. cur \in disk.blocks \ {Genesis} /\ pnext[Genesis] # NoBlock
    BY <1>7 DEF SwitchDone, StoredInv
  <2>2. disk.blocks \subseteq Block
    BY StoredLinked DEF Closed
  <2>3. TypeOK'
    BY <1>7, <2>1, <2>2 DEF SwitchDone, StoredInv, TypeOK
  <2> QED BY <1>7, <2>1, <2>3 DEF SwitchDone, StoredInv
<1>8. CASE WriteSyncCheckpoint /\ UNCHANGED faults
  <2>1. cur \in disk.blocks
    BY <1>8 DEF WriteSyncCheckpoint, StoredInv
  <2>2. disk.blocks \subseteq Block
    BY StoredLinked DEF Closed
  <2>3. TypeOK'
    BY <1>8, <2>1, <2>2 DEF WriteSyncCheckpoint, StoredInv, TypeOK
  <2> QED BY <1>8, <2>1, <2>3 DEF WriteSyncCheckpoint, StoredInv
<1>9. CASE WriteSyncCheckpointFails /\ UNCHANGED faults
  <2>1. TypeOK'
    BY <1>9 DEF WriteSyncCheckpointFails, StoredInv, TypeOK
  <2> QED BY <1>9, <2>1 DEF WriteSyncCheckpointFails, StoredInv
<1>10. CASE WriteCheckpointPubKey /\ UNCHANGED faults
  <2>1. TypeOK'
    BY <1>10 DEF WriteCheckpointPubKey, StoredInv, TypeOK
  <2> QED BY <1>10, <2>1 DEF WriteCheckpointPubKey, StoredInv
<1>11. CASE ResetSyncCheckpoint /\ UNCHANGED faults
  <2>1. TypeOK'
    BY <1>11, TreeAssumption DEF ResetSyncCheckpoint, StoredInv, TypeOK
  <2> QED BY <1>11, <2>1 DEF ResetSyncCheckpoint, StoredInv
<1>12. CASE LoadBlockIndex /\ UNCHANGED faults
  <2>1. /\ disk \in Views /\ disk.blocks \subseteq Block /\ disk.best \in Block
        /\ disk.next \in [Block -> Block \cup {NoBlock}]
    BY DEF StoredInv, TypeOK, Views
  <2>2. TypeOK'
    BY <1>12, <2>1 DEF LoadBlockIndex, StoredInv, TypeOK
  <2> QED BY <1>12, <2>2 DEF LoadBlockIndex, StoredInv
<1> QED BY <1>1, <1>2, <1>3, <1>4, <1>5, <1>6, <1>7, <1>8, <1>9, <1>10, <1>11, <1>12
        DEF Next, Handler

\* Every variable keeps its type, whatever is received, dies or fails.
THEOREM CheckpointTypes == Spec => []TypeOK
<1>1. StoredInv => TypeOK
  BY DEF StoredInv
<1> QED BY <1>1, StoredInit, StoredStep, PTL DEF Spec

\* The assertion of CheckSync never fails: the checkpoint is in the index, and the
\* committed one among the committed blocks, although a checkpoint may wait for
\* its block, a block may be in memory only, and any write may fail.
THEOREM CheckpointAlwaysAccepted == Spec => []CheckpointIsAccepted
<1>1. StoredInv => CheckpointIsAccepted
  BY DEF StoredInv, CheckpointIsAccepted
<1> QED BY <1>1, StoredInit, StoredStep, PTL DEF Spec

-----------------------------------------------------------------------------
(* Until a postponed block is refused, no reorganisation goes below the     *)
(* checkpoint.                                                              *)

\* Where the links describe a chain, IsInMainChain is membership in it.
LEMMA MainChain ==
    ASSUME NEW n \in [Block -> Block \cup {NoBlock}], NEW t \in Block, LinksOK(n, t),
           NEW c \in Block
    PROVE  IsInMainChain(n, t, c) <=> c \in Anc[t]
<1>1. ASSUME c \in Anc[t] PROVE IsInMainChain(n, t, c)
  <2>1. CASE c = t
    BY <2>1 DEF IsInMainChain
  <2>2. CASE c # t
    <3>1. PICK d \in Anc[t] \ {Genesis} : Prev[d] = c
      BY <1>1, <2>2, ChildExists
    <3>2. n[c] = d /\ d \in Block
      BY <3>1, AncBasic DEF LinksOK
    <3> QED BY <3>2, TreeAssumption DEF IsInMainChain
  <2> QED BY <2>1, <2>2
<1>2. ASSUME c \notin Anc[t] PROVE ~IsInMainChain(n, t, c)
  BY <1>2, OutsideUnlinked, AncBasic DEF IsInMainChain
<1> QED BY <1>1, <1>2

\* The body of CheckpointInv.
CheckpointBody ==
    /\ Describes(disk, disk.best)
    /\ diskSync \in Anc[disk.best]
    /\ phase # "postponed" => pindexBest = disk.best
    /\ phase \in {"switch", "postponed", "write"} => diskSync \in Anc[cur]
    /\ phase = "switch" => cur \notin Anc[disk.best]
    /\ phase = "postponed" => /\ disk.best \in Anc[cur]
                              /\ vpindexSecondary = Anc[cur] \ Anc[disk.best]
    /\ phase = "write" => cur \in Anc[disk.best]

\* The rest of CheckpointInv holds initially.
LEMMA BodyInit == Init => CheckpointBody
<1> SUFFICES ASSUME Init PROVE CheckpointBody
  OBVIOUS
<1>1. disk = GenesisView /\ disk.best = Genesis /\ pindexBest = Genesis /\ diskSync = Genesis
      /\ phase = "idle"
  BY DEF Init, GenesisView
<1>2. Describes(disk, disk.best)
  BY <1>1, DescribesGenesis
<1>3. diskSync \in Anc[disk.best]
  BY <1>1, AncBasic, TreeAssumption
<1> QED BY <1>1, <1>2, <1>3 DEF CheckpointBody

\* A new block is a descendant of the checkpoint, so that no reorganisation to it
\* leaves the checkpoint.
LEMMA BodyAccept ==
    ASSUME StoredInv, CheckpointBody, NEW b \in Block \ {Genesis}, AcceptBlock(b)
    PROVE  /\ diskSync \in Anc[disk'.best]
           /\ ~refused' => CheckpointBody'
<1> DEFINE v == WithNewBlock(disk, b)
           B == disk.blocks \cup {b}
           heavier == ChainTrust[b] > ChainTrust[pindexBest]
           s == IF heavier THEN SetBestChain(State(v), pindexBest, b) ELSE State(v)
<1>1. /\ b \notin disk.blocks
      /\ v.best = disk.best /\ Closed(B) /\ Linked(State(v), B)
      /\ State(v).pnext = pnext /\ State(v).view = v
  BY AcceptStored
<1>2. /\ \/ /\ s.ok /\ disk' = s.view /\ pnext' = s.pnext
            /\ pindexBest' = IF heavier THEN b ELSE pindexBest
            /\ phase' = "accepted"
            /\ ~refused' /\ heavier => s.view.best = b
         \/ UNCHANGED <<disk, pnext, pindexBest, phase>>
      /\ diskSync' = diskSync /\ cur' = cur /\ vpindexSecondary' = vpindexSecondary
      /\ phase = "idle"
  BY DEF AcceptBlock
<1>3. /\ pindexBest = disk.best /\ disk.best \in disk.blocks /\ disk \in Views /\ disk.best \in Block
      /\ hashSyncCheckpoint = diskSync /\ diskSync \in mapBlockIndex /\ diskSync \in Block
      /\ diskSync \in Anc[disk.best] /\ Describes(disk, disk.best)
      /\ pnext[Genesis] = NoBlock => pindexBest = Genesis
  BY <1>2 DEF StoredInv, TypeOK, CheckpointBody, Views
<1>4. CASE UNCHANGED <<disk, pnext, pindexBest, phase>>
  BY <1>2, <1>4 DEF CheckpointBody
<1>5. CASE /\ s.ok /\ disk' = s.view /\ pnext' = s.pnext
           /\ pindexBest' = IF heavier THEN b ELSE pindexBest
           /\ phase' = "accepted"
           /\ ~refused' /\ heavier => s.view.best = b
  <2>1. Describes(v, disk.best)
    BY <1>1, <1>3, DescribesNew
  <2> HIDE DEF v
  <2>2. CASE ~heavier
    <3>1. disk' = v /\ pindexBest' = pindexBest
      BY <1>1, <1>5, <2>2
    <3> QED BY <1>1, <1>2, <1>3, <1>5, <2>1, <3>1 DEF CheckpointBody
  <2>3. CASE heavier
    <3>1. pindexBest \in B /\ pindexBest \in Block
      BY <1>3
    <3>2. b \notin Anc[pindexBest]
      BY <1>1, <1>3 DEF StoredInv
    <3>3. diskSync \in Anc[b]
      <4>1. b \notin mapBlockIndex /\ CheckSync(b)
        BY DEF AcceptBlock
      <4>2. Height[b] > Height[diskSync]
        <5>1. Height[b] \in Nat /\ Height[diskSync] \in Nat
          BY <1>3, TreeAssumption
        <5> QED BY <1>3, <4>1, <5>1 DEF CheckSync
      <4>3. diskSync \in Anc[Prev[b]]
        BY <1>3, <4>1, <4>2 DEF CheckSync
      <4> QED BY <4>3, Parent
    <3>4. s = SetBestChain(State(v), pindexBest, b)
      BY <2>3
    <3> HIDE DEF s
    <3>5. /\ Describes(s.view, s.view.best)
          /\ Anc[pindexBest] \cap Anc[b] \subseteq Anc[s.view.best]
      BY <1>1, <1>3, <1>5, <2>1, <3>1, <3>2, <3>4, SetBestChainResult
    <3>6. diskSync \in Anc[disk'.best]
      BY <1>3, <1>5, <3>3, <3>5
    <3>7. ASSUME ~refused' PROVE CheckpointBody'
      <4>1. pindexBest' = b /\ disk'.best = b /\ Describes(disk', b)
        BY <1>5, <2>3, <3>5, <3>7
      <4> QED BY <1>2, <1>5, <3>3, <4>1 DEF CheckpointBody
    <3> QED BY <3>6, <3>7
  <2> QED BY <2>2, <2>3
<1> QED BY <1>2, <1>4, <1>5

\* A valid checkpoint is a descendant of the present one.
LEMMA BodyStart ==
    ASSUME StoredInv, CheckpointBody, phase # "postponed",
           NEW c \in mapBlockIndex, ValidateSyncCheckpoint(c), StartCheckpoint(c),
           UNCHANGED <<memory, disk, diskSync>>
    PROVE  CheckpointBody'
<1>1. c \in Block /\ hashSyncCheckpoint \in Anc[c]
  BY ValidIsStored
<1>2. /\ pindexBest = disk.best /\ hashSyncCheckpoint = diskSync /\ pnext = disk.next
      /\ pnext \in [Block -> Block \cup {NoBlock}] /\ disk.best \in Block
      /\ LinksOK(pnext, pindexBest)
  BY DEF StoredInv, TypeOK, CheckpointBody, Describes, Views
<1>3. IsInMainChain(pnext, pindexBest, c) <=> c \in Anc[disk.best]
  BY <1>1, <1>2, MainChain
<1>4. /\ phase' \in {"write", "switch", "idle"}
      /\ phase' \in {"write", "switch"} => cur' = c
      /\ phase' = "write" => c \in Anc[disk.best]
      /\ phase' = "switch" => c \notin Anc[disk.best]
  BY <1>3 DEF StartCheckpoint
<1>5. UNCHANGED <<disk, diskSync, pindexBest>>
  BY DEF memory
<1> QED BY <1>1, <1>2, <1>4, <1>5 DEF CheckpointBody

\* The chains of the best block and of the new checkpoint meet at or above the
\* present checkpoint.
LEMMA BodySwitch ==
    ASSUME StoredInv, CheckpointBody, SwitchToCheckpoint
    PROVE  CheckpointBody'
<1> DEFINE s == FirstSwitch(State(disk), pindexBest, cur)
           B == disk.blocks
           tip == FirstTip(pindexBest, cur)
<1>1. /\ Closed(B) /\ Linked(State(disk), B) /\ State(disk).pnext = pnext
      /\ State(disk).view = disk
  BY StoredLinked
<1>2. /\ phase = "switch" /\ pindexBest = disk.best /\ pindexBest \in B /\ pindexBest \in Block
      /\ cur \in B /\ cur \in Block \ {Genesis} /\ cur \notin Anc[pindexBest]
      /\ diskSync \in Anc[cur] /\ diskSync \in Anc[pindexBest] /\ Describes(disk, pindexBest)
      /\ pnext[Genesis] = NoBlock => pindexBest = Genesis
  BY <1>1 DEF StoredInv, TypeOK, CheckpointBody, SwitchToCheckpoint, Closed
<1>3. diskSync' = diskSync /\ pindexBest' = pindexBest
  BY DEF SwitchToCheckpoint
<1>4. CASE /\ s.ok /\ disk' = s.view
           /\ vpindexSecondary' = Postponed(pindexBest, cur)
           /\ phase' = "postponed" /\ cur' = cur
  <2>1. /\ tip \in Anc[cur] /\ Anc[pindexBest] \cap Anc[cur] \subseteq Anc[tip]
    BY <1>2, FirstTipExists
  <2>2. s.view.best = tip /\ Describes(s.view, tip)
    BY <1>1, <1>2, <1>4, FirstSwitchResult
  <2>3. vpindexSecondary' = Anc[cur] \ Anc[tip]
    BY <1>4 DEF Postponed
  <2> HIDE DEF s, tip
  <2> QED BY <1>2, <1>3, <1>4, <2>1, <2>2, <2>3 DEF CheckpointBody
<1>5. CASE phase' = "idle" /\ disk' = disk
  BY <1>2, <1>3, <1>5 DEF CheckpointBody
<1> QED BY <1>4, <1>5 DEF SwitchToCheckpoint

\* The lowest postponed block is on top of the best block on disk.
LEMMA BodyPostponed ==
    ASSUME StoredInv, CheckpointBody, ConnectPostponed, ~refused'
    PROVE  CheckpointBody'
<1>1. PICK c \in vpindexSecondary :
        /\ Prev[c] \notin vpindexSecondary
        /\ LET s == SetBestChainInner(State(disk), c)
           IN  s.ok /\ disk' = s.view /\ vpindexSecondary' = vpindexSecondary \ {c}
  BY DEF ConnectPostponed
<1> DEFINE s == SetBestChainInner(State(disk), c)
           B == disk.blocks
<1>2. /\ Closed(B) /\ Linked(State(disk), B) /\ State(disk).pnext = pnext
      /\ State(disk).view = disk
  BY StoredLinked
<1>3. /\ phase = "postponed" /\ pnext[Genesis] # NoBlock /\ c \in Block \ {Genesis}
      /\ disk.best \in B /\ disk.best \in Block /\ cur \in Block
      /\ Describes(disk, disk.best) /\ diskSync \in Anc[disk.best] /\ diskSync \in Anc[cur]
      /\ disk.best \in Anc[cur] /\ vpindexSecondary = Anc[cur] \ Anc[disk.best]
  BY <1>2 DEF ConnectPostponed, StoredInv, TypeOK, CheckpointBody, Closed
<1>4. Prev[c] \in Anc[cur]
  BY <1>1, <1>3, AncTrans
<1>5. Prev[c] = disk.best
  BY <1>1, <1>3, <1>4, FirstAbove
<1>6. Further(State(disk), B)
  BY <1>2, <1>3 DEF Further
<1>7. s.view.best = c /\ Describes(s.view, c)
  BY <1>1, <1>2, <1>3, <1>5, <1>6, InnerFurther
<1>8. Anc[c] = Anc[disk.best] \cup {c}
  BY <1>3, <1>5, Parent
<1>9. /\ disk' = s.view /\ vpindexSecondary' = vpindexSecondary \ {c}
      /\ diskSync' = diskSync /\ phase' = phase /\ cur' = cur
  BY <1>1 DEF ConnectPostponed
<1> HIDE DEF s
<1>10. vpindexSecondary' = Anc[cur] \ Anc[c]
  BY <1>3, <1>8, <1>9
<1> QED BY <1>1, <1>3, <1>7, <1>8, <1>9, <1>10 DEF CheckpointBody

\* Every step keeps it, unless a postponed block is refused.
LEMMA BodyStep ==
    ASSUME StoredInv, CheckpointBody, Next, ~refused'
    PROVE  CheckpointBody'
<1> USE DEF memory, checkpoint, keys, handler
<1>1. ASSUME NEW b \in Block \ {Genesis}, AcceptBlock(b) PROVE CheckpointBody'
  BY <1>1, BodyAccept
<1>2. ASSUME NEW c \in Signed, ProcessSyncCheckpoint(c) PROVE CheckpointBody'
  <2>1. CASE c \in mapBlockIndex /\ ValidateSyncCheckpoint(c)
    BY <1>2, <2>1, BodyStart DEF ProcessSyncCheckpoint
  <2>2. CASE ~(c \in mapBlockIndex /\ ValidateSyncCheckpoint(c))
    <3>1. UNCHANGED <<disk, diskSync, pindexBest, phase, cur, vpindexSecondary>>
      BY <1>2, <2>2 DEF ProcessSyncCheckpoint
    <3> QED BY <3>1 DEF CheckpointBody
  <2> QED BY <2>1, <2>2
<1>3. CASE AcceptPendingSyncCheckpoint
  <2> DEFINE c == hashPendingCheckpoint
  <2>1. CASE c \in mapBlockIndex /\ ValidateSyncCheckpoint(c)
    BY <1>3, <2>1, BodyStart DEF AcceptPendingSyncCheckpoint
  <2>2. CASE ~(c \in mapBlockIndex /\ ValidateSyncCheckpoint(c))
    <3>1. UNCHANGED <<disk, diskSync, pindexBest>> /\ phase = "accepted" /\ phase' = "idle"
      BY <1>3, <2>2 DEF AcceptPendingSyncCheckpoint
    <3> QED BY <3>1 DEF CheckpointBody
  <2> QED BY <2>1, <2>2
<1>4. CASE SwitchToCheckpoint
  BY <1>4, BodySwitch
<1>5. CASE ConnectPostponed
  BY <1>5, BodyPostponed
<1>6. CASE SwitchDone
  <2>1. cur \in Block /\ disk.best \in Anc[cur] /\ Anc[cur] \ Anc[disk.best] = {}
    BY <1>6, StoredLinked DEF SwitchDone, CheckpointBody, StoredInv, Closed
  <2>2. cur \in Anc[disk.best]
    BY <2>1, AncBasic
  <2>3. cur = disk.best
    BY <2>1, <2>2, AncAntisymmetric
  <2> QED BY <1>6, <2>2, <2>3 DEF SwitchDone, CheckpointBody
<1>7. CASE WriteSyncCheckpoint
  BY <1>7 DEF WriteSyncCheckpoint, CheckpointBody
<1>8. CASE WriteSyncCheckpointFails
  BY <1>8 DEF WriteSyncCheckpointFails, CheckpointBody
<1>9. CASE WriteCheckpointPubKey
  BY <1>9 DEF WriteCheckpointPubKey, CheckpointBody
<1>10. CASE ResetSyncCheckpoint
  <2>1. Genesis \in Anc[disk.best]
    BY AncBasic DEF StoredInv, TypeOK, Views
  <2> QED BY <1>10, <2>1 DEF ResetSyncCheckpoint, CheckpointBody
<1>11. CASE LoadBlockIndex
  BY <1>11 DEF LoadBlockIndex, CheckpointBody
<1> QED BY <1>1, <1>2, <1>3, <1>4, <1>5, <1>6, <1>7, <1>8, <1>9, <1>10, <1>11
        DEF Next, Handler

\* What was refused stays refused.
LEMMA RefusedStays == StoredInv /\ [Next]_vars /\ refused => refused'
  BY DEF StoredInv, TypeOK, Next, Handler, vars, AcceptBlock, ProcessSyncCheckpoint,
         AcceptPendingSyncCheckpoint, SwitchToCheckpoint, ConnectPostponed, SwitchDone,
         WriteSyncCheckpoint, WriteSyncCheckpointFails, WriteCheckpointPubKey,
         ResetSyncCheckpoint, LoadBlockIndex

\* Every step keeps CheckpointInv.
LEMMA CheckpointStep == StoredInv /\ CheckpointInv /\ [Next]_vars => CheckpointInv'
<1> SUFFICES ASSUME StoredInv, CheckpointInv, [Next]_vars, ~refused'
             PROVE  CheckpointBody'
  BY DEF CheckpointInv, CheckpointBody
<1>1. CheckpointBody
  BY RefusedStays DEF CheckpointInv, CheckpointBody
<1>2. CASE UNCHANGED vars
  BY <1>1, <1>2 DEF vars, memory, checkpoint, keys, handler, CheckpointBody
<1>3. CASE ~UNCHANGED vars
  BY <1>1, <1>3, BodyStep
<1> QED BY <1>2, <1>3

\* CheckpointInv holds initially.
LEMMA CheckpointInit == Init => CheckpointInv
  BY BodyInit DEF CheckpointInv, CheckpointBody

\* The best block in memory is never below the one in the database.
LEMMA BehindInit == Init => BehindInv
  BY AncBasic, TreeAssumption DEF Init, GenesisView, BehindInv

\* A new best block on disk is on the chain of the one that memory is given: of the
\* new block ...
LEMMA BehindAccept ==
    ASSUME StoredInv, BehindInv, NEW b \in Block \ {Genesis}, AcceptBlock(b)
    PROVE  BehindInv'
<1> DEFINE v == WithNewBlock(disk, b)
           B == disk.blocks \cup {b}
           heavier == ChainTrust[b] > ChainTrust[pindexBest]
           s == IF heavier THEN SetBestChain(State(v), pindexBest, b) ELSE State(v)
<1>1. /\ v.best = disk.best /\ Closed(B) /\ Linked(State(v), B)
      /\ State(v).pnext = pnext /\ State(v).view = v
  BY AcceptStored
<1>2. /\ phase = "idle"
      /\ \/ /\ s.ok /\ disk' = s.view /\ phase' = "accepted"
            /\ pindexBest' = IF heavier THEN b ELSE pindexBest
         \/ UNCHANGED <<disk, pindexBest, phase>>
  BY DEF AcceptBlock
<1> HIDE DEF v
<1>3. CASE UNCHANGED <<disk, pindexBest, phase>>
  BY <1>2, <1>3 DEF BehindInv
<1>4. CASE /\ s.ok /\ disk' = s.view /\ phase' = "accepted"
           /\ pindexBest' = IF heavier THEN b ELSE pindexBest
  <2>1. CASE heavier
    <3>1. pindexBest \in B /\ (pnext[Genesis] = NoBlock => pindexBest = Genesis)
      BY DEF StoredInv
    <3>2. s.view.best \in Anc[b]
      BY <1>1, <1>4, <2>1, <3>1, SetBestChainResult
    <3> QED BY <1>4, <2>1, <3>2 DEF BehindInv
  <2>2. CASE ~heavier
    BY <1>1, <1>2, <1>4, <2>2 DEF BehindInv
  <2> QED BY <2>1, <2>2
<1> QED BY <1>2, <1>3, <1>4

\* ... or of the checkpoint.
LEMMA BehindSwitch ==
    ASSUME StoredInv, BehindInv, SwitchToCheckpoint
    PROVE  BehindInv'
<1> DEFINE s == FirstSwitch(State(disk), pindexBest, cur)
           B == disk.blocks
<1>1. /\ Closed(B) /\ Linked(State(disk), B) /\ State(disk).pnext = pnext
  BY StoredLinked
<1>2. /\ phase = "switch" /\ pindexBest' = pindexBest /\ pindexBest \in B /\ pindexBest \in Block
      /\ cur \in B /\ cur \in Block \ {Genesis}
      /\ pnext[Genesis] = NoBlock => pindexBest = Genesis
  BY <1>1 DEF StoredInv, TypeOK, SwitchToCheckpoint, Closed
<1>3. CASE /\ s.ok /\ disk' = s.view
           /\ vpindexSecondary' = Postponed(pindexBest, cur)
           /\ phase' = "postponed" /\ cur' = cur
  <2>1. FirstTip(pindexBest, cur) \in Anc[cur]
    BY <1>2, FirstTipExists
  <2>2. s.view.best = FirstTip(pindexBest, cur)
    BY <1>1, <1>2, <1>3, FirstSwitchResult
  <2>3. vpindexSecondary' \subseteq Anc[cur]
    BY <1>3 DEF Postponed
  <2> QED BY <1>3, <2>1, <2>2, <2>3 DEF BehindInv
<1>4. CASE phase' = "idle" /\ disk' = disk
  BY <1>2, <1>4 DEF BehindInv
<1> QED BY <1>3, <1>4 DEF SwitchToCheckpoint

LEMMA BehindPostponed ==
    ASSUME StoredInv, BehindInv, ConnectPostponed
    PROVE  BehindInv'
<1>1. PICK c \in vpindexSecondary :
        LET s == SetBestChainInner(State(disk), c)
        IN  \/ /\ s.ok /\ disk' = s.view
               /\ vpindexSecondary' = vpindexSecondary \ {c}
            \/ vpindexSecondary' = {} /\ disk' = disk
  BY DEF ConnectPostponed
<1> DEFINE s == SetBestChainInner(State(disk), c)
           B == disk.blocks
<1>2. /\ phase = "postponed" /\ phase' = phase /\ cur' = cur
      /\ disk.best \in Anc[cur] /\ vpindexSecondary \subseteq Anc[cur]
  BY DEF ConnectPostponed, BehindInv
<1>3. CASE vpindexSecondary' = {} /\ disk' = disk
  BY <1>2, <1>3 DEF BehindInv
<1>4. CASE s.ok /\ disk' = s.view /\ vpindexSecondary' = vpindexSecondary \ {c}
  <2>1. /\ Closed(B) /\ Linked(State(disk), B) /\ State(disk).pnext = pnext
        /\ State(disk).view = disk
    BY StoredLinked
  <2>2. pnext[Genesis] # NoBlock /\ c \in Block \ {Genesis} /\ disk.best \in B
    BY <1>2 DEF StoredInv, TypeOK
  <2>3. Further(State(disk), B)
    BY <2>1, <2>2 DEF Further
  <2>4. s.view.best = c
    BY <1>4, <2>1, <2>2, <2>3, InnerFurther
  <2> QED BY <1>2, <1>4, <2>4 DEF BehindInv
<1> QED BY <1>1, <1>3, <1>4

\* Every step keeps BehindInv, refused blocks and failing writes included.
LEMMA BehindStep == StoredInv /\ BehindInv /\ [Next]_vars => BehindInv'
<1> SUFFICES ASSUME StoredInv, BehindInv, [Next]_vars PROVE BehindInv'
  OBVIOUS
<1> USE DEF memory, checkpoint, keys, handler
<1>1. CASE UNCHANGED vars
  BY <1>1 DEF vars, BehindInv
<1>2. ASSUME NEW b \in Block \ {Genesis}, AcceptBlock(b) PROVE BehindInv'
  BY <1>2, BehindAccept
<1>3. ASSUME phase # "postponed", phase' # "postponed", UNCHANGED <<disk, pindexBest>>
      PROVE  BehindInv'
  BY <1>3 DEF BehindInv
<1>4. ASSUME NEW c \in Signed, ProcessSyncCheckpoint(c) PROVE BehindInv'
  BY <1>3, <1>4 DEF ProcessSyncCheckpoint, StartCheckpoint
<1>5. CASE AcceptPendingSyncCheckpoint
  BY <1>3, <1>5 DEF AcceptPendingSyncCheckpoint, StartCheckpoint
<1>6. CASE SwitchToCheckpoint
  BY <1>6, BehindSwitch
<1>7. CASE ConnectPostponed
  BY <1>7, BehindPostponed
<1>8. CASE SwitchDone
  BY <1>8 DEF SwitchDone, BehindInv
<1>9. CASE WriteSyncCheckpoint \/ WriteSyncCheckpointFails
  BY <1>3, <1>9 DEF WriteSyncCheckpoint, WriteSyncCheckpointFails
<1>10. CASE WriteCheckpointPubKey \/ ResetSyncCheckpoint
  BY <1>3, <1>10 DEF WriteCheckpointPubKey, ResetSyncCheckpoint
<1>11. CASE LoadBlockIndex
  <2>1. disk.best \in Anc[disk.best]
    BY AncBasic DEF StoredInv, TypeOK, Views
  <2> QED BY <1>11, <2>1 DEF LoadBlockIndex, BehindInv
<1> QED BY <1>1, <1>2, <1>4, <1>5, <1>6, <1>7, <1>8, <1>9, <1>10, <1>11 DEF Next, Handler

\* The three invariants hold whichever blocks arrive, writes fail and deaths happen.
LEMMA CheckpointInvHolds == Spec => [](StoredInv /\ CheckpointInv /\ BehindInv)
  BY StoredInit, StoredStep, CheckpointInit, CheckpointStep, BehindInit, BehindStep, PTL DEF Spec

\* Wherever the process dies or a write fails in a switch to a checkpoint, the
\* committed checkpoint is on the committed best chain, until SetBestChain has
\* refused a postponed block.
THEOREM CheckpointStaysOnBestChain == Spec => []CheckpointOnBestChain
<1>1. CheckpointInv => CheckpointOnBestChain
  BY DEF CheckpointInv, CheckpointOnBestChain
<1> QED BY <1>1, CheckpointInvHolds, PTL

\* After each of the transactions of SetBestChain the transaction index and the
\* links on disk are those of the committed best chain, until SetBestChain has
\* refused a postponed block.
THEOREM DiskAlwaysDescribesBest == Spec => []DiskDescribesBest
<1>1. CheckpointInv => DiskDescribesBest
  BY DEF CheckpointInv, DiskDescribesBest, Describes
<1> QED BY <1>1, CheckpointInvHolds, PTL

\* Between two handlers memory and the database agree on the links and on the
\* checkpoint whatever was refused or failed; on the best block too, unless
\* SetBestChain has refused a postponed block, and then memory is ahead of the
\* database on one chain.
THEOREM MemoryAlwaysIsDisk == Spec => []MemoryIsDisk
<1>1. StoredInv /\ CheckpointInv /\ BehindInv => MemoryIsDisk
  BY DEF StoredInv, CheckpointInv, BehindInv, MemoryIsDisk
<1> QED BY <1>1, CheckpointInvHolds, PTL

\* No step writes both a new checkpoint and a new best block.
LEMMA OneOfTwo == [Next]_vars => disk' = disk \/ diskSync' = diskSync
  BY DEF Next, Handler, vars, memory, checkpoint, keys, handler, AcceptBlock,
         ProcessSyncCheckpoint, AcceptPendingSyncCheckpoint, SwitchToCheckpoint,
         ConnectPostponed, SwitchDone, WriteSyncCheckpoint, WriteSyncCheckpointFails,
         WriteCheckpointPubKey, ResetSyncCheckpoint, LoadBlockIndex

\* No step takes the best chain off the checkpoint, not even the one that refuses
\* a postponed block for the first time.
LEMMA FinalStep ==
    StoredInv /\ CheckpointInv /\ (StoredInv /\ CheckpointInv)' /\ [Next]_vars
      => [~refused => Anc[diskSync] \subseteq Anc[disk.best']]_vars
<1> SUFFICES ASSUME StoredInv, CheckpointInv, StoredInv', CheckpointInv', Next, ~refused
             PROVE  Anc[diskSync] \subseteq Anc[disk.best']
  OBVIOUS
<1>1. CheckpointBody
  BY DEF CheckpointInv, CheckpointBody
<1>2. diskSync \in Anc[disk'.best]
  <2>1. ASSUME NEW b \in Block \ {Genesis}, AcceptBlock(b) PROVE diskSync \in Anc[disk'.best]
    BY <1>1, <2>1, BodyAccept
  <2>2. CASE disk' = disk
    BY <1>1, <2>2 DEF CheckpointBody
  <2>3. CASE ~refused'
    BY <1>1, <2>2, <2>3, OneOfTwo DEF CheckpointInv
  <2>4. CASE ConnectPostponed
    BY <2>2, <2>3, <2>4 DEF ConnectPostponed
  <2> QED BY <2>1, <2>3, <2>4
          DEF Next, Handler, ProcessSyncCheckpoint, AcceptPendingSyncCheckpoint,
              SwitchToCheckpoint, SwitchDone, WriteSyncCheckpoint, WriteSyncCheckpointFails,
              WriteCheckpointPubKey, ResetSyncCheckpoint, LoadBlockIndex
<1>3. disk'.best \in Block
  BY DEF StoredInv, TypeOK, Views
<1> QED BY <1>2, <1>3, AncTrans

\* A checkpoint is final until SetBestChain has refused a postponed block: no step
\* takes a block at or below it out of the committed best chain, although a chain
\* with more trust may be offered, a checkpoint may force a chain with less, and
\* writes may fail.
THEOREM CheckpointIsFinal == Spec => NoReorgBelowCheckpoint
  BY FinalStep, CheckpointInvHolds, PTL DEF Spec, NoReorgBelowCheckpoint

-----------------------------------------------------------------------------
(* Trees of valid blocks.                                                   *)

ValidTree == \A c \in Block : ValidBlock(c)

\* When no block is bad and no write fails, no postponed block is refused ...
LEMMA PostponedConnects ==
    ASSUME ValidTree, StoredInv, CheckpointBody, ~WriteErrors, ConnectPostponed
    PROVE  refused' = refused
<1>1. PICK c \in vpindexSecondary :
        /\ Prev[c] \notin vpindexSecondary
        /\ LET s == SetBestChainInner(State(disk), c)
           IN  refused' = refused \/ ~s.ok
  BY DEF ConnectPostponed
<1> DEFINE s == SetBestChainInner(State(disk), c)
           B == disk.blocks
<1>2. /\ Closed(B) /\ Linked(State(disk), B) /\ State(disk).pnext = pnext
      /\ State(disk).view = disk
  BY StoredLinked
<1>3. /\ phase = "postponed" /\ pnext[Genesis] # NoBlock /\ c \in Block \ {Genesis}
      /\ disk.best \in B /\ disk.best \in Block /\ cur \in Block /\ cur \in B
      /\ Describes(disk, disk.best)
      /\ disk.best \in Anc[cur] /\ vpindexSecondary = Anc[cur] \ Anc[disk.best]
  BY <1>2 DEF ConnectPostponed, StoredInv, TypeOK, CheckpointBody, Closed
<1>4. Prev[c] \in Anc[cur]
  BY <1>1, <1>3, AncTrans
<1>5. Prev[c] = disk.best
  BY <1>1, <1>3, <1>4, FirstAbove
<1>6. Further(State(disk), B) /\ State(disk).ok
  BY <1>2, <1>3 DEF Further, State
<1>7. c \in B /\ ValidBlock(c)
  BY <1>2, <1>3 DEF Closed, ValidTree
<1>8. s.ok
  BY <1>2, <1>3, <1>5, <1>6, <1>7, InnerFurther
<1> QED BY <1>1, <1>8

\* ... not in the batch of a block either.
LEMMA AcceptConnects ==
    ASSUME ValidTree, StoredInv, CheckpointBody, NEW b \in Block \ {Genesis}, AcceptBlock(b)
    PROVE  refused' = refused
<1> DEFINE v == WithNewBlock(disk, b)
           B == disk.blocks \cup {b}
           heavier == ChainTrust[b] > ChainTrust[pindexBest]
           s == SetBestChain(State(v), pindexBest, b)
<1>1. /\ b \notin disk.blocks /\ Closed(B) /\ Linked(State(v), B)
      /\ State(v).pnext = pnext /\ State(v).view = v
  BY AcceptStored
<1>2. /\ pindexBest \in disk.blocks /\ pindexBest = disk.best /\ pindexBest \in Block
      /\ disk \in Views /\ Describes(disk, disk.best)
      /\ pnext[Genesis] = NoBlock => pindexBest = Genesis
  BY DEF StoredInv, TypeOK, CheckpointBody, AcceptBlock
<1>3. refused \in BOOLEAN
  BY DEF StoredInv, TypeOK
<1>4. refused' = refused \/ (heavier /\ s.ok /\ refused' = (refused \/ s.view.best # b))
  BY <1>3 DEF AcceptBlock
<1>5. ASSUME heavier, s.ok PROVE s.view.best = b
  <2>1. Describes(v, pindexBest)
    BY <1>1, <1>2, DescribesNew
  <2>2. b \notin Anc[pindexBest]
    BY <1>1, <1>2 DEF StoredInv
  <2>3. \A c \in Anc[b] : c \in B /\ ValidBlock(c)
    BY <1>1, AncBasic DEF Closed, ValidTree
  <2> HIDE DEF v
  <2> QED BY <1>1, <1>2, <1>5, <2>1, <2>2, <2>3, SetBestChainResult
<1> HIDE DEF s, heavier
<1> QED BY <1>3, <1>4, <1>5

\* In a tree of valid blocks, and unless writes fail, nothing is ever refused.
LEMMA ValidTreeStep ==
    ASSUME ValidTree
    PROVE  StoredInv /\ CheckpointInv /\ (WriteErrors \/ ~refused) /\ [Next]_vars
             => (WriteErrors \/ ~refused)'
<1> SUFFICES ASSUME StoredInv, CheckpointInv, ~refused, ~WriteErrors, Next
             PROVE  ~refused'
  BY DEF Next, vars, WriteErrors
<1>1. CheckpointBody
  BY DEF CheckpointInv, CheckpointBody
<1>2. ASSUME NEW b \in Block \ {Genesis}, AcceptBlock(b) PROVE ~refused'
  BY <1>1, <1>2, AcceptConnects
<1>3. CASE ConnectPostponed
  BY <1>1, <1>3, PostponedConnects
<1> QED BY <1>2, <1>3
        DEF Next, Handler, ProcessSyncCheckpoint, AcceptPendingSyncCheckpoint,
            SwitchToCheckpoint, SwitchDone, WriteSyncCheckpoint, WriteSyncCheckpointFails,
            WriteCheckpointPubKey, ResetSyncCheckpoint, LoadBlockIndex

\* In a tree of valid blocks, and unless writes fail, "errors now are not fatal"
\* does no harm: whatever the order of blocks and checkpoint messages, and
\* wherever the process dies, the best block in memory is the committed one, the
\* database describes its chain and the checkpoint is on it.
THEOREM ValidTreeKeepsCheckpoint ==
    ASSUME ValidTree
    PROVE  Spec => [](~WriteErrors => /\ BestIsCommitted
                                      /\ Describes(disk, disk.best)
                                      /\ diskSync \in Anc[disk.best])
<1>1. Init => ~refused
  BY DEF Init
<1>2. StoredInv /\ CheckpointInv /\ BehindInv /\ (WriteErrors \/ ~refused)
        => (~WriteErrors => /\ BestIsCommitted
                            /\ Describes(disk, disk.best)
                            /\ diskSync \in Anc[disk.best])
  BY DEF CheckpointInv, BestIsCommitted
<1> QED BY <1>1, <1>2, CheckpointInvHolds, ValidTreeStep, PTL DEF Spec

=============================================================================
