---------------------------- MODULE LedgerProofs ----------------------------
(***************************************************************************)
(* Facts about the block tree and about what connecting and disconnecting   *)
(* a block do to a view of the database, for every tree and every view, and *)
(* about the memory pool.                                                   *)
(* Inductions over a chain or over the transactions of a block are done by  *)
(* taking a counterexample of least height or least position.               *)
(***************************************************************************)
EXTENDS TxMemPool, TLAPS, WellFoundedInduction

\* A non-empty set of naturals has a least element.
LEMMA NatMin ==
    ASSUME NEW S, S \subseteq Nat, S # {}
    PROVE  \E x \in S : \A y \in S : x <= y
<1> DEFINE R == { ss \in Nat \X Nat : ss[1] < ss[2] }
<1>1. IsWellFoundedOn(R, Nat)
  BY NatLessThanWellFounded DEF OpToRel
<1> HIDE DEF R
<1>2. \E x \in S : \A y \in S : ~(<<y, x>> \in R)
  BY <1>1, WFMin
<1>3. PICK x \in S : \A y \in S : ~(<<y, x>> \in R)
  BY <1>2
<1>4. ASSUME NEW y \in S, y < x PROVE FALSE
  <2>1. y \in Nat /\ x \in Nat
    OBVIOUS
  <2>2. <<y, x>> \in R
    BY <2>1, <1>4 DEF R
  <2> QED BY <2>2, <1>3
<1>5. \A y \in S : x \in Nat /\ y \in Nat
  OBVIOUS
<1>6. \A y \in S : x <= y
  BY <1>4, <1>5
<1> QED BY <1>6

-----------------------------------------------------------------------------
(* The block tree.                                                          *)

\* A set of blocks that, with a block, does not hold the parent of that block
\* and does not hold the genesis block either is empty otherwise: the form of
\* induction along a chain that the lemmas below use.
LEMMA LowestBlock ==
    ASSUME NEW S, S \subseteq Block, S # {}, Genesis \notin S
    PROVE  \E x \in S : x # Genesis /\ Prev[x] \in Block \ S
<1> DEFINE H == { Height[b] : b \in S }
<1>1. H \subseteq Nat /\ H # {}
  BY TreeAssumption
<1>2. \E h \in H : \A k \in H : h <= k
  <2> HIDE DEF H
  <2> QED BY <1>1, NatMin
<1>3. PICK x \in S : \A y \in S : Height[x] <= Height[y]
  BY <1>2
<1>4. x # Genesis /\ x \in Block
  OBVIOUS
<1>5. Prev[x] \in Block /\ Height[x] = Height[Prev[x]] + 1 /\ Height[Prev[x]] \in Nat
  BY <1>4, TreeAssumption
<1>6. Prev[x] \notin S
  <2> SUFFICES ASSUME Prev[x] \in S PROVE FALSE
    OBVIOUS
  <2>1. Height[x] <= Height[Prev[x]]
    BY <1>3
  <2> QED BY <2>1, <1>5
<1> QED BY <1>4, <1>5, <1>6

\* The facts of TreeAssumption about a block that has a parent.
LEMMA Parent ==
    ASSUME NEW b \in Block, b # Genesis
    PROVE  /\ Prev[b] \in Block /\ Prev[b] # b
           /\ Anc[b] = Anc[Prev[b]] \cup {b} /\ b \notin Anc[Prev[b]]
           /\ Anc[b] \subseteq Block /\ Anc[Prev[b]] \subseteq Block
<1>1. Prev[b] \in Block
  BY TreeAssumption
<1>2. /\ Anc[b] = Anc[Prev[b]] \cup {b} /\ b \notin Anc[Prev[b]]
      /\ Anc[b] \in SUBSET Block /\ Anc[Prev[b]] \in SUBSET Block
  BY <1>1, TreeAssumption
<1>3. Height[b] = Height[Prev[b]] + 1 /\ Height[Prev[b]] \in Nat
  BY <1>1, TreeAssumption
<1>4. Prev[b] # b
  BY <1>3
<1> QED BY <1>1, <1>2, <1>4

\* A block and the genesis block are ancestors of the block.
LEMMA AncBasic ==
    ASSUME NEW b \in Block
    PROVE  b \in Anc[b] /\ Genesis \in Anc[b] /\ Anc[b] \subseteq Block
<1> DEFINE S == { c \in Block : ~(c \in Anc[c] /\ Genesis \in Anc[c]) }
<1>1. S = {}
  <2> SUFFICES ASSUME S # {} PROVE FALSE
    OBVIOUS
  <2>1. Genesis \notin S
    BY TreeAssumption
  <2>2. S \subseteq Block
    OBVIOUS
  <2>3. \E x \in S : x # Genesis /\ Prev[x] \in Block \ S
    <3> HIDE DEF S
    <3> QED BY <2>1, <2>2, LowestBlock
  <2>4. PICK x \in S : x # Genesis /\ Prev[x] \in Block \ S
    BY <2>3
  <2>5. x \in Block /\ Anc[x] = Anc[Prev[x]] \cup {x}
    BY <2>4, Parent
  <2>6. Genesis \in Anc[Prev[x]]
    BY <2>4
  <2> QED BY <2>4, <2>5, <2>6
<1>2. Anc[b] \subseteq Block
  BY TreeAssumption
<1> QED BY <1>1, <1>2

\* The ancestors of an ancestor are ancestors.
LEMMA AncTrans ==
    ASSUME NEW b \in Block, NEW c \in Anc[b]
    PROVE  Anc[c] \subseteq Anc[b] /\ (c # Genesis => Prev[c] \in Anc[b])
<1> DEFINE S == { x \in Block : \E y \in Anc[x] : ~(Anc[y] \subseteq Anc[x]) }
<1>1. S = {}
  <2> SUFFICES ASSUME S # {} PROVE FALSE
    OBVIOUS
  <2>1. Genesis \notin S
    BY TreeAssumption
  <2>2. S \subseteq Block
    OBVIOUS
  <2>3. \E x \in S : x # Genesis /\ Prev[x] \in Block \ S
    <3> HIDE DEF S
    <3> QED BY <2>1, <2>2, LowestBlock
  <2>4. PICK x \in S : x # Genesis /\ Prev[x] \in Block \ S
    BY <2>3
  <2>5. x \in Block /\ Anc[x] = Anc[Prev[x]] \cup {x}
    BY <2>4, Parent
  <2>6. \A y \in Anc[Prev[x]] : Anc[y] \subseteq Anc[Prev[x]]
    BY <2>4
  <2>7. \A y \in Anc[x] : Anc[y] \subseteq Anc[x]
    BY <2>5, <2>6
  <2> QED BY <2>4, <2>7
<1>2. c \in Block
  BY AncBasic
<1>3. Anc[c] \subseteq Anc[b]
  BY <1>1
<1>4. ASSUME c # Genesis PROVE Prev[c] \in Anc[b]
  <2>1. Prev[c] \in Block /\ Anc[Prev[c]] \subseteq Anc[c]
    BY <1>2, <1>4, Parent
  <2>2. Prev[c] \in Anc[Prev[c]]
    BY <2>1, AncBasic
  <2> QED BY <2>1, <2>2, <1>3
<1> QED BY <1>3, <1>4

\* In a chain a block has one child.
LEMMA OneChild ==
    ASSUME NEW b \in Block, NEW c \in Anc[b], NEW d \in Anc[b],
           c # Genesis, d # Genesis, Prev[c] = Prev[d]
    PROVE  c = d
<1> DEFINE Two(x) == \E y, z \in Anc[x] \ {Genesis} : Prev[y] = Prev[z] /\ y # z
           S == { x \in Block : Two(x) }
<1>1. S = {}
  <2> SUFFICES ASSUME S # {} PROVE FALSE
    OBVIOUS
  <2>1. Genesis \notin S
    BY TreeAssumption
  <2>2. S \subseteq Block
    OBVIOUS
  <2>3. \E x \in S : x # Genesis /\ Prev[x] \in Block \ S
    <3> HIDE DEF S
    <3> QED BY <2>1, <2>2, LowestBlock
  <2>4. PICK x \in S : x # Genesis /\ Prev[x] \in Block \ S
    BY <2>3
  <2>5. PICK y, z \in Anc[x] \ {Genesis} : Prev[y] = Prev[z] /\ y # z
    BY <2>4
  <2>6. x \in Block /\ Anc[x] = Anc[Prev[x]] \cup {x} /\ Anc[x] \subseteq Block
    BY <2>4, Parent
  <2>7. ~(y \in Anc[Prev[x]] /\ z \in Anc[Prev[x]])
    BY <2>4, <2>5
  <2>8. y \notin Anc[Prev[y]] /\ z \notin Anc[Prev[z]]
    BY <2>5, <2>6, Parent
  <2>9. CASE y = x
    BY <2>5, <2>6, <2>7, <2>8, <2>9
  <2>10. CASE z = x
    BY <2>5, <2>6, <2>7, <2>8, <2>10
  <2> QED BY <2>5, <2>6, <2>7, <2>9, <2>10
<1> QED BY <1>1

\* In a chain every block below the last has a child.
LEMMA ChildExists ==
    ASSUME NEW b \in Block, NEW t \in Anc[b], t # b
    PROVE  \E c \in Anc[b] \ {Genesis} : Prev[c] = t
<1> DEFINE S == { x \in Block : /\ t \in Anc[x] /\ t # x
                                /\ ~\E c \in Anc[x] \ {Genesis} : Prev[c] = t }
<1>1. S = {}
  <2> SUFFICES ASSUME S # {} PROVE FALSE
    OBVIOUS
  <2>1. Genesis \notin S
    BY TreeAssumption
  <2>2. S \subseteq Block
    OBVIOUS
  <2>3. \E x \in S : x # Genesis /\ Prev[x] \in Block \ S
    <3> HIDE DEF S
    <3> QED BY <2>1, <2>2, LowestBlock
  <2>4. PICK x \in S : x # Genesis /\ Prev[x] \in Block \ S
    BY <2>3
  <2>5. x \in Block /\ Anc[x] = Anc[Prev[x]] \cup {x}
    BY <2>4, Parent
  <2>6. CASE t = Prev[x]
    BY <2>4, <2>5, <2>6
  <2>7. CASE t # Prev[x]
    BY <2>4, <2>5, <2>7
  <2> QED BY <2>6, <2>7
<1> QED BY <1>1

\* Height and trust grow along a chain.
LEMMA Monotone ==
    ASSUME NEW b \in Block, NEW a \in Anc[b], a # b
    PROVE  Height[a] < Height[b] /\ ChainTrust[a] < ChainTrust[b]
<1> DEFINE S == { x \in Block : \E y \in Anc[x] \ {x} :
                                  ~(Height[y] < Height[x] /\ ChainTrust[y] < ChainTrust[x]) }
<1>1. S = {}
  <2> SUFFICES ASSUME S # {} PROVE FALSE
    OBVIOUS
  <2>1. Genesis \notin S
    BY TreeAssumption
  <2>2. S \subseteq Block
    OBVIOUS
  <2>3. \E x \in S : x # Genesis /\ Prev[x] \in Block \ S
    <3> HIDE DEF S
    <3> QED BY <2>1, <2>2, LowestBlock
  <2>4. PICK x \in S : x # Genesis /\ Prev[x] \in Block \ S
    BY <2>3
  <2>5. PICK y \in Anc[x] \ {x} : ~(Height[y] < Height[x] /\ ChainTrust[y] < ChainTrust[x])
    BY <2>4
  <2>6. y \in Anc[Prev[x]] /\ y \in Block /\ x \in Block
    BY <2>4, <2>5, Parent
  <2>7. /\ Height[x] = Height[Prev[x]] + 1 /\ ChainTrust[x] > ChainTrust[Prev[x]]
        /\ Height[y] \in Nat /\ Height[x] \in Nat /\ Height[Prev[x]] \in Nat
        /\ ChainTrust[y] \in Nat /\ ChainTrust[x] \in Nat /\ ChainTrust[Prev[x]] \in Nat
    BY <2>4, <2>6, TreeAssumption
  <2>8. y # Prev[x] => Height[y] < Height[Prev[x]] /\ ChainTrust[y] < ChainTrust[Prev[x]]
    BY <2>4, <2>6
  <2> QED BY <2>5, <2>7, <2>8
<1> QED BY <1>1

\* The form of induction down a chain: a set of blocks of the chain that does not
\* hold its last block has one whose child is not in the set.
LEMMA HighestBlock ==
    ASSUME NEW b \in Block, NEW S, S \subseteq Anc[b], S # {}, b \notin S
    PROVE  \E x \in S : \E c \in Anc[b] \ {Genesis} : Prev[c] = x /\ c \notin S
<1> DEFINE H == { Height[b] - Height[x] : x \in S }
<1>1. \A x \in Anc[b] : x \in Block /\ Height[x] \in Nat /\ Height[b] \in Nat /\ Height[x] <= Height[b]
  BY AncBasic, Monotone, TreeAssumption
<1>2. H \subseteq Nat /\ H # {}
  BY <1>1
<1>3. \E h \in H : \A k \in H : h <= k
  <2> HIDE DEF H
  <2> QED BY <1>2, NatMin
<1>4. PICK x \in S : \A y \in S : Height[b] - Height[x] <= Height[b] - Height[y]
  BY <1>3
<1>5. PICK c \in Anc[b] \ {Genesis} : Prev[c] = x
  BY <1>4, ChildExists
<1>6. Height[c] = Height[x] + 1
  BY <1>1, <1>5, TreeAssumption
<1>7. c \notin S
  BY <1>1, <1>4, <1>5, <1>6
<1> QED BY <1>5, <1>7

\* Two blocks of a chain lie on one another's chain.
LEMMA Comparable ==
    ASSUME NEW b \in Block, NEW a \in Anc[b], NEW c \in Anc[b]
    PROVE  a \in Anc[c] \/ c \in Anc[a]
<1> DEFINE S == { x \in Block : \E y, z \in Anc[x] : ~(y \in Anc[z] \/ z \in Anc[y]) }
<1>1. S = {}
  <2> SUFFICES ASSUME S # {} PROVE FALSE
    OBVIOUS
  <2>1. Genesis \notin S
    BY TreeAssumption
  <2>2. S \subseteq Block
    OBVIOUS
  <2>3. \E x \in S : x # Genesis /\ Prev[x] \in Block \ S
    <3> HIDE DEF S
    <3> QED BY <2>1, <2>2, LowestBlock
  <2>4. PICK x \in S : x # Genesis /\ Prev[x] \in Block \ S
    BY <2>3
  <2>5. x \in Block /\ Anc[x] = Anc[Prev[x]] \cup {x}
    BY <2>4, Parent
  <2>6. \A y, z \in Anc[Prev[x]] : y \in Anc[z] \/ z \in Anc[y]
    BY <2>4
  <2>7. \A y, z \in Anc[x] : y \in Anc[z] \/ z \in Anc[y]
    BY <2>5, <2>6
  <2> QED BY <2>4, <2>7
<1> QED BY <1>1

\* Two chains have a last common block.
LEMMA ForkExists ==
    ASSUME NEW a \in Block, NEW b \in Block
    PROVE  \E f \in Anc[a] \cap Anc[b] : Anc[a] \cap Anc[b] \subseteq Anc[f]
<1> DEFINE S == { x \in Block : ~\E f \in Anc[a] \cap Anc[x] : Anc[a] \cap Anc[x] \subseteq Anc[f] }
<1>1. S = {}
  <2> SUFFICES ASSUME S # {} PROVE FALSE
    OBVIOUS
  <2>1. Genesis \notin S
    BY AncBasic, TreeAssumption
  <2>2. S \subseteq Block
    OBVIOUS
  <2>3. \E x \in S : x # Genesis /\ Prev[x] \in Block \ S
    <3> HIDE DEF S
    <3> QED BY <2>1, <2>2, LowestBlock
  <2>4. PICK x \in S : x # Genesis /\ Prev[x] \in Block \ S
    BY <2>3
  <2>5. x \in Block /\ Anc[x] = Anc[Prev[x]] \cup {x}
    BY <2>4, Parent
  <2>6. PICK f \in Anc[a] \cap Anc[Prev[x]] : Anc[a] \cap Anc[Prev[x]] \subseteq Anc[f]
    BY <2>4
  <2>7. CASE x \in Anc[a]
    BY <2>4, <2>5, <2>7
  <2>8. CASE x \notin Anc[a]
    BY <2>4, <2>5, <2>6, <2>8
  <2> QED BY <2>7, <2>8
<1> QED BY <1>1

\* The first block of a chain above one of its blocks is the child of that block.
LEMMA FirstAbove ==
    ASSUME NEW b \in Block, NEW a \in Anc[b], NEW c \in Anc[b], c \notin Anc[a], Prev[c] \in Anc[a]
    PROVE  Prev[c] = a
<1> SUFFICES ASSUME Prev[c] # a PROVE FALSE
  OBVIOUS
<1>1. a \in Block /\ Anc[a] \subseteq Anc[b] /\ c # Genesis
  BY AncBasic, AncTrans
<1>2. PICK d \in Anc[a] \ {Genesis} : Prev[d] = Prev[c]
  BY <1>1, ChildExists
<1>3. d = c
  BY <1>1, <1>2, OneChild
<1> QED BY <1>2, <1>3

-----------------------------------------------------------------------------
(* hashNext.                                                                *)

\* DisconnectBlock leaves the links of the chain without its last block.
LEMMA DisconnectLinks ==
    ASSUME NEW next \in [Block -> Block \cup {NoBlock}], NEW b \in Block, b # Genesis,
           LinksOK(next, b)
    PROVE  LinksOK([next EXCEPT ![Prev[b]] = NoBlock], Prev[b])
<1> DEFINE n == [next EXCEPT ![Prev[b]] = NoBlock]
<1>1. /\ Prev[b] \in Block /\ Anc[b] = Anc[Prev[b]] \cup {b} /\ b \notin Anc[Prev[b]]
      /\ Anc[b] \subseteq Block
  BY Parent
<1>2. ASSUME NEW c \in Anc[Prev[b]] \ {Genesis} PROVE n[Prev[c]] = c
  <2>1. c \in Anc[b] /\ b \in Anc[b] /\ c # b
    BY <1>1
  <2>2. Prev[c] # Prev[b]
    BY <2>1, OneChild
  <2>3. Prev[c] \in Block
    BY <2>1, <1>1, Parent
  <2> QED BY <2>1, <2>2, <2>3 DEF LinksOK
<1>3. ASSUME NEW x \in Block, n[x] # NoBlock
      PROVE  n[x] \in Anc[Prev[b]] \ {Genesis} /\ Prev[n[x]] = x
  <2>1. x # Prev[b] /\ n[x] = next[x]
    BY <1>1, <1>3
  <2>2. next[x] \in Anc[b] \ {Genesis} /\ Prev[next[x]] = x
    BY <2>1, <1>3 DEF LinksOK
  <2> QED BY <2>1, <2>2, <1>1
<1> QED BY <1>2, <1>3 DEF LinksOK

\* ConnectBlock links its block behind the last one.
LEMMA ConnectLinks ==
    ASSUME NEW next \in [Block -> Block \cup {NoBlock}], NEW b \in Block, b # Genesis,
           LinksOK(next, Prev[b])
    PROVE  LinksOK([next EXCEPT ![b] = NoBlock, ![Prev[b]] = b], b)
<1> DEFINE n == [next EXCEPT ![b] = NoBlock, ![Prev[b]] = b]
<1>1. /\ Prev[b] \in Block /\ Anc[b] = Anc[Prev[b]] \cup {b} /\ b \notin Anc[Prev[b]]
      /\ Anc[b] \subseteq Block /\ Prev[b] # b
  BY Parent
<1>2. ASSUME NEW c \in Anc[b] \ {Genesis} PROVE n[Prev[c]] = c
  <2>1. CASE c = b
    BY <1>1, <2>1
  <2>2. CASE c \in Anc[Prev[b]]
    <3>1. c \in Anc[b] /\ b \in Anc[b] /\ c # b
      BY <1>1, <2>2
    <3>2. Prev[c] # Prev[b]
      BY <3>1, OneChild
    <3>3. Prev[c] \in Anc[Prev[b]]
      BY <1>1, <2>2, AncTrans
    <3>4. Prev[c] # b /\ Prev[c] \in Block
      BY <3>3, <1>1
    <3>5. next[Prev[c]] = c
      BY <2>2 DEF LinksOK
    <3> QED BY <3>2, <3>4, <3>5
  <2> QED BY <1>1, <2>1, <2>2
<1>3. ASSUME NEW x \in Block, n[x] # NoBlock
      PROVE  n[x] \in Anc[b] \ {Genesis} /\ Prev[n[x]] = x
  <2>1. CASE x = Prev[b]
    BY <1>1, <2>1
  <2>2. CASE x # Prev[b]
    <3>1. x # b /\ n[x] = next[x]
      BY <1>1, <1>3, <2>2
    <3>2. next[x] \in Anc[Prev[b]] \ {Genesis} /\ Prev[next[x]] = x
      BY <3>1, <1>3 DEF LinksOK
    <3> QED BY <3>1, <3>2, <1>1
  <2> QED BY <2>1, <2>2
<1> QED BY <1>2, <1>3 DEF LinksOK

\* The links of a chain are unique.
LEMMA LinksUnique ==
    ASSUME NEW m \in [Block -> Block \cup {NoBlock}], NEW n \in [Block -> Block \cup {NoBlock}],
           NEW b \in Block, LinksOK(m, b), LinksOK(n, b)
    PROVE  m = n
<1>1. ASSUME NEW x \in Block PROVE m[x] = n[x]
  <2>1. CASE m[x] # NoBlock
    BY <2>1 DEF LinksOK
  <2>2. CASE n[x] # NoBlock
    BY <2>2 DEF LinksOK
  <2> QED BY <2>1, <2>2
<1> QED BY <1>1

\* A block outside a chain has no link in it.
LEMMA OutsideUnlinked ==
    ASSUME NEW n \in [Block -> Block \cup {NoBlock}], NEW t \in Block, LinksOK(n, t),
           NEW b \in Block, b \notin Anc[t]
    PROVE  n[b] = NoBlock
<1> SUFFICES ASSUME n[b] # NoBlock PROVE FALSE
  OBVIOUS
<1>1. n[b] \in Anc[t] /\ n[b] # Genesis /\ Prev[n[b]] = b
  BY DEF LinksOK
<1>2. Prev[n[b]] \in Anc[t]
  BY <1>1, AncTrans
<1> QED BY <1>1, <1>2

-----------------------------------------------------------------------------
(* The transaction index.                                                   *)

\* The types of the parts of a view and of a transaction's inputs.
LEMMA OutTypes ==
    /\ \A o \in Out : o[1] \in Tx
    /\ \A b \in Block : TxsOf(b) \subseteq Tx /\ Spends(b) \subseteq Out
    /\ \A b \in Block : \A i \in DOMAIN Vtx[b] : /\ i \in Nat /\ Vtx[b][i] \in TxsOf(b)
                                                /\ TxIn[Vtx[b][i]] \subseteq Spends(b)
    /\ \A b \in Block : \A t \in TxsOf(b) : \E i \in DOMAIN Vtx[b] : Vtx[b][i] = t
    /\ \A b \in Block : \A o \in Spends(b) : \E i \in DOMAIN Vtx[b] : o \in TxIn[Vtx[b][i]]
<1>1. \A o \in Out : o[1] \in Tx
  BY DEF Out
<1>2. \A b \in Block : \A i \in DOMAIN Vtx[b] : i \in Nat /\ Vtx[b][i] \in Tx
  BY TxAssumption
<1>3. \A b \in Block : TxsOf(b) \subseteq Tx
  BY <1>2 DEF TxsOf
<1>4. \A t \in Tx : TxIn[t] \subseteq Out
  BY TxAssumption
<1>5. \A b \in Block : Spends(b) \subseteq Out
  BY <1>3, <1>4 DEF Spends
<1>6. \A b \in Block : \A i \in DOMAIN Vtx[b] : Vtx[b][i] \in TxsOf(b)
  BY DEF TxsOf
<1>7. \A b \in Block : \A i \in DOMAIN Vtx[b] : TxIn[Vtx[b][i]] \subseteq Spends(b)
  BY <1>6 DEF Spends
<1>8. \A b \in Block : \A t \in TxsOf(b) : \E i \in DOMAIN Vtx[b] : Vtx[b][i] = t
  BY DEF TxsOf
<1>9. \A b \in Block : \A o \in Spends(b) : \E i \in DOMAIN Vtx[b] : o \in TxIn[Vtx[b][i]]
  BY <1>8 DEF Spends
<1> QED BY <1>1, <1>2, <1>3, <1>5, <1>6, <1>7, <1>8, <1>9

\* In a valid chain what a block spends was created in that chain.
LEMMA CreatedInChain ==
    ASSUME NEW b \in Block, ChainValid(b), NEW c \in Anc[b], NEW o \in Spends(c)
    PROVE  \E q \in Anc[b] : o[1] \in TxsOf(q)
<1>1. c \in Block /\ Anc[c] \subseteq Anc[b] /\ c \in Anc[c]
  <2>1. c \in Block
    BY AncBasic
  <2> QED BY <2>1, AncBasic, AncTrans
<1>2. PICK i \in DOMAIN Vtx[c] : o \in TxIn[Vtx[c][i]]
  BY <1>1, OutTypes
<1>3. InBlockBefore(c, i, o[1]) \/ \E q \in Anc[c] \ {c} : o[1] \in TxsOf(q)
  BY <1>2 DEF ChainValid, InputsUnspentInChain
<1>4. CASE InBlockBefore(c, i, o[1])
  <2>1. PICK j \in 1..(i - 1) : Vtx[c][j] = o[1]
    BY <1>4 DEF InBlockBefore
  <2>2. j \in DOMAIN Vtx[c]
    BY <1>1, <1>2, <2>1, TxAssumption
  <2> QED BY <2>1, <2>2, <1>1, OutTypes
<1> QED BY <1>1, <1>3, <1>4

\* Disconnecting the last block of a valid chain gives the index of the chain
\* without it.
THEOREM DisconnectLedger ==
    ASSUME NEW v \in Views, NEW b \in Block, b # Genesis, LedgerOK(v, b), ChainValid(b)
    PROVE  LedgerOK(Disconnected(v, b), Prev[b])
<1> DEFINE w == Disconnected(v, b)
<1>1. /\ Prev[b] \in Block /\ Anc[b] = Anc[Prev[b]] \cup {b} /\ b \notin Anc[Prev[b]]
      /\ Anc[b] \subseteq Block /\ NoBlock \notin Block
  BY Parent, TreeAssumption
<1>2. /\ \A t \in Tx : w.txpos[t] = IF t \in TxsOf(b) THEN NoBlock ELSE v.txpos[t]
      /\ \A o \in Out : w.vSpent[o] = IF o \in Spends(b) \/ o[1] \in TxsOf(b)
                                      THEN NoBlock ELSE v.vSpent[o]
  BY DEF Disconnected, Views
<1>3. \A c \in Anc[Prev[b]] : \A t \in TxsOf(c) : t \notin TxsOf(b) /\ w.txpos[t] = c
  BY <1>1, <1>2, OutTypes DEF LedgerOK
<1>4. \A c \in Anc[Prev[b]] : \A o \in Spends(c) : o \notin Spends(b)
  BY <1>1 DEF LedgerOK
<1>5. ASSUME NEW c \in Anc[Prev[b]], NEW o \in Spends(c) PROVE o[1] \notin TxsOf(b)
  <2>1. ChainValid(Prev[b])
    BY <1>1 DEF ChainValid
  <2>2. PICK q \in Anc[Prev[b]] : o[1] \in TxsOf(q)
    BY <1>1, <2>1, CreatedInChain
  <2> QED BY <2>2, <1>3
<1>6. \A t \in Tx : w.txpos[t] # NoBlock => w.txpos[t] \in Anc[Prev[b]] /\ t \in TxsOf(w.txpos[t])
  BY <1>1, <1>2 DEF LedgerOK
<1>7. \A o \in Out : w.vSpent[o] # NoBlock =>
        w.vSpent[o] \in Anc[Prev[b]] /\ o \in Spends(w.vSpent[o])
  BY <1>1, <1>2 DEF LedgerOK
<1>8. \A c \in Anc[Prev[b]] : \A o \in Spends(c) : w.vSpent[o] = c
  BY <1>1, <1>2, <1>4, <1>5, OutTypes DEF LedgerOK
<1> HIDE DEF w
<1> QED BY <1>3, <1>6, <1>7, <1>8 DEF LedgerOK, w

\* A block that connects holds no transaction of the chain below it: the duplicate
\* in the lowest place of the block would be a coinbase, which names its height,
\* or spend an output that is already spent.
LEMMA NoDuplicates ==
    ASSUME NEW v \in Views, NEW b \in Block, b # Genesis,
           LedgerOK(v, Prev[b]), ChainValid(Prev[b]), CanConnect(v, b),
           NEW q \in Anc[Prev[b]], NEW t \in TxsOf(q)
    PROVE  t \notin TxsOf(b)
<1>1. /\ Prev[b] \in Block /\ Anc[b] = Anc[Prev[b]] \cup {b} /\ b \notin Anc[Prev[b]]
      /\ Anc[Prev[b]] \subseteq Block /\ NoBlock \notin Block
  BY Parent, TreeAssumption
<1> DEFINE D == { i \in DOMAIN Vtx[b] : \E c \in Anc[Prev[b]] : Vtx[b][i] \in TxsOf(c) }
<1> SUFFICES ASSUME t \in TxsOf(b) PROVE FALSE
  OBVIOUS
<1>2. D # {}
  BY OutTypes
<1>3. D \subseteq Nat
  BY OutTypes
<1>4. \E i \in D : \A j \in D : i <= j
  <2> HIDE DEF D
  <2> QED BY <1>2, <1>3, NatMin
<1>5. PICK i \in D : \A j \in D : i <= j
  BY <1>4
<1>6. PICK c \in Anc[Prev[b]] : Vtx[b][i] \in TxsOf(c)
  BY <1>5
<1> DEFINE u == Vtx[b][i]
<1>7. /\ i \in DOMAIN Vtx[b] /\ u \in TxsOf(b) /\ u \in Tx /\ c \in Block /\ c # b
      /\ c \in Anc[b] /\ TxIn[u] \subseteq Out
  BY <1>1, <1>5, <1>6, OutTypes
<1>8. TxIn[u] # {}
  BY <1>6, <1>7, TxAssumption DEF IsCoinBase
<1>9. PICK o \in TxIn[u] : TRUE
  BY <1>8
<1>10. o \in Spends(c)
  BY <1>6, <1>9 DEF Spends
<1>11. v.vSpent[o] = c
  BY <1>10 DEF LedgerOK
<1>12. InBlockBefore(b, i, o[1])
  BY <1>1, <1>7, <1>9, <1>11 DEF CanConnect, ConnectInputs, IsUnspent
<1>13. PICK j \in 1..(i - 1) : Vtx[b][j] = o[1]
  BY <1>12 DEF InBlockBefore
<1>14. j \in DOMAIN Vtx[b] /\ j < i /\ j \in Nat /\ i \in Nat
  BY <1>7, <1>13, TxAssumption
<1>15. PICK d \in Anc[Prev[b]] : o[1] \in TxsOf(d)
  BY <1>1, <1>10, CreatedInChain
<1>16. j \in D
  BY <1>13, <1>14, <1>15
<1>17. i <= j
  BY <1>5, <1>16
<1> QED BY <1>14, <1>17

\* What ConnectInputs found, for an input of a block that connects: it was created
\* in the chain, it is spent by no block of the chain and it is mature.
LEMMA ConnectedInput ==
    ASSUME NEW v \in Views, NEW b \in Block, b # Genesis,
           LedgerOK(v, Prev[b]), ChainValid(Prev[b]), CanConnect(v, b),
           NEW i \in DOMAIN Vtx[b], NEW o \in TxIn[Vtx[b][i]]
    PROVE  /\ InBlockBefore(b, i, o[1]) \/ \E q \in Anc[Prev[b]] : o[1] \in TxsOf(q)
           /\ ~SpentInBlockBefore(b, i, o)
           /\ \A q \in Anc[Prev[b]] : o \notin Spends(q)
           /\ IsGenerated(o[1]) => \A q \in Anc[b] : o[1] \in TxsOf(q) =>
                                     Height[b] - Height[q] >= CoinbaseMaturity
<1>1. /\ Prev[b] \in Block /\ Anc[b] = Anc[Prev[b]] \cup {b} /\ b \notin Anc[Prev[b]]
      /\ Anc[b] \subseteq Block /\ NoBlock \notin Block /\ o \in Out /\ o[1] \in Tx
  <2>1. o \in Out /\ o[1] \in Tx
    BY OutTypes
  <2> QED BY <2>1, Parent, TreeAssumption
<1>2. \A q \in Block : Height[q] \in Nat
  BY TreeAssumption
<1>3. CoinbaseMaturity \in Nat
  BY TxAssumption
<1>4. /\ ~SpentInBlockBefore(b, i, o)
      /\ IF InBlockBefore(b, i, o[1])
         THEN Matured(o[1], b, b)
         ELSE /\ ReadTxIndex(v, o[1]) /\ IsUnspent(v, o)
              /\ Matured(o[1], v.txpos[o[1]], b)
  BY DEF CanConnect, ConnectInputs
<1>5. CASE InBlockBefore(b, i, o[1])
  <2>1. PICK j \in 1..(i - 1) : Vtx[b][j] = o[1]
    BY <1>5 DEF InBlockBefore
  <2>2. j \in DOMAIN Vtx[b]
    BY <2>1, TxAssumption
  <2>3. o[1] \in TxsOf(b)
    BY <2>1, <2>2, OutTypes
  <2>4. \A q \in Anc[Prev[b]] : o[1] \notin TxsOf(q)
    BY <2>3, NoDuplicates
  <2>5. \A q \in Anc[Prev[b]] : o \notin Spends(q)
    BY <1>1, <2>4, CreatedInChain
  <2>6. IsGenerated(o[1]) => Height[b] - Height[b] >= CoinbaseMaturity
    BY <1>1, <1>2, <1>3, <1>4, <1>5 DEF Matured
  <2>7. IsGenerated(o[1]) => \A q \in Anc[b] : o[1] \in TxsOf(q) =>
                               Height[b] - Height[q] >= CoinbaseMaturity
    BY <1>1, <2>4, <2>6
  <2> QED BY <1>4, <1>5, <2>5, <2>7
<1>6. CASE ~InBlockBefore(b, i, o[1])
  <2> DEFINE pos == v.txpos[o[1]]
  <2>1. pos \in Anc[Prev[b]] /\ o[1] \in TxsOf(pos)
    BY <1>1, <1>4, <1>6 DEF ReadTxIndex, LedgerOK
  <2>2. \A q \in Anc[Prev[b]] : o \notin Spends(q)
    BY <1>1, <1>4, <1>6 DEF IsUnspent, LedgerOK
  <2>3. o[1] \notin TxsOf(b)
    BY <2>1, NoDuplicates
  <2>4. \A q \in Anc[b] : o[1] \in TxsOf(q) => q = pos
    BY <1>1, <2>3 DEF LedgerOK
  <2>5. IsGenerated(o[1]) => ~(Height[b] - Height[pos] < CoinbaseMaturity)
    BY <1>1, <1>4, <1>6, <2>1 DEF Matured
  <2>6. IsGenerated(o[1]) => Height[b] - Height[pos] >= CoinbaseMaturity
    BY <1>1, <1>2, <1>3, <2>1, <2>5
  <2>7. IsGenerated(o[1]) => \A q \in Anc[b] : o[1] \in TxsOf(q) =>
                               Height[b] - Height[q] >= CoinbaseMaturity
    BY <2>4, <2>6
  <2> QED BY <1>4, <2>1, <2>2, <2>7
<1> QED BY <1>5, <1>6

\* A block that connects extends a valid chain to a valid chain.
THEOREM ConnectValid ==
    ASSUME NEW v \in Views, NEW b \in Block, b # Genesis,
           LedgerOK(v, Prev[b]), ChainValid(Prev[b]), CanConnect(v, b)
    PROVE  ChainValid(b)
<1>1. Anc[b] = Anc[Prev[b]] \cup {b} /\ b \notin Anc[Prev[b]]
  BY Parent
<1>2. InputsUnspentInChain(b)
  BY <1>1, ConnectedInput DEF InputsUnspentInChain
<1>3. InputsMature(b)
  <2> SUFFICES ASSUME NEW o \in Spends(b), IsGenerated(o[1]),
                      NEW q \in Anc[b], o[1] \in TxsOf(q)
               PROVE  Height[b] - Height[q] >= CoinbaseMaturity
    BY DEF InputsMature
  <2>1. PICK i \in DOMAIN Vtx[b] : o \in TxIn[Vtx[b][i]]
    BY OutTypes
  <2> QED BY <2>1, ConnectedInput
<1> QED BY <1>1, <1>2, <1>3 DEF ChainValid

\* Connecting a block on top of a valid chain gives the index of the longer chain.
THEOREM ConnectLedger ==
    ASSUME NEW v \in Views, NEW b \in Block, b # Genesis, NEW pnext,
           LedgerOK(v, Prev[b]), ChainValid(Prev[b]), CanConnect(v, b)
    PROVE  LedgerOK(Connected(v, b, pnext), b)
<1> DEFINE w == Connected(v, b, pnext)
<1>1. /\ Prev[b] \in Block /\ Anc[b] = Anc[Prev[b]] \cup {b} /\ b \notin Anc[Prev[b]]
      /\ Anc[b] \subseteq Block /\ NoBlock \notin Block
  BY Parent, TreeAssumption
<1>2. /\ \A t \in Tx : w.txpos[t] = IF t \in TxsOf(b) THEN b ELSE v.txpos[t]
      /\ \A o \in Out : w.vSpent[o] = IF o \in Spends(b) THEN b
                                      ELSE IF o[1] \in TxsOf(b) THEN NoBlock ELSE v.vSpent[o]
  BY DEF Connected, Views
<1>3. ASSUME NEW c \in Anc[b], NEW t \in TxsOf(c) PROVE w.txpos[t] = c
  <2>1. t \in Tx
    BY <1>1, OutTypes
  <2>2. CASE c = b
    BY <1>2, <2>1, <2>2
  <2>3. CASE c \in Anc[Prev[b]]
    <3>1. t \notin TxsOf(b)
      BY <2>3, NoDuplicates
    <3> QED BY <1>2, <2>1, <2>3, <3>1 DEF LedgerOK
  <2> QED BY <1>1, <2>2, <2>3
<1>4. ASSUME NEW c \in Anc[b], NEW o \in Spends(c) PROVE w.vSpent[o] = c
  <2>1. o \in Out
    BY <1>1, OutTypes
  <2>2. CASE c = b
    BY <1>2, <2>1, <2>2
  <2>3. CASE c \in Anc[Prev[b]]
    <3>1. o \notin Spends(b)
      <4> SUFFICES ASSUME o \in Spends(b) PROVE FALSE
        OBVIOUS
      <4>1. PICK i \in DOMAIN Vtx[b] : o \in TxIn[Vtx[b][i]]
        BY OutTypes
      <4> QED BY <4>1, <2>3, ConnectedInput
    <3>2. PICK q \in Anc[Prev[b]] : o[1] \in TxsOf(q)
      BY <1>1, <2>3, CreatedInChain
    <3>3. o[1] \notin TxsOf(b)
      BY <3>2, NoDuplicates
    <3> QED BY <1>2, <2>1, <2>3, <3>1, <3>3 DEF LedgerOK
  <2> QED BY <1>1, <2>2, <2>3
<1>5. \A t \in Tx : w.txpos[t] # NoBlock => w.txpos[t] \in Anc[b] /\ t \in TxsOf(w.txpos[t])
  BY <1>1, <1>2 DEF LedgerOK
<1>6. \A o \in Out : w.vSpent[o] # NoBlock => w.vSpent[o] \in Anc[b] /\ o \in Spends(w.vSpent[o])
  BY <1>1, <1>2 DEF LedgerOK
<1> HIDE DEF w
<1> QED BY <1>3, <1>4, <1>5, <1>6 DEF LedgerOK, w

-----------------------------------------------------------------------------
(* Views.                                                                   *)

\* The operations on a view give a view.
LEMMA ViewTypes ==
    ASSUME NEW v \in Views, NEW b \in Block
    PROVE  /\ WithNewBlock(v, b) \in Views
           /\ WithBest(v, b) \in Views
           /\ b # Genesis => Disconnected(v, b) \in Views
           /\ \A n \in [Block -> Block \cup {NoBlock}] :
                b # Genesis => Connected(v, b, n) \in Views
<1>1. WithNewBlock(v, b) \in Views
  BY DEF WithNewBlock, Views
<1>2. WithBest(v, b) \in Views
  BY DEF WithBest, Views
<1>3. ASSUME b # Genesis PROVE Disconnected(v, b) \in Views
  <2>1. [v.next EXCEPT ![Prev[b]] = NoBlock] \in [Block -> Block \cup {NoBlock}]
    BY DEF Views
  <2> QED BY <2>1 DEF Disconnected, Views
<1>4. ASSUME NEW n \in [Block -> Block \cup {NoBlock}], b # Genesis
      PROVE  Connected(v, b, n) \in Views
  <2>1. [v.next EXCEPT ![b] = n[b], ![Prev[b]] = b] \in [Block -> Block \cup {NoBlock}]
    BY DEF Views
  <2> QED BY <2>1 DEF Connected, Views
<1> QED BY <1>1, <1>2, <1>3, <1>4

\* The database of a new node is a view.
LEMMA GenesisViewType == GenesisView \in Views
  BY TreeAssumption DEF GenesisView, Views

\* The database of a new node describes the chain of the genesis block.
LEMMA DescribesGenesis == Describes(GenesisView, Genesis)
<1>1. Genesis \in Block /\ Anc[Genesis] = {Genesis} /\ Vtx[Genesis] = << >>
  BY TreeAssumption, TxAssumption
<1>2. TxsOf(Genesis) = {} /\ Spends(Genesis) = {}
  BY <1>1 DEF TxsOf, Spends
<1>3. LedgerOK(GenesisView, Genesis)
  BY <1>1, <1>2 DEF LedgerOK, GenesisView
<1>4. LinksOK(GenesisView.next, Genesis)
  BY <1>1 DEF LinksOK, GenesisView
<1>5. ChainValid(Genesis)
  BY <1>1, <1>2 DEF ChainValid, InputsUnspentInChain, InputsMature
<1> QED BY <1>1, <1>3, <1>4, <1>5 DEF Describes, GenesisView

-----------------------------------------------------------------------------
(* What the operations on a view do to Describes.                           *)

\* WriteHashBestChain changes nothing of what a view describes.
LEMMA DescribesBest ==
    ASSUME NEW v \in Views, NEW t \in Block, NEW b \in Block, Describes(v, t)
    PROVE  Describes(WithBest(v, b), t)
<1> DEFINE w == WithBest(v, b)
<1>1. w.txpos = v.txpos /\ w.vSpent = v.vSpent /\ w.next = v.next /\ w.blocks = v.blocks
  BY DEF WithBest, Views
<1> HIDE DEF w
<1>2. LedgerOK(w, t)
  BY <1>1 DEF Describes, LedgerOK
<1> QED BY <1>1, <1>2 DEF Describes, w

\* A block that is not stored is not in the chain, so that its index record changes
\* no link of the chain.
LEMMA DescribesNew ==
    ASSUME NEW v \in Views, NEW t \in Block, NEW b \in Block, b \notin v.blocks, Describes(v, t)
    PROVE  Describes(WithNewBlock(v, b), t) /\ WithNewBlock(v, b).next = v.next
<1> DEFINE w == WithNewBlock(v, b)
<1>1. /\ w.txpos = v.txpos /\ w.vSpent = v.vSpent /\ w.blocks = v.blocks \cup {b}
      /\ w.next = [v.next EXCEPT ![b] = NoBlock]
  BY DEF WithNewBlock, Views
<1>2. v.next[b] = NoBlock
  BY OutsideUnlinked DEF Describes, Views
<1>3. w.next = v.next
  BY <1>1, <1>2 DEF Views
<1> HIDE DEF w
<1>4. LedgerOK(w, t)
  BY <1>1 DEF Describes, LedgerOK
<1> QED BY <1>1, <1>3, <1>4 DEF Describes, w

\* DisconnectBlock takes a view from a chain to the chain without its last block.
LEMMA DescribesDisconnect ==
    ASSUME NEW v \in Views, NEW b \in Block, b # Genesis, Describes(v, b)
    PROVE  Describes(Disconnected(v, b), Prev[b])
<1> DEFINE w == Disconnected(v, b)
<1>1. w.blocks = v.blocks /\ w.next = [v.next EXCEPT ![Prev[b]] = NoBlock]
  BY DEF Disconnected, Views
<1>2. LedgerOK(w, Prev[b])
  BY DisconnectLedger DEF Describes
<1>3. LinksOK(w.next, Prev[b])
  BY <1>1, DisconnectLinks DEF Describes, Views
<1>4. Anc[Prev[b]] \subseteq Anc[b]
  BY Parent
<1> HIDE DEF w
<1> QED BY <1>1, <1>2, <1>3, <1>4 DEF Describes, ChainValid, w

\* ConnectBlock takes a view from a chain to the chain with one block more.
LEMMA DescribesConnect ==
    ASSUME NEW v \in Views, NEW b \in Block, b # Genesis, Describes(v, Prev[b]),
           b \in v.blocks, CanConnect(v, b),
           NEW n \in [Block -> Block \cup {NoBlock}], n[b] = NoBlock
    PROVE  Describes(Connected(v, b, n), b)
<1> DEFINE w == Connected(v, b, n)
<1>1. w.blocks = v.blocks /\ w.next = [v.next EXCEPT ![b] = NoBlock, ![Prev[b]] = b]
  BY DEF Connected, Views
<1>2. LedgerOK(w, b)
  BY ConnectLedger DEF Describes
<1>3. LinksOK(w.next, b)
  BY <1>1, ConnectLinks DEF Describes, Views
<1>4. Anc[b] \subseteq w.blocks
  BY <1>1, Parent DEF Describes
<1>5. ChainValid(b)
  BY ConnectValid DEF Describes
<1> HIDE DEF w
<1> QED BY <1>2, <1>3, <1>4, <1>5 DEF Describes, w

\* ConnectBlock refuses no valid block: on top of the chain that the database
\* describes, a block whose chain is valid passes the duplicate check and finds
\* every input indexed, unspent and mature.
THEOREM ConnectComplete ==
    ASSUME NEW v \in Views, NEW b \in Block, b # Genesis, Describes(v, Prev[b]),
           ChainValid(b), Fails[b] \notin {"check", "connect"}
    PROVE  CanConnect(v, b)
<1>1. /\ Prev[b] \in Block /\ Anc[b] = Anc[Prev[b]] \cup {b} /\ b \notin Anc[Prev[b]]
      /\ Anc[b] \subseteq Block /\ NoBlock \notin Block /\ b \in Anc[b]
  BY Parent, TreeAssumption
<1>2. LedgerOK(v, Prev[b]) /\ Anc[Prev[b]] \subseteq v.blocks
  BY DEF Describes
<1>3. InputsUnspentInChain(b) /\ InputsMature(b)
  BY <1>1 DEF ChainValid
<1>4. (\A q \in Block : Height[q] \in Nat) /\ CoinbaseMaturity \in Nat
  BY TreeAssumption, TxAssumption
<1>5. ASSUME NEW i \in DOMAIN Vtx[b] PROVE CheckBIP30Attack(v, Vtx[b][i])
  <2> DEFINE t == Vtx[b][i]
  <2>1. t \in Tx /\ t \in TxsOf(b) /\ TxIn[t] \subseteq Spends(b)
    BY OutTypes
  <2> SUFFICES ASSUME ReadTxIndex(v, t) PROVE FALSE
    BY DEF CheckBIP30Attack
  <2> HIDE DEF t
  <2>2. PICK q \in Anc[Prev[b]] : t \in TxsOf(q)
    BY <1>2, <2>1 DEF ReadTxIndex, LedgerOK
  <2>3. q \in Block /\ q # b /\ q \in Anc[b]
    BY <1>1, <2>2
  <2>4. ~IsCoinBase(t)
    BY <2>1, <2>2, <2>3, TxAssumption
  <2>5. PICK o \in TxIn[t] : TRUE
    BY <2>4 DEF IsCoinBase
  <2>6. o \in Spends(q)
    BY <2>2, <2>5 DEF Spends
  <2>7. o \notin Spends(q)
    BY <1>3, <2>3, <2>5 DEF InputsUnspentInChain, t
  <2> QED BY <2>6, <2>7
<1>6. ASSUME NEW i \in DOMAIN Vtx[b] PROVE ConnectInputs(v, b, i)
  <2> SUFFICES ASSUME NEW o \in TxIn[Vtx[b][i]]
               PROVE  /\ ~SpentInBlockBefore(b, i, o)
                      /\ IF InBlockBefore(b, i, o[1])
                         THEN Matured(o[1], b, b)
                         ELSE /\ ReadTxIndex(v, o[1]) /\ v.txpos[o[1]] \in v.blocks
                              /\ IsUnspent(v, o) /\ Matured(o[1], v.txpos[o[1]], b)
    BY DEF ConnectInputs
  <2>1. o \in Spends(b) /\ o \in Out /\ o[1] \in Tx
    BY OutTypes
  <2>2. /\ InBlockBefore(b, i, o[1]) \/ \E q \in Anc[b] \ {b} : o[1] \in TxsOf(q)
        /\ ~SpentInBlockBefore(b, i, o)
        /\ \A q \in Anc[b] \ {b} : o \notin Spends(q)
    BY <1>3 DEF InputsUnspentInChain
  <2>3. \A q \in Anc[b] : IsGenerated(o[1]) /\ o[1] \in TxsOf(q) =>
                            Height[b] - Height[q] >= CoinbaseMaturity
    BY <1>3, <2>1 DEF InputsMature
  <2>4. \A q \in Anc[b] : o[1] \in TxsOf(q) => Matured(o[1], q, b)
    <3> SUFFICES ASSUME NEW q \in Anc[b], o[1] \in TxsOf(q), IsGenerated(o[1]),
                        Height[b] - Height[q] < CoinbaseMaturity
                 PROVE  FALSE
      BY DEF Matured
    <3>1. Height[b] - Height[q] >= CoinbaseMaturity
      BY <2>3
    <3>2. Height[b] \in Nat /\ Height[q] \in Nat
      BY <1>1, <1>4
    <3> QED BY <1>4, <3>1, <3>2
  <2>5. CASE InBlockBefore(b, i, o[1])
    <3>1. PICK j \in 1..(i - 1) : Vtx[b][j] = o[1]
      BY <2>5 DEF InBlockBefore
    <3>2. j \in DOMAIN Vtx[b]
      BY <3>1, TxAssumption
    <3>3. o[1] \in TxsOf(b)
      BY <3>1, <3>2, OutTypes
    <3> QED BY <1>1, <2>2, <2>4, <2>5, <3>3
  <2>6. CASE ~InBlockBefore(b, i, o[1])
    <3>1. PICK q \in Anc[Prev[b]] : o[1] \in TxsOf(q)
      BY <1>1, <2>2, <2>6
    <3>2. v.txpos[o[1]] = q
      BY <1>2, <3>1 DEF LedgerOK
    <3>3. ReadTxIndex(v, o[1]) /\ v.txpos[o[1]] \in v.blocks
      BY <1>1, <1>2, <3>1, <3>2 DEF ReadTxIndex
    <3>4. IsUnspent(v, o)
      BY <1>1, <1>2, <2>1, <2>2 DEF IsUnspent, LedgerOK
    <3> QED BY <1>1, <2>2, <2>4, <2>6, <3>1, <3>2, <3>3, <3>4
  <2> QED BY <2>5, <2>6
<1> QED BY <1>5, <1>6 DEF CanConnect

-----------------------------------------------------------------------------
(* VerifyInputsUnspent.                                                     *)

\* The walk of GetBlocksUpToCommonAncestorInMainChain ends.
LEMMA CommonAncestorExists ==
    ASSUME NEW next, NEW best, IsInMainChain(next, best, Genesis), NEW x \in Block
    PROVE  \E a \in Anc[x] : /\ IsInMainChain(next, best, a)
                             /\ \A c \in Anc[x] \ Anc[a] : ~IsInMainChain(next, best, c)
<1> DEFINE Main(c) == IsInMainChain(next, best, c)
           Ends(y) == \E a \in Anc[y] : Main(a) /\ \A c \in Anc[y] \ Anc[a] : ~Main(c)
           S == { y \in Block : ~Ends(y) }
<1>1. Main(Genesis)
  OBVIOUS
<1> HIDE DEF Main
<1>2. S = {}
  <2> SUFFICES ASSUME S # {} PROVE FALSE
    OBVIOUS
  <2>1. Genesis \notin S
    BY <1>1, TreeAssumption
  <2>2. S \subseteq Block
    OBVIOUS
  <2>3. \E y \in S : y # Genesis /\ Prev[y] \in Block \ S
    <3> HIDE DEF S
    <3> QED BY <2>1, <2>2, LowestBlock
  <2>4. PICK y \in S : y # Genesis /\ Prev[y] \in Block \ S
    BY <2>3
  <2>5. Anc[y] = Anc[Prev[y]] \cup {y} /\ y \in Anc[y]
    BY <2>4, Parent
  <2>6. ~Main(y)
    BY <2>4, <2>5
  <2>7. PICK a \in Anc[Prev[y]] : Main(a) /\ \A c \in Anc[Prev[y]] \ Anc[a] : ~Main(c)
    BY <2>4
  <2> QED BY <2>4, <2>5, <2>6, <2>7
<1> QED BY <1>2 DEF Main

\* VerifyInputsUnspent reads the fork from the database, so the parent of a block
\* that passes is stored, when the main chain is.
LEMMA VerifiedParentStored ==
    ASSUME NEW v, NEW index, NEW next, NEW best, NEW b \in Block \ {Genesis},
           IsInMainChain(next, best, Genesis),
           \A c \in Block : IsInMainChain(next, best, c) => Anc[c] \subseteq v.blocks,
           VerifyInputsUnspent(v, index, next, best, b)
    PROVE  Prev[b] \in v.blocks
<1> DEFINE a == CommonAncestor(next, best, b)
<1>1. Prev[b] \in Block /\ Prev[b] \in Anc[Prev[b]] /\ Anc[Prev[b]] \subseteq Block
  BY Parent, AncBasic
<1>2. a \in Anc[Prev[b]] /\ IsInMainChain(next, best, a)
  BY <1>1, CommonAncestorExists DEF CommonAncestor
<1>3. Anc[Prev[b]] \ Anc[a] \subseteq v.blocks
  BY DEF VerifyInputsUnspent, InFork
<1> HIDE DEF a
<1> QED BY <1>1, <1>2, <1>3

\* IsInMainChain, from pointers that link the chain of t, finds only blocks of that
\* chain, and the genesis block among them.
LEMMA MainChainOfLinks ==
    ASSUME NEW t \in Block, NEW next \in [Block -> Block \cup {NoBlock}], LinksOK(next, t)
    PROVE  /\ IsInMainChain(next, t, Genesis)
           /\ \A c \in Block : IsInMainChain(next, t, c) => c \in Anc[t]
<1>1. Genesis \in Block /\ NoBlock \notin Block /\ Genesis \in Anc[t] /\ t \in Anc[t]
      /\ Anc[t] \subseteq Block
  BY TreeAssumption, AncBasic
<1>2. IsInMainChain(next, t, Genesis)
  <2>1. CASE t = Genesis
    BY <2>1 DEF IsInMainChain
  <2>2. CASE t # Genesis
    <3>1. PICK c \in Anc[t] \ {Genesis} : Prev[c] = Genesis
      BY <1>1, <2>2, ChildExists
    <3>2. next[Genesis] = c
      BY <3>1 DEF LinksOK
    <3> QED BY <1>1, <3>1, <3>2 DEF IsInMainChain
  <2> QED BY <2>1, <2>2
<1>3. ASSUME NEW c \in Block, IsInMainChain(next, t, c) PROVE c \in Anc[t]
  BY <1>1, <1>3, OutsideUnlinked DEF IsInMainChain
<1> QED BY <1>2, <1>3

\* A transaction that is in two blocks of a chain that spends nothing twice has no
\* inputs.
LEMMA OnlyCoinBaseTwice ==
    ASSUME NEW S, SpendsOnce(S), NEW x \in S, NEW c \in Anc[x], NEW d \in Anc[x], c # d,
           NEW t \in TxsOf(c) \cap TxsOf(d)
    PROVE  IsCoinBase(t)
<1>1. TxIn[t] \subseteq Spends(c) /\ TxIn[t] \subseteq Spends(d)
  BY DEF Spends
<1>2. Spends(c) \cap Spends(d) = {}
  BY DEF SpendsOnce
<1> QED BY <1>1, <1>2 DEF IsCoinBase

\* What VerifyInputsUnspent is for: a block that passes spends no output that its own
\* chain has spent, on whatever fork it is, when the database describes the main
\* chain and the stored forks spend nothing twice.
THEOREM VerifyExcludesSpent ==
    ASSUME NEW v \in Views, NEW index, NEW t \in Block, Describes(v, t),
           NEW b \in Block \ {Genesis}, SpendsOnce(v.blocks),
           VerifyInputsUnspent(v, index, v.next, t, b)
    PROVE  \A d \in Anc[Prev[b]] : Spends(b) \cap Spends(d) = {}
<1> DEFINE p == Prev[b]
           a == CommonAncestor(v.next, t, b)
           fork == InFork(v.next, t, b)
<1>1. /\ p \in Block /\ p \in Anc[p] /\ Anc[p] \subseteq Block /\ Anc[b] = Anc[p] \cup {b}
      /\ b \notin Anc[p]
  BY Parent, AncBasic, TreeAssumption
<1>2. v.next \in [Block -> Block \cup {NoBlock}] /\ LinksOK(v.next, t) /\ LedgerOK(v, t)
      /\ ChainValid(t) /\ Anc[t] \subseteq v.blocks /\ Anc[t] \subseteq Block /\ NoBlock \notin Block
  BY AncBasic, TreeAssumption DEF Views, Describes
<1>3. a \in Anc[p] /\ IsInMainChain(v.next, t, a)
  BY <1>1, <1>2, MainChainOfLinks, CommonAncestorExists DEF CommonAncestor
<1>4. a \in Anc[t] /\ a \in Block /\ Anc[a] \subseteq Anc[t] /\ Anc[a] \subseteq Anc[p]
  BY <1>1, <1>2, <1>3, MainChainOfLinks, AncTrans
<1>5. fork = Anc[p] \ Anc[a] /\ fork \subseteq v.blocks
  BY DEF InFork, VerifyInputsUnspent
<1> HIDE DEF a
\* Nothing that the fork spends is spent again.
<1>6. ASSUME NEW o \in Spends(b), NEW c \in fork, o \in Spends(c) PROVE FALSE
  <2>1. o \in Respends(v.next, t, b)
    BY <1>6 DEF Respends
  <2>2. o[1] \in ModifiedTxs(v, v.next, t, b)
    BY <2>1 DEF ModifiedTxs
  <2>3. PICK i \in DOMAIN Vtx[b] : o \in TxIn[Vtx[b][i]]
    BY <1>6, OutTypes
  <2>4. ModifiedUnspent(v, v.next, t, b, o)
    BY <2>2, <2>3 DEF VerifyInputsUnspent
  <2> QED BY <2>1, <2>4 DEF ModifiedUnspent
\* Nor what the chain below the fork spends: its spent marks are in the database.
<1> DEFINE Spent(o) == \E c \in Anc[a] : o \in Spends(c)
<1>7. ASSUME NEW o \in Out, Spent(o)
      PROVE  /\ ReadTxIndex(v, o[1]) /\ ~IsUnspent(v, o)
             /\ o \notin Unspends(v, v.next, t, b)
             /\ \E q \in Anc[a] : o[1] \in TxsOf(q)
  <2>1. PICK c \in Anc[a] : o \in Spends(c)
    BY <1>7
  <2>2. c \in Anc[t] /\ c \in Block /\ v.vSpent[o] = c
    BY <1>2, <1>4, <2>1 DEF LedgerOK
  <2>3. ChainValid(a)
    BY <1>2, <1>4 DEF ChainValid
  <2>4. PICK q \in Anc[a] : o[1] \in TxsOf(q)
    BY <1>4, <2>1, <2>3, CreatedInChain
  <2>5. v.txpos[o[1]] = q /\ q \in Block
    BY <1>2, <1>4, <2>4 DEF LedgerOK
  <2>6. Height[c] <= Height[a]
    BY <1>4, <2>1, <2>2, Monotone, TreeAssumption
  <2>7. Height[c] \in Nat /\ Height[a] \in Nat
    BY <1>4, <2>2, TreeAssumption
  <2>8. o \notin Unspends(v, v.next, t, b)
    BY <2>2, <2>6, <2>7 DEF Unspends, a
  <2> QED BY <1>2, <2>2, <2>4, <2>5, <2>8 DEF ReadTxIndex, IsUnspent
<1> DEFINE Bad == { i \in DOMAIN Vtx[b] : \E o \in TxIn[Vtx[b][i]] : Spent(o) }
<1>8. Bad = {}
  <2> SUFFICES ASSUME Bad # {} PROVE FALSE
    OBVIOUS
  <2>1. Bad \subseteq Nat
    BY OutTypes
  <2>2. PICK i \in Bad : \A j \in Bad : i <= j
    <3> HIDE DEF Bad
    <3> QED BY <2>1, NatMin
  <2>3. PICK o \in TxIn[Vtx[b][i]] : Spent(o)
    OBVIOUS
  <2>4. i \in DOMAIN Vtx[b] /\ i \in Nat /\ o \in Out
    BY <2>1, <2>3, OutTypes
  <2> HIDE DEF Spent
  <2>5. /\ ReadTxIndex(v, o[1]) /\ ~IsUnspent(v, o) /\ o \notin Unspends(v, v.next, t, b)
        /\ \E q \in Anc[a] : o[1] \in TxsOf(q)
    BY <1>7, <2>3, <2>4
  <2>6. PICK q \in Anc[a] : o[1] \in TxsOf(q)
    BY <2>5
  <2>7. CASE o[1] \in ModifiedTxs(v, v.next, t, b)
    <3>1. ModifiedUnspent(v, v.next, t, b, o)
      BY <2>3, <2>4, <2>7 DEF VerifyInputsUnspent
    <3>2. PICK c \in fork : o[1] \in TxsOf(c) /\ ~IsCoinBase(o[1])
      BY <2>5, <3>1 DEF ModifiedUnspent, TxsOf
    <3>3. c \in v.blocks /\ c \in Anc[p] /\ c \notin Anc[a] /\ c \in Block /\ c \in Anc[c]
      BY <1>1, <1>5, <3>2, AncBasic
    <3>4. q \in Anc[c]
      BY <1>1, <1>3, <1>4, <2>6, <3>3, Comparable, AncTrans
    <3> QED BY <2>6, <3>2, <3>3, <3>4, OnlyCoinBaseTwice
  <2>8. CASE o[1] \notin ModifiedTxs(v, v.next, t, b)
    <3>1. PICK j \in 1..(i - 1) : Vtx[b][j] = o[1]
      BY <2>3, <2>4, <2>5, <2>8 DEF VerifyInputsUnspent
    <3>2. j \in DOMAIN Vtx[b] /\ j \in Nat /\ j < i
      BY <2>4, <3>1, TxAssumption
    <3>3. q \in Block /\ q \in Anc[b] /\ q # b /\ o[1] \in TxsOf(b)
      BY <1>1, <1>4, <2>6, <3>1, <3>2, OutTypes
    <3>4. ~IsCoinBase(o[1])
      BY <2>6, <3>3, TxAssumption
    <3>5. PICK u \in TxIn[o[1]] : TRUE
      BY <3>4 DEF IsCoinBase
    <3>6. u \in Spends(q)
      BY <2>6, <3>5 DEF Spends
    <3>7. j \in Bad
      BY <2>6, <3>1, <3>2, <3>5, <3>6 DEF Spent
    <3> QED BY <2>2, <2>4, <3>2, <3>7
  <2> QED BY <2>7, <2>8
<1>9. ASSUME NEW d \in Anc[p], NEW o \in Spends(b), o \in Spends(d) PROVE FALSE
  <2>1. CASE d \in fork
    BY <1>6, <1>9, <2>1
  <2>2. CASE d \in Anc[a]
    <3>1. PICK i \in DOMAIN Vtx[b] : o \in TxIn[Vtx[b][i]]
      BY <1>9, OutTypes
    <3> QED BY <1>8, <1>9, <2>2, <3>1
  <2> QED BY <1>5, <1>9, <2>1, <2>2
<1> QED BY <1>9

-----------------------------------------------------------------------------
(* The memory pool.                                                        *)

\* The operations on a pool give a pool.
LEMMA PoolTypes ==
    ASSUME NEW p \in Pools
    PROVE  /\ EmptyPool \in Pools
           /\ \A t \in Tx : addUnchecked(p, t) \in Pools
           /\ \A S : removeAll(p, S) \in Pools
  BY DEF Pools, EmptyPool, addUnchecked, removeAll

\* addUnchecked keeps the two maps in step when no input is claimed already, which
\* AcceptToMemoryPool has checked.
LEMMA AddConsistent ==
    ASSUME NEW p \in Pools, NEW t \in Tx, PoolConsistent(p),
           \A o \in TxIn[t] : p.mapNextTx[o] = NoTx
    PROVE  PoolConsistent(addUnchecked(p, t))
<1> DEFINE q == addUnchecked(p, t)
<1>1. /\ q.mapTx = p.mapTx \cup {t}
      /\ \A o \in Out : q.mapNextTx[o] = IF o \in TxIn[t] THEN t ELSE p.mapNextTx[o]
  BY DEF addUnchecked
<1> HIDE DEF q
<1>2. ASSUME NEW o \in Out, NEW u \in Tx
      PROVE  q.mapNextTx[o] = u <=> u \in q.mapTx /\ o \in TxIn[u]
  BY <1>1, NoTxAssumption DEF PoolConsistent
<1> QED BY <1>2 DEF PoolConsistent, q

\* remove keeps them in step: what it takes out of mapNextTx is what it takes out
\* of mapTx, because no two transactions of the pool claim the same output.
LEMMA RemoveConsistent ==
    ASSUME NEW p \in Pools, NEW S, PoolConsistent(p)
    PROVE  PoolConsistent(removeAll(p, S))
<1> DEFINE q == removeAll(p, S)
           Gone(o) == \E u \in S \cap p.mapTx : o \in TxIn[u]
<1>1. /\ q.mapTx = p.mapTx \ S
      /\ \A o \in Out : q.mapNextTx[o] = IF Gone(o) THEN NoTx ELSE p.mapNextTx[o]
  BY DEF removeAll
<1> HIDE DEF q
<1>2. p.mapTx \subseteq Tx
  BY DEF Pools
<1>3. ASSUME NEW o \in Out, NEW t \in Tx
      PROVE  q.mapNextTx[o] = t <=> t \in q.mapTx /\ o \in TxIn[t]
  <2>1. CASE Gone(o)
    <3>1. PICK u \in S \cap p.mapTx : o \in TxIn[u]
      BY <2>1
    <3>2. p.mapNextTx[o] = u
      BY <1>2, <3>1 DEF PoolConsistent
    <3>3. q.mapNextTx[o] = NoTx /\ t # NoTx
      BY <1>1, <2>1, NoTxAssumption
    <3> QED BY <1>1, <3>1, <3>2, <3>3 DEF PoolConsistent
  <2>2. CASE ~Gone(o)
    <3>1. q.mapNextTx[o] = p.mapNextTx[o]
      BY <1>1, <2>2
    <3> QED BY <1>1, <2>2, <3>1 DEF PoolConsistent
  <2> QED BY <2>1, <2>2
<1> QED BY <1>3 DEF PoolConsistent, q

\* The start: both maps are empty.
LEMMA EmptyConsistent == PoolConsistent(EmptyPool)
  BY NoTxAssumption DEF PoolConsistent, EmptyPool

\* A transaction that passes AcceptToMemoryPool on the committed data enters a
\* consistent pool and is not confirmed.
LEMMA AcceptedPool ==
    ASSUME NEW p \in Pools, NEW v, NEW best, NEW t \in Tx, PoolConsistent(p),
           \A u \in p.mapTx : ~ReadTxIndex(v, u)
    PROVE  /\ PoolConsistent(Accepted(p, v, best, t))
           /\ \A u \in Accepted(p, v, best, t).mapTx : ~ReadTxIndex(v, u)
<1>1. CASE AcceptToMemoryPool(p, v, best, t)
  <2>1. PoolConsistent(addUnchecked(p, t))
    BY <1>1, AddConsistent DEF AcceptToMemoryPool
  <2>2. addUnchecked(p, t).mapTx = p.mapTx \cup {t} /\ ~ReadTxIndex(v, t)
    BY <1>1 DEF addUnchecked, AcceptToMemoryPool
  <2> QED BY <1>1, <2>1, <2>2 DEF Accepted
<1>2. CASE ~AcceptToMemoryPool(p, v, best, t)
  BY <1>2 DEF Accepted
<1> QED BY <1>1, <1>2

=============================================================================
