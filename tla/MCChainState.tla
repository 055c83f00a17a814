---------------------------- MODULE MCChainState ----------------------------
(***************************************************************************)
(* A block tree with two competing branches above P1.                       *)
(*                                                                          *)
(*   G -- P1 -+- A2 -+- A3           A2 and B2 both hold t1; A3 and B3 stake *)
(*            |      `- D3           the same output of t1.  D3 spends what  *)
(*            |                      A2 has spent.  X3 spends an output that *)
(*            `- B2 -+- B3 -+- B4    exists only in the branch of A3, and X4 *)
(*                   |      `- C4    builds on it.  C4 spends the coinbase   *)
(*                   `- X3 -- X4     of B2.  F4 pays itself too much.        *)
(*                                                                          *)
(* F4 is a child of A3.  The transactions r (in A3), k (in B3), l1 and l2    *)
(* are ordinary ones; l1 conflicts with k and l2 spends l1.                 *)
(***************************************************************************)
EXTENDS ChainState

CONSTANT MCBlocks   \* the part of the tree that a run uses

MCPrev0 == [P1 |-> "G", A2 |-> "P1", A3 |-> "A2", B2 |-> "P1", B3 |-> "B2", B4 |-> "B3",
            C4 |-> "B3", D3 |-> "A2", F4 |-> "A3", X3 |-> "B2", X4 |-> "X3"]
MCPrev == [b \in MCBlocks \ {"G"} |-> MCPrev0[b]]
MCAnc == LET a[b \in MCBlocks] == IF b = "G" THEN {b} ELSE a[MCPrev[b]] \cup {b} IN a
MCHeight == [b \in MCBlocks |-> Cardinality(MCAnc[b]) - 1]
\* X3 has a harder target than the blocks beside it.
MCTrust == [b \in MCBlocks |-> MCHeight[b] + IF b \in {"X3", "X4"} THEN 2 ELSE 0]

MCTx == {"c1", "b2", "t1", "t2", "r", "u2", "k", "u3", "v3", "w", "dd", "l1", "l2"}
MCTxIn == [c1 |-> {}, b2 |-> {}, t1 |-> {<<"c1", 1>>}, t2 |-> {<<"t1", 1>>},
           r |-> {<<"c1", 3>>}, u2 |-> {<<"t1", 1>>}, k |-> {<<"t1", 2>>},
           u3 |-> {<<"c1", 2>>, <<"u2", 1>>}, v3 |-> {<<"b2", 1>>}, w |-> {<<"t2", 1>>},
           dd |-> {<<"c1", 1>>}, l1 |-> {<<"t1", 2>>}, l2 |-> {<<"l1", 1>>}]
MCNOut == [t \in MCTx |-> IF t = "c1" THEN 3 ELSE IF t = "t1" THEN 2 ELSE 1]
MCCoinStakes == {"t2", "u2", "u3"}
MCVtx0 == [G |-> << >>, P1 |-> <<"c1">>, A2 |-> <<"t1">>, A3 |-> <<"t2", "r">>,
           B2 |-> <<"b2", "t1">>, B3 |-> <<"u2", "k">>, B4 |-> <<"u3">>, C4 |-> <<"v3">>,
           D3 |-> <<"dd">>, F4 |-> << >>, X3 |-> <<"w">>, X4 |-> << >>]
MCVtx == [b \in MCBlocks |-> MCVtx0[b]]
MCStake == [b \in MCBlocks |-> IF b \in {"A3", "B3"} THEN "s1"
                               ELSE IF b = "B4" THEN "s2" ELSE "none"]
MCFails == [b \in MCBlocks |-> IF b = "F4" THEN "connect" ELSE "none"]

=============================================================================
