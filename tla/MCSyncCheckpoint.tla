-------------------------- MODULE MCSyncCheckpoint --------------------------
(***************************************************************************)
(*        ,- A1 -- A2 -- A3            The checkpoints are on the branch of  *)
(*   G --+                             B1.  The blocks of MCBad pay them-   *)
(*        `- B1 -+- B2 -- B3 -- B4     selves too much.  Each run takes a    *)
(*               +- C2 -- C3 -- C4     part of the tree.                     *)
(*               `- F2                                                       *)
(*                                                                          *)
(* r (in A2) spends the coinbase of A1, s (in B2) the one of B1, and u (in   *)
(* B3) the output of s.                                                      *)
(***************************************************************************)
EXTENDS SyncCheckpoint

CONSTANTS MCBlocks, MCBad

MCPrev0 == [A1 |-> "G", A2 |-> "A1", A3 |-> "A2", B1 |-> "G", B2 |-> "B1", B3 |-> "B2",
            B4 |-> "B3", C2 |-> "B1", C3 |-> "C2", C4 |-> "C3", F2 |-> "B1"]
MCPrev == [b \in MCBlocks \ {"G"} |-> MCPrev0[b]]
MCAnc == LET a[b \in MCBlocks] == IF b = "G" THEN {b} ELSE a[MCPrev[b]] \cup {b} IN a
MCHeight == [b \in MCBlocks |-> Cardinality(MCAnc[b]) - 1]

MCTx == {"a", "b", "r", "s", "u"}
MCTxIn == [a |-> {}, b |-> {}, r |-> {<<"a", 1>>}, s |-> {<<"b", 1>>}, u |-> {<<"s", 1>>}]
MCNOut == [t \in MCTx |-> 1]
MCVtx0 == [G |-> << >>, A1 |-> <<"a">>, A2 |-> <<"r">>, A3 |-> << >>, B1 |-> <<"b">>,
           B2 |-> <<"s">>, B3 |-> <<"u">>, B4 |-> << >>, C2 |-> << >>, C3 |-> << >>, C4 |-> << >>,
           F2 |-> << >>]
MCVtx == [b \in MCBlocks |-> MCVtx0[b]]
MCFails == [b \in MCBlocks |-> IF b \in MCBad THEN "connect" ELSE "none"]

=============================================================================
