----------------------------- MODULE MCTxRelay ------------------------------
(***************************************************************************)
(* A chain G -- P1 -- P2.  The coinbase c1 of P1 pays a and d; b spends an   *)
(* output of each of them, e spends the same output of a as b, f and g      *)
(* spend b.  P2 holds d.                                                    *)
(***************************************************************************)
EXTENDS TxRelay

CONSTANTS MCTx, Has1, Has2

MCBlocks == {"G", "P1", "P2"}
MCPrev == [P1 |-> "G", P2 |-> "P1"]
MCAnc == [G |-> {"G"}, P1 |-> {"G", "P1"}, P2 |-> {"G", "P1", "P2"}]
MCHeight == [G |-> 0, P1 |-> 1, P2 |-> 2]
MCTxIn0 == [c1 |-> {}, a |-> {<<"c1", 1>>}, d |-> {<<"c1", 2>>},
            b |-> {<<"a", 1>>, <<"d", 1>>}, e |-> {<<"a", 1>>}, f |-> {<<"b", 1>>}, g |-> {<<"b", 1>>}]
MCTxIn == [t \in MCTx |-> MCTxIn0[t]]
MCNOut == [t \in MCTx |-> IF t = "c1" THEN 2 ELSE 1]
MCVtx == [G |-> << >>, P1 |-> <<"c1">>, P2 |-> <<"d">>]
MCFails == [b \in MCBlocks |-> "none"]
MCPeer == {"p1", "p2"}
MCPeerHas == [p1 |-> Has1, p2 |-> Has2]

=============================================================================
