----------------------------- MODULE MCAddrMan -----------------------------
(***************************************************************************)
(* Four addresses, one of them with two ports, from two sources.            *)
(***************************************************************************)
EXTENDS AddrMan

At(i, p) == [ip |-> i, port |-> p]
MCService == { At("a", 1), At("a", 2), At("b", 1), At("c", 1), At("d", 1) }
MCGossip == { <<At("a", 1), "s">>, <<At("a", 2), "t">>, <<At("b", 1), "s">>, <<At("b", 1), "t">>,
              <<At("c", 1), "s">>, <<At("d", 1), "t">> }
MCNewBucket == [x \in {"a", "b", "c", "d"} \X {"s", "t"} |-> IF x[2] = "s" THEN 1 ELSE 2]
MCTriedBucket == [i \in {"a", "b", "c", "d"} |-> 1]

=============================================================================
