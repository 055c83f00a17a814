----------------------------- MODULE BestChain ------------------------------
(***************************************************************************)
(* What the chain database of a node promises to whoever reads it, without  *)
(* reference to batches, pointers or reorganisations: it is a set of blocks *)
(* and a best block, and it changes one block at a time.  A block is stored *)
(* after its parent, and becomes the best block at once if it has more      *)
(* trust than the best block and its chain is valid; a heavier block whose  *)
(* chain is not valid is not stored.                                        *)
(***************************************************************************)
EXTENDS Integers

CONSTANTS
    Block, Genesis, Prev, ChainTrust,
    ValidChain      \* the blocks whose chain is valid

VARIABLES
    stored,         \* the blocks of the database
    best            \* its best block

vars == <<stored, best>>

Init ==
    /\ stored = {Genesis}
    /\ best = Genesis

\* A block that does not become the best block.
StoreFork(b) ==
    /\ ChainTrust[b] <= ChainTrust[best]
    /\ best' = best

\* A block that does, by itself or with the rest of its branch.
StoreBest(b) ==
    /\ ChainTrust[b] > ChainTrust[best]
    /\ b \in ValidChain
    /\ best' = b

Store(b) ==
    /\ b \notin stored /\ Prev[b] \in stored
    /\ stored' = stored \cup {b}
    /\ StoreFork(b) \/ StoreBest(b)

Next == \E b \in Block \ {Genesis} : Store(b)

Spec == Init /\ [][Next]_vars

=============================================================================
