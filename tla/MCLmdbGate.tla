----------------------------- MODULE MCLmdbGate -----------------------------
(* Three threads: enough for a writer that resizes, a reader that holds a    *)
(* transaction and a reader that waits for the gate.                         *)
EXTENDS LmdbGate

CONSTANTS t1, t2, t3

MCThreads == {t1, t2, t3}

=============================================================================
