-------------------------- MODULE MCChainUnbatched --------------------------
(***************************************************************************)
(* The block tree of MCChainState, with a TxnBegin that may fail.           *)
(***************************************************************************)
EXTENDS MCChainState, ChainUnbatched

=============================================================================
