----------------------------- MODULE MCTipPool -----------------------------
(***************************************************************************)
(* TipPool on a small instance: a host and a fan, four transactions.        *)
(***************************************************************************)
EXTENDS TipPool, TLC

\* Transaction hashes and nations are interchangeable; the host is not.
Symmetry == Permutations(TxHash) \cup Permutations(Nation)
=============================================================================
