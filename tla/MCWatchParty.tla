--------------------------- MODULE MCWatchParty ---------------------------
(***************************************************************************)
(* WatchParty on a small instance: the host's page and one fan's.           *)
(***************************************************************************)
EXTENDS WatchParty, TLC

\* Hashes and the two nations are interchangeable (safety runs only).
Symmetry == Permutations(TxHash) \cup Permutations(Match)
=============================================================================
