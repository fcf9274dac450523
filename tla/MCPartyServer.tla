--------------------------- MODULE MCPartyServer ---------------------------
(***************************************************************************)
(* PartyServer on small instances.  Requests, hashes and the two nations of *)
(* the match are interchangeable.                                           *)
(***************************************************************************)
EXTENDS PartyServer, TLC

Symmetry == Permutations(Req) \cup Permutations(TxHash) \cup Permutations(Match)
=============================================================================
