------------------------------ MODULE MCWallet ------------------------------
(* The worker under its page, and on its own, on small instances for TLC.  *)
EXTENDS WalletSession, TLC
CONSTANTS c1, c2, c3, c4, s1, s2, junk, p1, p2, ch1, ch2

Interchangeable == Permutations(Calls) \cup Permutations(Seeds) \cup Permutations(Passwords)
=============================================================================
