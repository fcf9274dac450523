----------------------------- MODULE MCServices -----------------------------
(* The services around the wallet on small instances for TLC, in one run.  *)
EXTENDS Services
CONSTANTS n1, n2, t1, t2, s1, s2, r1, r2, r3

Ask(i, n, t) == [id |-> i, node |-> n, tip |-> t]
JoinsAndTips == {Ask(1, n1, NoTip), Ask(2, n1, t1), Ask(3, n2, t2)}
OneAnother == {<<n1, n2>>, <<n2, n1>>}
EvmFirst == [s \in Subs |-> IF s = s1 THEN 2 ELSE 1]
ThreeReads == [r \in Reads |-> CASE r = r1 -> "solanaToken" [] r = r2 -> "evmBatch" [] r = r3 -> "unsupported"]
=============================================================================
