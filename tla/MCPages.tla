------------------------------ MODULE MCPages ------------------------------
(* The screens on small instances for TLC, in one run.                     *)
EXTENDS Pages, TLC
CONSTANTS c1, c2, p1, p2, h1, h2, r1, r2, a, b, c, m1, m2, typo, eth, sol, s1

FewPasswords == {[len |-> 7, classes |-> 3], [len |-> 8, classes |-> 1],
                 [len |-> 8, classes |-> 2], [len |-> 12, classes |-> 3]}
EvmAndSolana == eth :> "evm" @@ sol :> "solana"

\* Addresses that belong to each family, and some that belong to none.
E1 == Addr("hex", 20, 0, "a")
E2 == Addr("hex", 20, 0, "b")
B1 == Addr("bech32", 20, 0, "bc")
B2 == Addr("base58check", 25, 196, "a")
B3 == Addr("bech32", 32, 1, "bc")
T1 == Addr("base58check", 25, 65, "a")
S1 == Addr("base58", 32, 0, "a")
Ton1 == Addr("tonfriendly", 36, 17, "a")
Sp1 == Addr("bech32m", 40, 1, "sp")
Bad == {Addr("hex", 19, 0, "a"), Addr("bech32", 20, 1, "bc"), Addr("base58check", 25, 7, "a")}
SomeAddresses == {E1, B1, B3, T1, S1, Ton1, Sp1} \cup Bad
FewAddresses == {E1, B1} \cup Bad
\* A request for a token names its contract, its transfer and who receives.
TokenRequest(contract, to_, v) ==
  [scheme |-> "ethereum", addr |-> contract, function |-> "transfer", recipient |-> to_, value |-> v]
Ether(to_, v) == [scheme |-> "ethereum", addr |-> to_, function |-> None, recipient |-> None, value |-> v]
Coins(to_, t) == [scheme |-> "bitcoin", addr |-> to_, amount |-> t]
OneAmount == {<<1, 0>>}
SomeAmounts == {Blank, <<0, 0>>, <<1, 0>>, <<3, 2>>, <<15, 1>>, <<12345, 4>>}
Bare == {Ether(E2, None), Ether(E2, 1234), TokenRequest(E2, E1, 5)}
Ethers == {Ether(E2, 1234), TokenRequest(E2, E1, 5), Ether(E1, None), Coins(B2, <<5, 2>>), Coins(B1, <<123, 3>>), Ether(B1, 1)}
Bitcoins == {Coins(B2, <<25, 2>>), Coins(B1, <<123, 3>>), Coins(B1, None), Coins(T1, <<1, 0>>), Ether(E2, 1)}

\* A visit to every form, and one long enough for two bridges.
FewVisits == {[forms |-> {"lend", "bridge", "gasless", "swap", "buy"}, calls |-> 2],
              [forms |-> {"bridge", "buy"}, calls |-> 4]}

Legacy == {[prefs |-> p, hex |-> h, migrated |-> m, brand |-> k] :
             p \in {None, <<"cool-purple", "soft", "dark">>, <<"teal", "soft", "dark">>},
             h \in {None, "#0000FF"}, m \in BOOLEAN, k \in {None, "wdk"}}
=============================================================================
