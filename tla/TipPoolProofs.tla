--------------------------- MODULE TipPoolProofs ---------------------------
(***************************************************************************)
(* Proofs about TipPool: for every set of wallets, nations, hashes and      *)
(* amounts, the escrow accounts for every tip, no USDt appears or vanishes, *)
(* settlement is final and is told truly by its receipt, and the contract   *)
(* implements EscrowLedger.                                                 *)
(***************************************************************************)
EXTENDS TipPool, Sums, TLAPS

\* Before settle there is no payout; it is what makes EscrowAccounted say,
\* at the instant of settle, that the payout covers every tip.
Unsettled == ~settled => settledAmount = 0

IInv ==
  /\ TypeOK
  /\ Unsettled
  /\ EscrowAccounted
  /\ EveryTipPaidOut
  /\ SettleReceiptIsOutcome

USE PoolAssumption

-----------------------------------------------------------------------------
\* A pending transaction is a transaction (tip-pool.ts sends no other call).
LEMMA PendingIsTx ==
  ASSUME TypeOK, NEW h \in TxHash, NEW op, Pending(h, op)
  PROVE  /\ tx[h] \in Tx
         /\ tx[h].from \in Addr
         /\ tx[h].nation \in Nation \cup {NoNation}
         /\ tx[h].amount \in Nat
         /\ tx[h].op = op
         /\ tx[h].status = "pending"
BY DEF TypeOK, Pending, Tx

\* The initial state is well typed, accounted for and unsettled.
LEMMA InitInv == Init => IInv
<1> SUFFICES ASSUME Init PROVE IInv
  OBVIOUS
<1>1. TypeOK
  BY DEF Init, TypeOK
<1>2. Unsettled /\ EscrowAccounted /\ EveryTipPaidOut
  BY DEF Init, Unsettled, EscrowAccounted, EveryTipPaidOut
<1>3. SettleReceiptIsOutcome
  BY DEF Init, SettleReceiptIsOutcome, MinedOk
<1> QED BY <1>1, <1>2, <1>3 DEF IInv

\* Every call a wallet can broadcast is a transaction (Submit keeps the type).
LEMMA CallsAreTx == Calls \subseteq Tx
BY DEF Calls, Call, Tx, Op, Status

\* Every step keeps the types of the contract, the token and the receipts.
LEMMA StepTypeOK == TypeOK /\ [Next]_vars => TypeOK'
<1> SUFFICES ASSUME TypeOK, [Next]_vars PROVE TypeOK'
  OBVIOUS
<1> USE DEF TypeOK, token, pool
<1>1. ASSUME NEW h \in TxHash, Submit(h) PROVE TypeOK'
  BY <1>1, CallsAreTx DEF Submit
<1>2. ASSUME NEW h \in TxHash, Approve(h) PROVE TypeOK'
  <2>1. tx[h] \in Tx /\ tx[h].from \in Addr /\ tx[h].amount \in Nat
    BY <1>2, PendingIsTx DEF Approve
  <2>2. tx' \in [TxHash -> Tx \cup {NoTx}]
    BY <1>2, <2>1 DEF Approve, Succeed, Tx, Status
  <2>3. allowance' \in [Addr -> Nat]
    BY <1>2, <2>1 DEF Approve
  <2> QED BY <1>2, <2>2, <2>3 DEF Approve
<1>3. ASSUME NEW h \in TxHash, Transfer(h) PROVE TypeOK'
  <2>1. tx[h] \in Tx /\ tx[h].from \in Addr /\ tx[h].amount \in Nat
    BY <1>3, PendingIsTx DEF Transfer
  <2>2. tx' \in [TxHash -> Tx \cup {NoTx}]
    BY <1>3, <2>1 DEF Transfer, Succeed, Tx, Status
  <2>3. balance' \in [Addr -> Nat]
    BY <1>3, <2>1 DEF Transfer, TransferAccepted
  <2> QED BY <1>3, <2>1, <2>2, <2>3 DEF Transfer
<1>4. ASSUME NEW h \in TxHash, Tip(h) PROVE TypeOK'
  <2>1. tx[h] \in Tx /\ tx[h].from \in Addr /\ tx[h].amount \in Nat
    BY <1>4, PendingIsTx DEF Tip
  <2>2. tx' \in [TxHash -> Tx \cup {NoTx}]
    BY <1>4, <2>1 DEF Tip, Succeed, Tx, Status
  <2>3. balance' \in [Addr -> Nat]
    BY <1>4, <2>1 DEF Tip, TipAccepted, CanPull
  <2>4. allowance' \in [Addr -> Nat]
    BY <1>4, <2>1 DEF Tip, TipAccepted, CanPull
  <2> QED BY <1>4, <2>1, <2>2, <2>3, <2>4 DEF Tip
<1>5. ASSUME NEW h \in TxHash, Settle(h) PROVE TypeOK'
  <2>1. tx[h] \in Tx /\ tx[h].nation \in Nation \cup {NoNation}
    BY <1>5, PendingIsTx DEF Settle
  <2>2. tx' \in [TxHash -> Tx \cup {NoTx}]
    BY <1>5, <2>1 DEF Settle, Tx, Status
  <2>3. balance' \in [Addr -> Nat]
    BY <1>5 DEF Settle
  <2> QED BY <1>5, <2>1, <2>2, <2>3 DEF Settle
<1>6. ASSUME NEW h \in TxHash, Revert(h) PROVE TypeOK'
  <2>1. tx[h] \in Tx
    BY <1>6, PendingIsTx DEF Revert
  <2>2. tx' \in [TxHash -> Tx \cup {NoTx}]
    BY <1>6, <2>1 DEF Revert, Tx, Status
  <2> QED BY <1>6, <2>2 DEF Revert
<1>7. CASE UNCHANGED vars
  BY <1>7 DEF vars
<1> QED BY <1>1, <1>2, <1>3, <1>4, <1>5, <1>6, <1>7 DEF Next

-----------------------------------------------------------------------------
\* Every step keeps the money accounted for: tip() and transfer bring in what
\* they log, settle moves all of it to settledAmount, nothing else moves it.
LEMMA StepAccounted ==
  TypeOK /\ Unsettled /\ EscrowAccounted /\ EveryTipPaidOut /\ [Next]_vars
    => (Unsettled /\ EscrowAccounted /\ EveryTipPaidOut)'
<1> SUFFICES ASSUME TypeOK, Unsettled, EscrowAccounted, EveryTipPaidOut, [Next]_vars
             PROVE  (Unsettled /\ EscrowAccounted /\ EveryTipPaidOut)'
  OBVIOUS
<1> USE DEF Unsettled, EscrowAccounted, EveryTipPaidOut, token, pool
<1>0. /\ poolBalance \in Nat /\ settledAmount \in Nat
      /\ tipped \in Nat /\ donated \in Nat
  BY DEF TypeOK
<1>1. ASSUME NEW h \in TxHash, Submit(h) \/ Approve(h) \/ Revert(h)
      PROVE  (Unsettled /\ EscrowAccounted /\ EveryTipPaidOut)'
  BY <1>1 DEF Submit, Approve, Revert
<1>2. ASSUME NEW h \in TxHash, Transfer(h)
      PROVE  (Unsettled /\ EscrowAccounted /\ EveryTipPaidOut)'
  <2>1. tx[h].amount \in Nat
    BY <1>2, PendingIsTx DEF Transfer
  <2> QED BY <1>0, <1>2, <2>1 DEF Transfer
<1>3. ASSUME NEW h \in TxHash, Tip(h)
      PROVE  (Unsettled /\ EscrowAccounted /\ EveryTipPaidOut)'
  <2>1. tx[h].amount \in Nat
    BY <1>3, PendingIsTx DEF Tip
  <2>2. ~settled /\ ~settled'
    BY <1>3 DEF Tip, TipAccepted
  <2> QED BY <1>0, <1>3, <2>1, <2>2 DEF Tip
<1>4. ASSUME NEW h \in TxHash, Settle(h)
      PROVE  (Unsettled /\ EscrowAccounted /\ EveryTipPaidOut)'
  <2>1. ~settled /\ settledAmount = 0
    BY <1>4 DEF Settle, SettleAccepted
  <2> QED BY <1>0, <1>4, <2>1 DEF Settle
<1>5. CASE UNCHANGED vars
  BY <1>5 DEF vars
<1> QED BY <1>1, <1>2, <1>3, <1>4, <1>5 DEF Next

\* Every step keeps the settle receipt unique, the host's, and equal to the
\* outcome stored in the contract.
LEMMA StepReceipt ==
  TypeOK /\ SettleReceiptIsOutcome /\ [Next]_vars => SettleReceiptIsOutcome'
<1> SUFFICES ASSUME TypeOK, SettleReceiptIsOutcome, [Next]_vars
             PROVE  SettleReceiptIsOutcome'
  OBVIOUS
<1> USE DEF SettleReceiptIsOutcome, MinedOk, token, pool
<1>0. tx \in [TxHash -> Tx \cup {NoTx}]
  BY DEF TypeOK
<1>1. ASSUME NEW h \in TxHash, Submit(h) PROVE SettleReceiptIsOutcome'
  <2>1. PICK c \in Calls : tx' = [tx EXCEPT ![h] = c]
    BY <1>1 DEF Submit
  <2>2. c.status = "pending"
    BY DEF Calls, Call
  <2>3. \A g \in TxHash : /\ MinedOk(g, "settle")' <=> MinedOk(g, "settle")
                          /\ MinedOk(g, "settle") => tx'[g] = tx[g]
    BY <1>0, <1>1, <2>1, <2>2 DEF Submit
  <2> QED BY <1>1, <2>3 DEF Submit
<1>2. ASSUME NEW h \in TxHash, Approve(h) \/ Transfer(h) \/ Tip(h) \/ Revert(h)
      PROVE  SettleReceiptIsOutcome'
  <2>1. \A g \in TxHash : /\ MinedOk(g, "settle")' <=> MinedOk(g, "settle")
                          /\ MinedOk(g, "settle") => tx'[g] = tx[g]
    <3>1. tx[h] \in Tx /\ tx[h].status = "pending"
      BY <1>2, PendingIsTx DEF Approve, Transfer, Tip, Revert
    <3>2. \/ tx[h].op # "settle" /\ tx' = [tx EXCEPT ![h].status = "ok"]
          \/ tx' = [tx EXCEPT ![h].status = "reverted"]
      BY <1>2 DEF Approve, Transfer, Tip, Revert, Pending, Succeed
    <3>3. tx'[h] # NoTx /\ (tx'[h].op = tx[h].op)
          /\ (tx'[h].status = "ok" => tx[h].op # "settle")
      BY <1>0, <3>1, <3>2 DEF Tx, Status
    <3>4. \A g \in TxHash \ {h} : tx'[g] = tx[g]
      BY <1>0, <3>2
    <3> QED BY <3>1, <3>3, <3>4
  <2>2. UNCHANGED pool
    BY <1>2 DEF Approve, Transfer, Tip, Revert
  <2> QED BY <2>1, <2>2
<1>3. ASSUME NEW h \in TxHash, Settle(h) PROVE SettleReceiptIsOutcome'
  <2>1. tx[h] \in Tx /\ tx[h].from = Host /\ ~settled /\ tx[h].op = "settle"
    BY <1>3, PendingIsTx DEF Settle, SettleAccepted
  <2>2. \A g \in TxHash : ~MinedOk(g, "settle")
    BY <2>1
  <2>3. /\ tx'[h] = [tx[h] EXCEPT !.status = "ok", !.amount = poolBalance]
        /\ \A g \in TxHash \ {h} : tx'[g] = tx[g]
    BY <1>0, <1>3 DEF Settle
  <2>4. /\ tx'[h] # NoTx /\ tx'[h].op = "settle" /\ tx'[h].status = "ok"
        /\ tx'[h].from = Host
        /\ tx'[h].nation = winnerNationId'
        /\ tx'[h].amount = settledAmount'
    BY <1>3, <2>1, <2>3 DEF Settle, Tx, Status, TypeOK
  <2>5. settled'
    BY <1>3 DEF Settle
  <2> QED BY ZenonT(60), <2>2, <2>3, <2>4, <2>5
<1>4. CASE UNCHANGED vars
  BY <1>4 DEF vars
<1> QED BY <1>1, <1>2, <1>3, <1>4 DEF Next

-----------------------------------------------------------------------------
\* The inductive invariant holds in every reachable state of the contract.
THEOREM Invariance == Spec => []IInv
<1>1. Init => IInv
  BY InitInv
<1>2. IInv /\ [Next]_vars => IInv'
  BY StepTypeOK, StepAccounted, StepReceipt DEF IInv
<1> QED BY <1>1, <1>2, PTL DEF Spec

\* TipPool keeps its types: in particular no balance, allowance or counter of
\* TipPool.sol or of the token it calls ever goes below zero.
THEOREM TypeCorrect == Spec => []TypeOK
BY Invariance, PTL DEF IInv

\* Every USDt that entered the pool is in it or was paid out (TipPool.sol 40-63).
THEOREM Accounted == Spec => []EscrowAccounted
BY Invariance, PTL DEF IInv

\* Once settled, the host has been paid every tip ever made (TipPool.sol 48-63).
THEOREM TipsPaidOut == Spec => []EveryTipPaidOut
BY Invariance, PTL DEF IInv

\* The only successful settle receipt tells the outcome verify-settle-tx.ts reads.
THEOREM OutcomeReceipt == Spec => []SettleReceiptIsOutcome
BY Invariance, PTL DEF IInv

\* Settling is final: no later tip, no later payout, no second outcome.
THEOREM SettledForGood == Spec => SettlementFinal
<1> DEFINE Final == settled => /\ UNCHANGED <<pool, tipped>>
                               /\ poolBalance' >= poolBalance
<1>1. IInv /\ [Next]_vars => [Final]_vars
  <2> SUFFICES ASSUME TypeOK, Next, settled PROVE Final
    BY DEF IInv
  <2>0. poolBalance \in Nat
    BY DEF TypeOK
  <2>1. PICK h \in TxHash : Submit(h) \/ Approve(h) \/ Transfer(h) \/ Tip(h)
                              \/ Settle(h) \/ Revert(h)
    BY DEF Next
  <2>2. CASE Submit(h) \/ Approve(h) \/ Revert(h)
    <3>1. UNCHANGED <<poolBalance, pool, tipped>>
      BY <2>2 DEF Submit, Approve, Revert, token
    <3> QED BY <2>0, <3>1
  <2>3. CASE Transfer(h)
    <3>1. tx[h].amount \in Nat
      BY <2>3, PendingIsTx DEF Transfer
    <3> QED BY <2>0, <2>3, <3>1 DEF Transfer, pool
  <2>4. CASE Tip(h) \/ Settle(h)
    BY <2>4 DEF Tip, Settle, TipAccepted, SettleAccepted
  <2> QED BY <2>1, <2>2, <2>3, <2>4
<1> QED BY <1>1, Invariance, PTL DEF Spec, SettlementFinal
-----------------------------------------------------------------------------
(***************************************************************************)
(* The sums: wallets and pool hold what was minted, receipts add up.        *)
(***************************************************************************)

\* When one wallet's balance moves, the wallets' total moves by as much.
LEMMA BalancesMove ==
  ASSUME TypeOK, TypeOK', NEW a \in Addr,
         \A b \in Addr \ {a} : balance'[b] = balance[b]
  PROVE  /\ SumFunctionOnSet(balance, Addr) \in Nat
         /\ SumFunctionOnSet(balance, Addr)' + balance[a]
              = SumFunctionOnSet(balance, Addr) + balance'[a]
<1>1. \A b \in Addr : balance[b] \in Nat /\ balance'[b] \in Nat
  BY DEF TypeOK
<1>2. SumFunctionOnSet(balance, Addr) \in Nat
  BY <1>1, SumType
<1>3. SumFunctionOnSet(balance', Addr) + balance[a]
        = SumFunctionOnSet(balance, Addr) + balance'[a]
  BY <1>1, SumReweigh
<1> QED BY <1>2, <1>3

\* Every step moves USDt between one wallet and the pool, or none at all.
LEMMA StepConservation ==
  TypeOK /\ Conservation /\ [Next]_vars => Conservation'
<1> SUFFICES ASSUME TypeOK, TypeOK', Conservation, [Next]_vars PROVE Conservation'
  BY StepTypeOK
<1> USE DEF token, pool
<1> DEFINE held == SumFunctionOnSet(balance, Addr)
<1>0. /\ poolBalance \in Nat /\ balance \in [Addr -> Nat]
      /\ poolBalance + held = Minted * Cardinality(Addr)
  BY DEF TypeOK, Conservation
<1>1. ASSUME NEW h \in TxHash, Submit(h) \/ Approve(h) \/ Revert(h)
      PROVE  Conservation'
  <2>1. balance' = balance /\ poolBalance' = poolBalance
    BY <1>1 DEF Submit, Approve, Revert
  <2> QED BY <2>1 DEF Conservation
<1>2. ASSUME NEW h \in TxHash, Transfer(h) \/ Tip(h)
      PROVE  Conservation'
  <2> DEFINE a == tx[h].from
             v == tx[h].amount
  <2>1. a \in Addr /\ v \in Nat /\ balance[a] \in Nat /\ v <= balance[a]
    <3>1. a \in Addr /\ v \in Nat
      BY <1>2, PendingIsTx DEF Transfer, Tip
    <3> QED BY <1>0, <1>2, <3>1 DEF Transfer, Tip, TransferAccepted, TipAccepted, CanPull
  <2>2. /\ balance' = [balance EXCEPT ![a] = @ - v]
        /\ poolBalance' = poolBalance + v
    BY <1>2 DEF Transfer, Tip
  <2> HIDE DEF a, v
  <2>3. /\ balance'[a] = balance[a] - v
        /\ \A b \in Addr \ {a} : balance'[b] = balance[b]
    BY <1>0, <2>1, <2>2
  <2>4. held \in Nat /\ held' + balance[a] = held + balance'[a]
    BY <2>1, <2>3, BalancesMove
  <2>5. held' = held - v
    <3>1. held' + balance[a] = held + (balance[a] - v)
      BY <2>3, <2>4
    <3>2. held' = SumFunctionOnSet(balance', Addr) /\ held' \in Nat
      BY SumType DEF TypeOK
    <3> HIDE DEF held
    <3> QED BY <2>1, <2>4, <3>1, <3>2
  <2>6. poolBalance' + held' = poolBalance + held
    <3> HIDE DEF held
    <3> QED BY <1>0, <2>1, <2>2, <2>4, <2>5
  <2> QED BY <1>0, <2>6 DEF Conservation
<1>3. ASSUME NEW h \in TxHash, Settle(h)
      PROVE  Conservation'
  <2>1. /\ balance' = [balance EXCEPT ![Host] = @ + poolBalance]
        /\ poolBalance' = 0
    BY <1>3 DEF Settle
  <2>2. /\ balance'[Host] = balance[Host] + poolBalance
        /\ \A b \in Addr \ {Host} : balance'[b] = balance[b]
    BY <1>0, <2>1
  <2>3. held \in Nat /\ held' + balance[Host] = held + balance'[Host]
    BY <2>2, BalancesMove
  <2>4. held' \in Nat /\ balance[Host] \in Nat
    BY SumType DEF TypeOK
  <2>5. poolBalance' + held' = poolBalance + held
    <3>1. poolBalance \in Nat /\ poolBalance' = 0
      BY <1>0, <2>1
    <3>2. balance'[Host] = balance[Host] + poolBalance
      BY <2>2
    <3> HIDE DEF held
    <3>3. held' + balance[Host] = held + (balance[Host] + poolBalance)
      BY <2>3, <3>2
    <3>4. held' = held + poolBalance
      BY <2>3, <2>4, <3>1, <3>3
    <3> QED BY <2>3, <3>1, <3>4
  <2> QED BY <1>0, <2>5 DEF Conservation
<1>4. CASE UNCHANGED vars
  BY <1>4 DEF vars, Conservation
<1> QED BY <1>1, <1>2, <1>3, <1>4 DEF Next

\* The receipts summed up are finitely many, and each carries a natural.
LEMMA MinedAmounts ==
  ASSUME TypeOK, NEW op
  PROVE  /\ IsFiniteSet(Mined(op))
         /\ \A h \in Mined(op) : tx[h].amount \in Nat
         /\ ReceiptTotal(op) \in Nat
<1>1. IsFiniteSet(Mined(op))
  BY FS_Subset DEF Mined
<1>2. \A h \in Mined(op) : tx[h].amount \in Nat
  BY DEF TypeOK, Mined, MinedOk, Tx
<1>3. ReceiptTotal(op) \in Nat
  BY <1>1, <1>2, SumType DEF ReceiptTotal
<1> QED BY <1>1, <1>2, <1>3

\* A step that adds no receipt of a kind, and changes none, keeps their total.
LEMMA TotalStays ==
  ASSUME TypeOK, TypeOK', NEW op,
         \A h \in TxHash : /\ MinedOk(h, op)' <=> MinedOk(h, op)
                           /\ MinedOk(h, op) => tx'[h].amount = tx[h].amount
  PROVE  ReceiptTotal(op)' = ReceiptTotal(op)
<1> DEFINE v == [h \in Mined(op)' |-> tx'[h].amount]
           w == [h \in Mined(op) |-> tx[h].amount]
<1>1. Mined(op)' = Mined(op)
  BY DEF Mined
<1>2. \A h \in Mined(op) : v[h] = w[h]
  BY <1>1 DEF Mined
<1>3. IsFiniteSet(Mined(op))
  BY MinedAmounts
<1>4. SumFunctionOnSet(v, Mined(op)) = SumFunctionOnSet(w, Mined(op))
  <2> HIDE DEF v, w
  <2> QED BY <1>2, <1>3, SumSame
<1>5. ReceiptTotal(op)' = SumFunctionOnSet(v, Mined(op)')
  BY DEF ReceiptTotal
<1>6. ReceiptTotal(op) = SumFunctionOnSet(w, Mined(op))
  BY DEF ReceiptTotal
<1> QED BY <1>1, <1>4, <1>5, <1>6

\* A step that mines one more receipt of a kind adds its amount.
LEMMA TotalGrows ==
  ASSUME TypeOK, TypeOK', NEW op, NEW h \in TxHash,
         ~MinedOk(h, op), MinedOk(h, op)',
         \A g \in TxHash \ {h} : tx'[g] = tx[g]
  PROVE  ReceiptTotal(op)' = ReceiptTotal(op) + tx'[h].amount
<1> DEFINE v == [g \in Mined(op)' |-> tx'[g].amount]
           w == [g \in Mined(op) |-> tx[g].amount]
<1>1. Mined(op)' = Mined(op) \cup {h} /\ h \notin Mined(op)
  <2>1. \A g \in TxHash \ {h} : MinedOk(g, op)' <=> MinedOk(g, op)
    BY DEF MinedOk
  <2> QED BY <2>1, Zenon DEF Mined
<1>2. IsFiniteSet(Mined(op)) /\ ReceiptTotal(op) \in Nat
  BY MinedAmounts
<1>3. \A g \in Mined(op) \cup {h} : tx'[g].amount \in Nat
  <2>1. \A g \in Mined(op)' : tx'[g].amount \in Nat
    BY DEF TypeOK, Mined, MinedOk, Tx
  <2> QED BY <1>1, <2>1
<1>4. \A g \in Mined(op) \cup {h} : v[g] \in Nat
  BY <1>1, <1>3
<1>5. v[h] = tx'[h].amount
  BY <1>1
<1>6. \A g \in Mined(op) : v[g] = w[g]
  BY <1>1 DEF Mined
<1>7. ReceiptTotal(op)' = SumFunctionOnSet(v, Mined(op) \cup {h})
  BY <1>1 DEF ReceiptTotal
<1>8. ReceiptTotal(op) = SumFunctionOnSet(w, Mined(op))
  BY DEF ReceiptTotal
<1> HIDE DEF v, w
<1>9. SumFunctionOnSet(v, Mined(op) \cup {h}) = v[h] + SumFunctionOnSet(v, Mined(op))
  BY <1>1, <1>2, <1>4, SumAdd
<1>10. SumFunctionOnSet(v, Mined(op)) = SumFunctionOnSet(w, Mined(op))
  BY <1>2, <1>6, SumSame
<1>11. tx'[h].amount \in Nat
  BY <1>3
<1> QED BY <1>2, <1>5, <1>7, <1>8, <1>9, <1>10, <1>11

\* A step about h leaves the receipts of a kind alone when h is not, and does
\* not become, a successful receipt of that kind.
LEMMA OtherTotal ==
  ASSUME TypeOK, TypeOK', NEW op, NEW h \in TxHash,
         ~MinedOk(h, op), ~MinedOk(h, op)',
         \A g \in TxHash \ {h} : tx'[g] = tx[g]
  PROVE  ReceiptTotal(op)' = ReceiptTotal(op)
<1>1. \A g \in TxHash : /\ MinedOk(g, op)' <=> MinedOk(g, op)
                        /\ MinedOk(g, op) => tx'[g].amount = tx[g].amount
  BY DEF MinedOk
<1> QED BY <1>1, TotalStays

\* Every step that mines a tip or a transfer counts it, once.
LEMMA StepReceiptsAddUp ==
  TypeOK /\ ReceiptsAddUp /\ [Next]_vars => ReceiptsAddUp'
<1> SUFFICES ASSUME TypeOK, TypeOK', ReceiptsAddUp, [Next]_vars PROVE ReceiptsAddUp'
  BY StepTypeOK
<1> USE DEF token, pool
<1>0. tx \in [TxHash -> Tx \cup {NoTx}]
  BY DEF TypeOK
<1>t. /\ ReceiptTotal("tip") = tipped /\ ReceiptTotal("transfer") = donated
      /\ tipped \in Nat /\ donated \in Nat
  BY DEF ReceiptsAddUp, TypeOK
<1>1. ASSUME NEW h \in TxHash, Submit(h) PROVE ReceiptsAddUp'
  <2>1. PICK c \in Calls : tx' = [tx EXCEPT ![h] = c]
    BY <1>1 DEF Submit
  <2>2. c.status = "pending"
    BY DEF Calls, Call
  <2>3. tx'[h] = c /\ tx[h] = NoTx /\ \A g \in TxHash \ {h} : tx'[g] = tx[g]
    BY <1>0, <1>1, <2>1 DEF Submit
  <2>4. \A op : ~MinedOk(h, op) /\ ~MinedOk(h, op)'
    BY <2>2, <2>3 DEF MinedOk
  <2>5. ReceiptTotal("tip")' = ReceiptTotal("tip")
    BY <2>3, <2>4, OtherTotal
  <2>6. ReceiptTotal("transfer")' = ReceiptTotal("transfer")
    BY <2>3, <2>4, OtherTotal
  <2> QED BY <1>1, <1>t, <2>5, <2>6 DEF Submit, ReceiptsAddUp
<1>2. ASSUME NEW h \in TxHash, NEW op, Pending(h, op)
      PROVE  /\ tx[h] \in Tx /\ tx[h].op = op
             /\ \A o : ~MinedOk(h, o)
  BY <1>2, PendingIsTx DEF MinedOk
<1>3. ASSUME NEW h \in TxHash, Approve(h) \/ Settle(h) \/ Revert(h)
      PROVE  ReceiptsAddUp'
  <2>1. PICK op : /\ Pending(h, op)
                  /\ Approve(h) => op = "approve"
                  /\ Settle(h) => op = "settle"
    BY <1>3 DEF Approve, Settle, Revert, Pending, Succeed
  <2>2. tx[h] \in Tx /\ tx[h].op = op /\ \A o : ~MinedOk(h, o)
    BY <1>2, <2>1
  <2>3. \A g \in TxHash \ {h} : tx'[g] = tx[g]
    BY <1>0, <1>3 DEF Approve, Settle, Revert, Succeed
  <2>4. ~MinedOk(h, "tip")' /\ ~MinedOk(h, "transfer")'
    <3>1. CASE Approve(h) \/ Settle(h)
      <4>1. tx'[h].op \in {"approve", "settle"}
        BY <1>0, <2>1, <2>2, <3>1 DEF Approve, Settle, Succeed, Tx
      <4> QED BY <4>1 DEF MinedOk
    <3>2. CASE Revert(h)
      <4>1. tx'[h].status = "reverted"
        BY <1>0, <2>2, <3>2 DEF Revert, Tx
      <4> QED BY <4>1 DEF MinedOk
    <3> QED BY <1>3, <3>1, <3>2
  <2>5. ReceiptTotal("tip")' = ReceiptTotal("tip")
    BY <2>2, <2>3, <2>4, OtherTotal
  <2>6. ReceiptTotal("transfer")' = ReceiptTotal("transfer")
    BY <2>2, <2>3, <2>4, OtherTotal
  <2>7. tipped' = tipped /\ donated' = donated
    BY <1>3 DEF Approve, Settle, Revert
  <2> QED BY <1>t, <2>5, <2>6, <2>7 DEF ReceiptsAddUp
<1>4. ASSUME NEW h \in TxHash, NEW op \in {"tip", "transfer"}, Pending(h, op), Succeed(h)
      PROVE  /\ ReceiptTotal(op)' = ReceiptTotal(op) + tx[h].amount
             /\ \A o \in {"tip", "transfer"} \ {op} : ReceiptTotal(o)' = ReceiptTotal(o)
  <2>1. tx[h] \in Tx /\ tx[h].op = op /\ \A o : ~MinedOk(h, o)
    BY <1>2, <1>4
  <2>2. /\ tx'[h] = [tx[h] EXCEPT !.status = "ok"]
        /\ \A g \in TxHash \ {h} : tx'[g] = tx[g]
    BY <1>0, <1>4 DEF Succeed
  <2>3. /\ tx'[h].op = op /\ tx'[h].status = "ok" /\ tx'[h].amount = tx[h].amount
        /\ tx'[h] # NoTx
    <3>1. tx'[h] \in Tx
      BY <2>1, <2>2 DEF Tx, Status
    <3> QED BY <2>1, <2>2, <3>1 DEF Tx
  <2>4. MinedOk(h, op)' /\ \A o : o # op => ~MinedOk(h, o)'
    BY <2>3 DEF MinedOk
  <2>5. ReceiptTotal(op)' = ReceiptTotal(op) + tx'[h].amount
    BY <2>1, <2>2, <2>4, TotalGrows
  <2>6. ASSUME NEW o \in {"tip", "transfer"} \ {op}
        PROVE  ReceiptTotal(o)' = ReceiptTotal(o)
    BY <2>1, <2>2, <2>4, OtherTotal
  <2> QED BY <2>3, <2>5, <2>6
<1>5. ASSUME NEW h \in TxHash, Tip(h) PROVE ReceiptsAddUp'
  <2>1. Pending(h, "tip") /\ Succeed(h)
    BY <1>5 DEF Tip
  <2>2. /\ ReceiptTotal("tip")' = ReceiptTotal("tip") + tx[h].amount
        /\ ReceiptTotal("transfer")' = ReceiptTotal("transfer")
    BY <1>4, <2>1
  <2>3. tipped' = tipped + tx[h].amount /\ donated' = donated
    BY <1>5 DEF Tip
  <2> QED BY <1>t, <2>2, <2>3 DEF ReceiptsAddUp
<1>6. ASSUME NEW h \in TxHash, Transfer(h) PROVE ReceiptsAddUp'
  <2>1. Pending(h, "transfer") /\ Succeed(h)
    BY <1>6 DEF Transfer
  <2>2. /\ ReceiptTotal("transfer")' = ReceiptTotal("transfer") + tx[h].amount
        /\ ReceiptTotal("tip")' = ReceiptTotal("tip")
    BY <1>4, <2>1
  <2>3. donated' = donated + tx[h].amount /\ tipped' = tipped
    BY <1>6 DEF Transfer
  <2> QED BY <1>t, <2>2, <2>3 DEF ReceiptsAddUp
<1>7. CASE UNCHANGED vars
  BY <1>7 DEF vars, ReceiptsAddUp, ReceiptTotal, Mined, MinedOk
<1> QED BY <1>1, <1>3, <1>5, <1>6, <1>7 DEF Next

\* Before the first call every wallet holds what the faucet gave it, and there
\* is no receipt to add up.
LEMMA InitSums == Init => Conservation /\ ReceiptsAddUp
<1> SUFFICES ASSUME Init PROVE Conservation /\ ReceiptsAddUp
  OBVIOUS
<1>1. Conservation
  <2>1. \A a \in Addr : balance[a] = Minted
    BY DEF Init
  <2>2. SumFunctionOnSet(balance, Addr) = Minted * Cardinality(Addr)
    BY <2>1, SumConstant
  <2>3. SumFunctionOnSet(balance, Addr) \in Nat
    BY <2>1, SumType
  <2> QED BY <2>2, <2>3 DEF Init, Conservation
<1>2. ASSUME NEW op PROVE ReceiptTotal(op) = 0
  <2>1. Mined(op) = {}
    BY DEF Init, Mined, MinedOk
  <2> QED BY <2>1, SumEmpty DEF ReceiptTotal
<1> QED BY <1>1, <1>2 DEF Init, ReceiptsAddUp

\* Pool, wallets and receipts tell the same story at every block: no USDt is
\* made or lost by tip, settle or revert, and the receipts verify-tip-tx.ts
\* reads add up to what TipPool.sol pulled.
THEOREM SumsAgree == Spec => []MoneyAddsUp
<1>1. TypeOK /\ Conservation /\ ReceiptsAddUp /\ [Next]_vars
        => (Conservation /\ ReceiptsAddUp)'
  BY StepConservation, StepReceiptsAddUp
<1> QED BY <1>1, InitSums, TypeCorrect, Accounted, PTL DEF Spec, MoneyAddsUp

-----------------------------------------------------------------------------
(***************************************************************************)
(* TipPool implements EscrowLedger.                                         *)
(***************************************************************************)

\* A transaction not yet mined is one of the calls the wallet can make.
PendingAreCalls ==
  \A h \in TxHash : tx[h] # NoTx /\ tx[h].status = "pending" => tx[h] \in Calls

\* Mining never turns a transaction into a pending one, and touches no other.
LEMMA StepPending ==
  TypeOK /\ PendingAreCalls /\ [Next]_vars => PendingAreCalls'
<1> SUFFICES ASSUME TypeOK, PendingAreCalls, [Next]_vars, NEW g \in TxHash,
                    tx'[g] # NoTx, tx'[g].status = "pending"
             PROVE  tx'[g] \in Calls'
  BY DEF PendingAreCalls
<1>0. Calls' = Calls /\ tx \in [TxHash -> Tx \cup {NoTx}]
  BY DEF Calls, Call, TypeOK
<1>1. ASSUME NEW h \in TxHash, Submit(h) PROVE tx'[g] \in Calls'
  BY <1>0, <1>1 DEF Submit, PendingAreCalls
<1>2. ASSUME NEW h \in TxHash,
             Approve(h) \/ Transfer(h) \/ Tip(h) \/ Settle(h) \/ Revert(h)
      PROVE  tx'[g] \in Calls'
  <2>1. tx[h] \in Tx
    BY <1>2, PendingIsTx DEF Approve, Transfer, Tip, Settle, Revert
  <2>2. tx'[h].status # "pending"
    BY <1>0, <1>2, <2>1 DEF Approve, Transfer, Tip, Settle, Revert, Succeed, Tx
  <2>3. tx'[g] = tx[g]
    BY <1>0, <1>2, <2>2 DEF Approve, Transfer, Tip, Settle, Revert, Succeed
  <2> QED BY <1>0, <2>3 DEF PendingAreCalls
<1>3. CASE UNCHANGED vars
  BY <1>0, <1>3 DEF vars, PendingAreCalls
<1> QED BY <1>1, <1>2, <1>3 DEF Next

\* What a pending call carries, by its operation.
LEMMA PendingCall ==
  ASSUME PendingAreCalls, NEW h \in TxHash, NEW op, Pending(h, op)
  PROVE  /\ tx[h].from \in Addr
         /\ op \in {"tip", "settle"} => tx[h].nation \in Nation
         /\ op \in {"approve", "transfer"} => tx[h].nation = NoNation
         /\ op \in {"tip", "transfer"} => tx[h].amount \in Amount
BY DEF PendingAreCalls, Pending, Calls, Call

\* A mined transaction adds its own receipt to the ledger and no other.
LEMMA MinedReceipt ==
  ASSUME NEW h \in TxHash, receiptBar[h] = NoReceipt,
         \A g \in TxHash \ {h} : tx'[g] = tx[g]
  PROVE  Ledger!Record(h, receiptBar'[h])
<1>1. \A g \in TxHash \ {h} : receiptBar'[g] = receiptBar[g]
  BY DEF receiptBar, Seen, NoReceipt
<1> QED BY <1>1 DEF Ledger!Record, receiptBar

\* The receipt of a transaction mined by this step.
LEMMA ReceiptNow ==
  ASSUME NEW h \in TxHash, tx'[h] # NoTx, tx'[h].status # "pending"
  PROVE  receiptBar'[h] = Seen(tx'[h])
BY DEF receiptBar, Seen

\* Every step of the contract is a step of the ledger or leaves it alone.
LEMMA StepRefines ==
  TypeOK /\ PendingAreCalls /\ [Next]_vars
    => [Ledger!LedgerNext]_(Ledger!ledgerVars)
<1> SUFFICES ASSUME TypeOK, PendingAreCalls, [Next]_vars
             PROVE  Ledger!LedgerNext \/ UNCHANGED Ledger!ledgerVars
  OBVIOUS
<1> USE DEF token, pool
<1>0. tx \in [TxHash -> Tx \cup {NoTx}] /\ poolBalance \in Nat
  BY DEF TypeOK
<1>a. ASSUME NEW h \in TxHash, NEW op, Pending(h, op)
      PROVE  /\ tx[h] \in Tx /\ tx[h] # NoTx /\ tx[h].op = op
             /\ receiptBar[h] = NoReceipt
  BY <1>a, PendingIsTx DEF Pending, receiptBar, NoReceipt
<1>1. ASSUME NEW h \in TxHash, Submit(h) PROVE UNCHANGED Ledger!ledgerVars
  <2>1. PICK c \in Calls : tx' = [tx EXCEPT ![h] = c]
    BY <1>1 DEF Submit
  <2>2. c.status = "pending"
    BY DEF Calls, Call
  <2>3. \A g \in TxHash : receiptBar'[g] = receiptBar[g]
    BY <1>0, <1>1, <2>1, <2>2 DEF Submit, receiptBar, Seen, NoReceipt
  <2>4. receiptBar' = receiptBar
    BY <2>3 DEF receiptBar
  <2> QED BY <1>1, <2>4 DEF Submit, Ledger!ledgerVars
<1>2. ASSUME NEW h \in TxHash, Approve(h) \/ Revert(h)
      PROVE  Ledger!LogOther(h, tx[h].from)
  <2>1. PICK op : Pending(h, op) /\ (Approve(h) => op = "approve")
    BY <1>2 DEF Approve, Revert
  <2>2. receiptBar'[h] = [kind |-> "other", from |-> tx[h].from,
                          nation |-> NoNation, amount |-> 0]
    <3>1. tx[h] \in Tx /\ tx[h].op = op
      BY <1>a, <2>1
    <3>2. /\ tx'[h] # NoTx /\ tx'[h].from = tx[h].from /\ tx'[h].op = op
          /\ \/ tx'[h].status = "ok" /\ op = "approve"
             \/ tx'[h].status = "reverted"
      BY <1>0, <1>2, <2>1, <3>1 DEF Approve, Revert, Succeed, Tx, Status
    <3> QED BY <3>2, ReceiptNow DEF Seen
  <2>3. \A g \in TxHash \ {h} : tx'[g] = tx[g]
    BY <1>0, <1>2 DEF Approve, Revert, Succeed
  <2>4. UNCHANGED <<poolBalance, settled>>
    BY <1>2 DEF Approve, Revert
  <2>5. Ledger!Record(h, receiptBar'[h])
    BY <1>a, <2>1, <2>3, MinedReceipt
  <2> QED BY <2>2, <2>4, <2>5 DEF Ledger!LogOther
<1>3. ASSUME NEW h \in TxHash, Transfer(h)
      PROVE  Ledger!LogDeposit(h, tx[h].from, tx[h].amount)
  <2>1. Pending(h, "transfer")
    BY <1>3 DEF Transfer
  <2>2. receiptBar'[h] = [kind |-> "deposit", from |-> tx[h].from,
                          nation |-> NoNation, amount |-> tx[h].amount]
    <3>1. tx[h] \in Tx /\ tx[h].op = "transfer" /\ tx[h].nation = NoNation
      BY <1>a, <2>1, PendingCall
    <3>2. /\ tx'[h] # NoTx /\ tx'[h].op = "transfer" /\ tx'[h].status = "ok"
          /\ tx'[h].from = tx[h].from /\ tx'[h].nation = tx[h].nation
          /\ tx'[h].amount = tx[h].amount
      BY <1>0, <1>3, <3>1 DEF Transfer, Succeed, Tx, Status
    <3> QED BY <2>1, <3>1, <3>2, ReceiptNow DEF Seen
  <2>3. \A g \in TxHash \ {h} : tx'[g] = tx[g]
    BY <1>0, <1>3 DEF Transfer, Succeed
  <2>4. Ledger!Record(h, receiptBar'[h])
    BY <1>a, <2>1, <2>3, MinedReceipt
  <2> QED BY <1>3, <2>2, <2>4 DEF Transfer, Ledger!LogDeposit
<1>4. ASSUME NEW h \in TxHash, Tip(h)
      PROVE  Ledger!LogTip(h, tx[h].from, tx[h].nation, tx[h].amount)
  <2>1. Pending(h, "tip") /\ tx[h].amount > 0
    BY <1>4, PendingIsTx DEF Tip, TipAccepted
  <2>2. receiptBar'[h] = [kind |-> "tip", from |-> tx[h].from,
                          nation |-> tx[h].nation, amount |-> tx[h].amount]
    <3>1. tx[h] \in Tx /\ tx[h].op = "tip"
      BY <1>a, <2>1
    <3>2. /\ tx'[h] # NoTx /\ tx'[h].op = "tip" /\ tx'[h].status = "ok"
          /\ tx'[h].from = tx[h].from /\ tx'[h].nation = tx[h].nation
          /\ tx'[h].amount = tx[h].amount
      BY <1>0, <1>4, <3>1 DEF Tip, Succeed, Tx, Status
    <3> QED BY <2>1, <3>1, <3>2, ReceiptNow DEF Seen
  <2>3. \A g \in TxHash \ {h} : tx'[g] = tx[g]
    BY <1>0, <1>4 DEF Tip, Succeed
  <2>4. Ledger!Record(h, receiptBar'[h])
    BY <1>a, <2>1, <2>3, MinedReceipt
  <2> QED BY <1>4, <2>1, <2>2, <2>4 DEF Tip, TipAccepted, Ledger!LogTip
<1>5. ASSUME NEW h \in TxHash, Settle(h)
      PROVE  Ledger!LogSettled(h, tx[h].nation)
  <2>1. Pending(h, "settle") /\ tx[h].from = Host /\ ~settled
    BY <1>5 DEF Settle, SettleAccepted
  <2>2. receiptBar'[h] = [kind |-> "settled", from |-> Host,
                          nation |-> tx[h].nation, amount |-> poolBalance]
    <3>1. tx[h] \in Tx /\ tx[h].op = "settle"
      BY <1>a, <2>1
    <3>2. /\ tx'[h] # NoTx /\ tx'[h].op = "settle" /\ tx'[h].status = "ok"
          /\ tx'[h].from = tx[h].from /\ tx'[h].nation = tx[h].nation
          /\ tx'[h].amount = poolBalance
      BY <1>0, <1>5, <3>1 DEF Settle, Tx, Status
    <3> QED BY <2>1, <3>1, <3>2, ReceiptNow DEF Seen
  <2>3. \A g \in TxHash \ {h} : tx'[g] = tx[g]
    BY <1>0, <1>5 DEF Settle
  <2>4. Ledger!Record(h, receiptBar'[h])
    BY <1>a, <2>1, <2>3, MinedReceipt
  <2> QED BY <1>5, <2>1, <2>2, <2>4 DEF Settle, Ledger!LogSettled
<1>6. CASE UNCHANGED vars
  BY <1>6 DEF vars, Ledger!ledgerVars, receiptBar, Seen, NoReceipt
<1>7. ASSUME NEW h \in TxHash, Approve(h) \/ Transfer(h) \/ Tip(h) \/ Settle(h) \/ Revert(h)
      PROVE  Ledger!LedgerNext
  <2>1. CASE Approve(h) \/ Revert(h)
    <3>1. tx[h].from \in Addr
      BY <2>1, PendingCall DEF Approve, Revert
    <3> QED BY <1>2, <2>1, <3>1 DEF Ledger!LedgerNext
  <2>2. CASE Transfer(h)
    <3>1. tx[h].from \in Addr /\ tx[h].amount \in Amount
      BY <2>2, PendingCall DEF Transfer
    <3> QED BY <1>3, <2>2, <3>1 DEF Ledger!LedgerNext
  <2>3. CASE Tip(h)
    <3>1. tx[h].from \in Addr /\ tx[h].nation \in Nation /\ tx[h].amount \in Amount
      BY <2>3, PendingCall DEF Tip
    <3> QED BY <1>4, <2>3, <3>1 DEF Ledger!LedgerNext
  <2>4. CASE Settle(h)
    <3>1. tx[h].nation \in Nation
      BY <2>4, PendingCall DEF Settle
    <3> QED BY <1>5, <2>4, <3>1 DEF Ledger!LedgerNext
  <2> QED BY <1>7, <2>1, <2>2, <2>3, <2>4
<1> QED BY <1>1, <1>6, <1>7 DEF Next

\* Whatever is proved of EscrowLedger holds of TipPool's receipts and balance:
\* the party API may read the chain through that module alone.
THEOREM Refines == Spec => ImplementsLedger
<1>1. Init => Ledger!LedgerInit
  BY DEF Init, Ledger!LedgerInit, receiptBar, NoReceipt
<1>2. Init => PendingAreCalls
  BY DEF Init, PendingAreCalls
<1> QED BY <1>1, <1>2, StepPending, StepRefines, TypeCorrect, PTL
        DEF Spec, ImplementsLedger, Ledger!LedgerSpec
=============================================================================
