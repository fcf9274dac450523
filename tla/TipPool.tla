------------------------------ MODULE TipPool ------------------------------
(***************************************************************************)
(* contracts/src/TipPool.sol: the per-room USDt escrow, with the part of    *)
(* the USDt token it calls and the life of a transaction (submitted by a    *)
(* wallet, then mined in any order, or never).  A contract call is atomic:  *)
(* it either does everything or reverts and changes nothing but its own     *)
(* receipt.  The token behaves as contracts/test/TipPool.t.sol's MockUSDT.  *)
(***************************************************************************)
EXTENDS Naturals, FiniteSets, Functions

CONSTANTS
  Addr,           \* wallets
  Host,           \* msg.sender of the constructor
  Nation,         \* nation ids (bytes32)
  TxHash,         \* transaction hashes, each used once
  Amount,         \* amounts of tips and plain transfers, 0 included
  Approval,       \* amounts of ERC-20 approvals
  Minted,         \* USDt every wallet got from the faucet
  NoNation,       \* winnerNationId before settle (bytes32(0))
  NoTx            \* a hash no transaction has yet

VARIABLES
  balance,        \* USDt.balanceOf of each wallet
  poolBalance,    \* USDt.balanceOf(TipPool)
  allowance,      \* USDt.allowance(wallet, TipPool)
  settled,        \* TipPool.settled
  winnerNationId, \* TipPool.winnerNationId
  settledAmount,  \* TipPool.settledAmount
  tx,             \* every submitted transaction, with its receipt once mined
  tipped,         \* history: USDt pulled by tip() so far
  donated         \* history: USDt that came by plain transfer so far

token == <<balance, poolBalance, allowance>>
pool  == <<settled, winnerNationId, settledAmount>>
vars  == <<balance, poolBalance, allowance, settled, winnerNationId,
           settledAmount, tx, tipped, donated>>

Op     == {"approve", "transfer", "tip", "settle"}
Status == {"pending", "ok", "reverted"}
Tx     == [op : Op, from : Addr, nation : Nation \cup {NoNation},
           amount : Nat, status : Status]

\* An address has 20 bytes and a transaction hash 32: both sets are finite.
ASSUME PoolAssumption ==
  /\ IsFiniteSet(Addr)
  /\ IsFiniteSet(TxHash)
  /\ Host \in Addr
  /\ Amount \subseteq Nat
  /\ Approval \subseteq Nat
  /\ Minted \in Nat
  /\ NoNation \notin Nation
  /\ NoTx \notin Tx

TypeOK ==
  /\ balance \in [Addr -> Nat]
  /\ poolBalance \in Nat
  /\ allowance \in [Addr -> Nat]
  /\ settled \in BOOLEAN
  /\ winnerNationId \in Nation \cup {NoNation}
  /\ settledAmount \in Nat
  /\ tx \in [TxHash -> Tx \cup {NoTx}]
  /\ tipped \in Nat
  /\ donated \in Nat

(***************************************************************************)
(* The constructor has run: the pool exists, empty and open.                *)
(***************************************************************************)
Init ==
  /\ balance = [a \in Addr |-> Minted]
  /\ poolBalance = 0
  /\ allowance = [a \in Addr |-> 0]
  /\ settled = FALSE
  /\ winnerNationId = NoNation
  /\ settledAmount = 0
  /\ tx = [h \in TxHash |-> NoTx]
  /\ tipped = 0
  /\ donated = 0

-----------------------------------------------------------------------------
(***************************************************************************)
(* A wallet signs and broadcasts a call.  Nothing but the mempool changes.  *)
(***************************************************************************)
Call(op, a, n, v) ==
  [op |-> op, from |-> a, nation |-> n, amount |-> v, status |-> "pending"]

Calls ==
  {Call("approve", a, NoNation, v) : a \in Addr, v \in Approval}
    \cup {Call("transfer", a, NoNation, v) : a \in Addr, v \in Amount}
    \cup {Call("tip", a, n, v) : a \in Addr, n \in Nation, v \in Amount}
    \cup {Call("settle", a, n, 0) : a \in Addr, n \in Nation}

Submit(h) ==
  /\ tx[h] = NoTx
  /\ \E c \in Calls : tx' = [tx EXCEPT ![h] = c]
  /\ UNCHANGED <<token, pool, tipped, donated>>

-----------------------------------------------------------------------------
Pending(h, op) == tx[h] # NoTx /\ tx[h].op = op /\ tx[h].status = "pending"

Succeed(h) == tx' = [tx EXCEPT ![h].status = "ok"]

\* transferFrom(msg.sender, pool, amount) does not revert.
CanPull(a, v) == balance[a] >= v /\ allowance[a] >= v

\* Mutant: tip() without its AlreadySettled check.
TipAcceptedLate(t) == t.amount # 0 /\ CanPull(t.from, t.amount)

\* Mutant: tip() without its TransferFailed check.
TipAcceptedUnpulled(t) == ~settled /\ t.amount # 0

TipAccepted(t) == ~settled /\ t.amount # 0 /\ CanPull(t.from, t.amount)

\* Mutant: settle() without its AlreadySettled check.
SettleAcceptedAgain(t) == t.from = Host

\* Mutant: settle() without its NotHost check.
SettleAcceptedFromAnyone(t) == ~settled

SettleAccepted(t) == t.from = Host /\ ~settled

TransferAccepted(t) == balance[t.from] >= t.amount

\* USDt.approve(pool, amount)
Approve(h) ==
  /\ Pending(h, "approve")
  /\ allowance' = [allowance EXCEPT ![tx[h].from] = tx[h].amount]
  /\ Succeed(h)
  /\ UNCHANGED <<balance, poolBalance, pool, tipped, donated>>

\* USDt.transfer(pool, amount): the legacy way in, which no contract code sees.
Transfer(h) ==
  /\ Pending(h, "transfer")
  /\ TransferAccepted(tx[h])
  /\ balance' = [balance EXCEPT ![tx[h].from] = @ - tx[h].amount]
  /\ poolBalance' = poolBalance + tx[h].amount
  /\ donated' = donated + tx[h].amount
  /\ Succeed(h)
  /\ UNCHANGED <<allowance, pool, tipped>>

\* Mutant: tip() ignores transferFrom's answer.
TipUnchecked(h) ==
  /\ Pending(h, "tip")
  /\ ~settled /\ tx[h].amount # 0
  /\ Succeed(h)
  /\ IF CanPull(tx[h].from, tx[h].amount)
     THEN /\ allowance' = [allowance EXCEPT ![tx[h].from] = @ - tx[h].amount]
          /\ balance' = [balance EXCEPT ![tx[h].from] = @ - tx[h].amount]
          /\ poolBalance' = poolBalance + tx[h].amount
          /\ tipped' = tipped + tx[h].amount
          /\ UNCHANGED <<pool, donated>>
     ELSE UNCHANGED <<token, pool, tipped, donated>>

\* TipPool.tip(nationId, amount)
Tip(h) ==
  /\ Pending(h, "tip")
  /\ TipAccepted(tx[h])
  /\ allowance' = [allowance EXCEPT ![tx[h].from] = @ - tx[h].amount]
  /\ balance' = [balance EXCEPT ![tx[h].from] = @ - tx[h].amount]
  /\ poolBalance' = poolBalance + tx[h].amount
  /\ tipped' = tipped + tx[h].amount
  /\ Succeed(h)
  /\ UNCHANGED <<pool, donated>>

\* TipPool.settle(winner): lock, then pay the whole balance to the host.  The
\* receipt's amount becomes that of its Settled log.
Settle(h) ==
  /\ Pending(h, "settle")
  /\ SettleAccepted(tx[h])
  /\ settled' = TRUE
  /\ winnerNationId' = tx[h].nation
  /\ settledAmount' = poolBalance
  /\ balance' = [balance EXCEPT ![Host] = @ + poolBalance]
  /\ poolBalance' = 0
  /\ tx' = [tx EXCEPT ![h].status = "ok", ![h].amount = poolBalance]
  /\ UNCHANGED <<allowance, tipped, donated>>

\* AlreadySettled, ZeroAmount, NotHost, or the token refuses.
Revert(h) ==
  /\ \/ Pending(h, "transfer") /\ ~TransferAccepted(tx[h])
     \/ Pending(h, "tip") /\ ~TipAccepted(tx[h])
     \/ Pending(h, "settle") /\ ~SettleAccepted(tx[h])
  /\ tx' = [tx EXCEPT ![h].status = "reverted"]
  /\ UNCHANGED <<token, pool, tipped, donated>>

Next ==
  \E h \in TxHash :
    Submit(h) \/ Approve(h) \/ Transfer(h) \/ Tip(h) \/ Settle(h) \/ Revert(h)

Spec == Init /\ [][Next]_vars

-----------------------------------------------------------------------------
(***************************************************************************)
(* Properties                                                               *)
(***************************************************************************)

\* Every USDt that came in, by tip() or by plain transfer, is either still in
\* the pool or was paid out by settle (TipPool.sol 40-63).
EscrowAccounted == poolBalance + settledAmount = tipped + donated

\* Once the match is settled the host has been paid every tip ever made, and
\* what the pool still holds came by plain transfer: no fan's tip is stranded.
EveryTipPaidOut ==
  settled => settledAmount >= tipped /\ poolBalance <= donated

\* Settling is final: afterwards no tip gets in, nothing leaves the pool and
\* the outcome never changes, whatever transactions are still pending.
SettlementFinal ==
  [][settled => /\ UNCHANGED <<pool, tipped>>
                /\ poolBalance' >= poolBalance]_vars

MinedOk(h, op) == tx[h] # NoTx /\ tx[h].op = op /\ tx[h].status = "ok"

\* A successful settle receipt is the outcome: it exists iff the pool is
\* settled, there is at most one, it is the host's, and its Settled log names
\* the pool's winner and amount.  verify-settle-tx.ts trusts exactly this.
SettleReceiptIsOutcome ==
  /\ settled => \E h \in TxHash : MinedOk(h, "settle")
  /\ \A h \in TxHash :
       MinedOk(h, "settle") =>
         /\ settled
         /\ tx[h].from = Host
         /\ tx[h].nation = winnerNationId
         /\ tx[h].amount = settledAmount
         /\ \A g \in TxHash : MinedOk(g, "settle") => g = h

\* USDt neither appears nor vanishes: what the wallets and the pool hold adds
\* up to what was minted, through every tip, settle and revert.
Conservation ==
  poolBalance + SumFunctionOnSet(balance, Addr) = Minted * Cardinality(Addr)

Mined(op) == {h \in TxHash : MinedOk(h, op)}

ReceiptTotal(op) == SumFunctionOnSet([h \in Mined(op) |-> tx[h].amount], Mined(op))

\* The receipts tell the whole story: the successful tip receipts add up to
\* what tip() pulled and the successful transfer receipts to what was donated.
\* The scoreboard, which is built from receipts only, rests on this.
ReceiptsAddUp == ReceiptTotal("tip") = tipped /\ ReceiptTotal("transfer") = donated

\* Pool, wallets and receipts tell the same story, at every block.
MoneyAddsUp == EscrowAccounted /\ Conservation /\ ReceiptsAddUp

-----------------------------------------------------------------------------
(***************************************************************************)
(* The contract implements the ledger the party API reads.                  *)
(***************************************************************************)
NoReceipt == NoTx

Seen(t) ==
  IF t.status = "ok" /\ t.op # "approve"
  THEN [kind |-> CASE t.op = "tip" -> "tip"
                   [] t.op = "transfer" -> "deposit"
                   [] OTHER -> "settled",
        from |-> t.from, nation |-> t.nation, amount |-> t.amount]
  ELSE [kind |-> "other", from |-> t.from, nation |-> NoNation, amount |-> 0]

receiptBar ==
  [h \in TxHash |-> IF tx[h] = NoTx \/ tx[h].status = "pending"
                    THEN NoReceipt ELSE Seen(tx[h])]

Ledger == INSTANCE EscrowLedger
            WITH receipt <- receiptBar, escrow <- poolBalance, open <- ~settled

ImplementsLedger == Ledger!LedgerSpec
=============================================================================
