---------------------------- MODULE EscrowLedger ----------------------------
(***************************************************************************)
(* What the rest of GoalTip relies on when it reads Sepolia: an append-only *)
(* table of transaction receipts of one room's TipPool and the USDt held by *)
(* the pool.  The party API (verify-tip-tx.ts, verify-settle-tx.ts) sees    *)
(* nothing of the chain but receipts and their logs, so this is the level   *)
(* at which the server modules are composed with the chain.  TipPool.tla    *)
(* implements it.                                                           *)
(***************************************************************************)
EXTENDS Naturals, FiniteSets

CONSTANTS
  Addr,       \* wallets (EOAs)
  Host,       \* the wallet that deployed the pool
  Nation,     \* nation ids, as bytes32 topics
  TxHash,     \* transaction hashes
  Amount,     \* USDt base units a transaction may carry
  NoNation,   \* the nation of a receipt that names none
  NoReceipt   \* what eth_getTransactionReceipt answers for an unmined hash

\* A transaction hash has 32 bytes: there are finitely many.
ASSUME LedgerAssumption ==
  /\ IsFiniteSet(TxHash)
  /\ Host \in Addr
  /\ Amount \subseteq Nat
  /\ NoNation \notin Nation
  /\ NoReceipt \notin [kind : {"tip", "deposit", "settled", "other"}, from : Addr,
                       nation : Nation \cup {NoNation}, amount : Nat]

VARIABLES
  receipt,    \* receipt[h]: the logs of mined transaction h, or NoReceipt
  escrow,     \* USDt the pool holds
  open        \* TRUE until the Settled log

ledgerVars == <<receipt, escrow, open>>

(***************************************************************************)
(* A receipt is told apart by the logs it carries:                          *)
(*   "tip"      Transfer(from -> pool) and Tip(from, nation, amount)        *)
(*   "deposit"  Transfer(from -> pool) alone (a plain ERC-20 transfer)      *)
(*   "settled"  Settled(host, winner, amount)                               *)
(*   "other"    reverted, or successful without any of these logs           *)
(***************************************************************************)
Receipt == [kind : {"tip", "deposit", "settled", "other"}, from : Addr,
            nation : Nation \cup {NoNation}, amount : Nat]

Record(h, r) ==
  /\ receipt[h] = NoReceipt
  /\ receipt' = [receipt EXCEPT ![h] = r]

LogTip(h, a, n, v) ==
  /\ open
  /\ v > 0
  /\ Record(h, [kind |-> "tip", from |-> a, nation |-> n, amount |-> v])
  /\ escrow' = escrow + v
  /\ UNCHANGED open

LogDeposit(h, a, v) ==
  /\ Record(h, [kind |-> "deposit", from |-> a, nation |-> NoNation, amount |-> v])
  /\ escrow' = escrow + v
  /\ UNCHANGED open

LogSettled(h, n) ==
  /\ open
  /\ Record(h, [kind |-> "settled", from |-> Host, nation |-> n, amount |-> escrow])
  /\ escrow' = 0
  /\ open' = FALSE

LogOther(h, a) ==
  /\ Record(h, [kind |-> "other", from |-> a, nation |-> NoNation, amount |-> 0])
  /\ UNCHANGED <<escrow, open>>

LedgerInit ==
  /\ receipt = [h \in TxHash |-> NoReceipt]
  /\ escrow = 0
  /\ open = TRUE

LedgerNext ==
  \E h \in TxHash :
    \/ \E a \in Addr, n \in Nation, v \in Amount : LogTip(h, a, n, v)
    \/ \E a \in Addr, v \in Amount : LogDeposit(h, a, v)
    \/ \E n \in Nation : LogSettled(h, n)
    \/ \E a \in Addr : LogOther(h, a)

LedgerSpec == LedgerInit /\ [][LedgerNext]_ledgerVars
=============================================================================
